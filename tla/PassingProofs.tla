------------------------------ MODULE PassingProofs ------------------------------
(***************************************************************************)
(* Proofs about Passing: what an any may hold and who may have it.         *)
(***************************************************************************)
EXTENDS Passing, SequenceTheorems, TLAPS

(***************************************************************************)
(* The inductive invariant.                                                *)
(***************************************************************************)

\* The risks that the theorems exclude.
DefaultsFit     == "default" \notin Rash
NilIsNoObject   == "nil" \notin Rash
LuaReturnsAsked == "output" \notin Rash

OwnerAsked == \E p \in DOMAIN nodes : nodes[p].owner

\* What any may be: a const object is held as such, and a shared_ptr is one of
\* the program unless a policy asked for it.
Proper(c) ==
  /\ c \in [how : How, of : Objects \cup Paths]
  /\ c.of \in Consts => c.how \in {"cref", "cptr"}
  /\ c.how = "shared" => c.of \in Counted \cup {New, Null} \/ OwnerAsked

IsClass(t) == t.class \in {"object", "incomplete"}

\* The any of an argument or a result of type t.
Held(t, c) == Proper(c) /\ (IsClass(t) => c.of \in Objects)

\* The argument of a C++ function.
Taken(t, c) ==
  /\ DefaultsFit => Accepts(t, c)
  /\ NilIsNoObject /\ Referenced(t) => c.of # Null

ArgInv(fr, j) ==
  /\ Held(ParameterOf(fr, j), fr.args[j])
  /\ fr.dir = "fromLua" => Taken(ParameterOf(fr, j), fr.args[j])

RetInv(fr) ==
  /\ fr.ret # Empty => Held(ParameterOf(fr, 0), fr.ret)
  /\ fr.at # "output" => fr.ret = Empty
  /\ fr.dir = "fromLua" /\ fr.at = "output" /\ fr.i = 0 => fr.ret # Empty

\* What was read of the results of a Lua function.
ReadInv(fr) ==
  LuaReturnsAsked /\ fr.dir = "toLua" /\ fr.at = "output" =>
    /\ fr.ret # Empty => ReturnAccepts(ParameterOf(fr, 0), fr.ret)
    /\ \A j \in 1..Arity(fr) :
         j < fr.i /\ Append(fr.path, Names[j + 1]) \in DOMAIN nodes
           /\ nodes[Append(fr.path, Names[j + 1])].out
           => OutAccepts(ParameterOf(fr, j), fr.args[j])

Arguments == Seq([how : How, of : Objects \cup Paths])

Frame ==
  [path : Paths, dir : {"fromLua", "toLua"}, at : {"args", "body", "output"}, i : Nat,
   args : Arguments, ret : Contents]

Callables == {p \in DOMAIN type : type[p].form = "function"}

FrameInv(fr) ==
  /\ fr \in Frame /\ fr.path \in Callables
  /\ fr.at = "args" => fr.i \in 1..(Arity(fr) + 1) /\ Len(fr.args) = fr.i - 1
  /\ fr.at # "args" => Len(fr.args) = Arity(fr)
  /\ fr.at = "output" => fr.i \in 0..(Arity(fr) + 1)
  /\ \A j \in 1..Len(fr.args) : ArgInv(fr, j)
  /\ RetInv(fr) /\ ReadInv(fr)

FramesInv == \A k \in 1..Len(frames) : FrameInv(frames[k])

\* Lua and C++ call each other in turn, and all but the innermost call wait.
TurnsInv ==
  /\ frames \in Seq(Frame) /\ Len(frames) <= MaxDepth
  /\ \A k \in 1..Len(frames) :
       /\ frames[k].dir = IF k % 2 = 1 THEN "fromLua" ELSE "toLua"
       /\ frames[k].path \in (IF k % 2 = 1 THEN closures ELSE functors)
       /\ k < Len(frames) => frames[k].at = "body"

BoxInv(b) == b \in Boxes /\ Proper(b) /\ b.of # Null

BoxesInv == \A b \in boxes : BoxInv(b)

Node ==
  [mayIn : BOOLEAN, mayOut : BOOLEAN, in : BOOLEAN, out : BOOLEAN,
   discard : BOOLEAN, owner : BOOLEAN, default : {Empty} \cup Defaults]

NodeInv(p) ==
  /\ nodes[p] \in Node
  /\ (nodes[p].in => nodes[p].mayIn) /\ (nodes[p].out => nodes[p].mayOut)
  /\ DefaultsFit /\ nodes[p].default # Empty => Accepts(TypeAt(p), nodes[p].default)

\* Every node that was made is there.
NodesInv ==
  /\ DOMAIN nodes \subseteq Paths /\ DOMAIN Made(type) \subseteq DOMAIN nodes
  /\ \A p \in DOMAIN nodes : NodeInv(p)

IInv ==
  /\ type \in Types /\ changes \in 0..MaxChanges
  /\ NodesInv /\ BoxesInv /\ TurnsInv /\ FramesInv
  /\ closures \subseteq Callables /\ functors \subseteq Callables

(***************************************************************************)
(* Types and frames.                                                       *)
(***************************************************************************)

\* What a function is made of is part of the type.
LEMMA CallableLemma ==
  ASSUME type \in Types, NEW p \in Callables
  PROVE  /\ p \in Paths /\ TypeAt(p) = type[p] /\ TypeAt(p).arity \in 0..2
         /\ \A i \in 0..TypeAt(p).arity : Append(p, Names[i + 1]) \in DOMAIN type
<1>1. IsType(type) /\ p \in DOMAIN type /\ type[p].form = "function"
  BY PolicyAssumption DEF Callables
<1>2. PICK n \in 0..(Len(Names) - 1) :
        type[p] = Function(n) /\ \A i \in 0..n : Append(p, Names[i + 1]) \in DOMAIN type
  BY <1>1 DEF IsType, Leaf, List, Forms
<1>3. Len(Names) = 3
  BY DEF Names
<1> QED
  BY <1>1, <1>2, <1>3 DEF IsType, TypeAt, Function

\* The std::functions of a value are parts of the type.
LEMMA WithinLemma == ASSUME NEW p PROVE Within(p) \subseteq Callables
  BY DEF Within, TypeAt, NoType, Leaf, Callables

LEMMA TopLemma ==
  ASSUME IInv, frames # <<>>
  PROVE  /\ Len(frames) \in Nat \ {0} /\ frames \in Seq(Frame) /\ Top = frames[Len(frames)]
         /\ Top \in Frame /\ FrameInv(Top) /\ Top.path \in Callables
         /\ TypeAt(Top.path).arity \in 0..2 /\ Arity(Top) = TypeAt(Top.path).arity
<1>1. frames \in Seq(Frame) /\ Len(frames) \in Nat \ {0} /\ Top = frames[Len(frames)]
  BY DEF IInv, TurnsInv, Top
<1>2. Len(frames) \in 1..Len(frames)
  BY <1>1
<1>3. FrameInv(Top)
  BY <1>1, <1>2 DEF IInv, FramesInv
<1> QED
  BY <1>1, <1>3, CallableLemma DEF FrameInv, IInv, Arity

\* The invariant of a frame says nothing of what changes during a call.
LEMMA SameLemma ==
  ASSUME type' = type, nodes' = nodes,
         \A k \in 1..Len(frames') : FrameInv(frames'[k])
  PROVE  FramesInv'
  BY DEF FramesInv, FrameInv, Callables, ArgInv, RetInv, ReadInv, Arity, ParameterOf, TypeAt,
         Held, Proper, OwnerAsked

\* The calls change as fs says, and Lua and C++ may have more than before.
LEMMA GrowStep ==
  ASSUME IInv, UNCHANGED <<type, nodes, changes>>,
         \A b \in boxes' : BoxInv(b),
         closures' \subseteq Callables, functors' \subseteq Callables,
         TurnsInv', \A k \in 1..Len(frames') : FrameInv(frames'[k])
  PROVE  IInv'
<1>1. FramesInv'
  BY SameLemma
<1>2. NodesInv'
  BY DEF IInv, NodesInv, NodeInv, TypeAt
<1>3. BoxesInv'
  BY DEF BoxesInv, BoxInv, Proper, OwnerAsked
<1> QED
  BY <1>1, <1>2, <1>3 DEF IInv, Callables

\* The innermost call becomes fr.
LEMMA BecomesStep ==
  ASSUME IInv, frames # <<>>, UNCHANGED <<type, nodes, changes>>,
         \A b \in boxes' : BoxInv(b),
         closures \subseteq closures', closures' \subseteq Callables,
         functors \subseteq functors', functors' \subseteq Callables,
         NEW fr, FrameInv(fr), fr.dir = Top.dir, fr.path = Top.path, Becomes(fr)
  PROVE  IInv'
<1> DEFINE n == Len(frames)
<1>1. n \in Nat \ {0} /\ frames \in Seq(Frame) /\ Top = frames[n]
  BY TopLemma
<1>2. fr \in Frame
  BY DEF FrameInv
<1>3. /\ frames' \in Seq(Frame) /\ Len(frames') = n /\ frames'[n] = fr
      /\ \A k \in 1..n : k # n => frames'[k] = frames[k]
  BY <1>1, <1>2 DEF Becomes
<1> HIDE DEF n
<1>4. \A k \in 1..Len(frames') : FrameInv(frames'[k])
  BY <1>3 DEF IInv, FramesInv, n
<1>5. TurnsInv'
  <2>1. ASSUME NEW k \in 1..n
        PROVE  /\ frames'[k].dir = frames[k].dir /\ frames'[k].path = frames[k].path
               /\ k < n => frames'[k].at = frames[k].at
    BY <1>1, <1>3
  <2>2. \A k \in 1..n :
          /\ frames[k].dir = IF k % 2 = 1 THEN "fromLua" ELSE "toLua"
          /\ frames[k].path \in (IF k % 2 = 1 THEN closures ELSE functors)
          /\ k < n => frames[k].at = "body"
    BY DEF IInv, TurnsInv, n
  <2>3. n <= MaxDepth
    BY DEF IInv, TurnsInv, n
  <2> QED
    BY <1>3, <2>1, <2>2, <2>3 DEF TurnsInv
<1> QED
  BY <1>4, <1>5, GrowStep

\* The innermost calls are over.
LEMMA PrefixStep ==
  ASSUME IInv, UNCHANGED <<type, nodes, changes, boxes, closures, functors>>,
         NEW n \in 0..Len(frames), frames' = SubSeq(frames, 1, n)
  PROVE  IInv'
<1>1. frames \in Seq(Frame) /\ Len(frames) \in Nat /\ n \in Nat /\ n <= Len(frames)
  BY DEF IInv, TurnsInv
<1>2. /\ frames' \in Seq(Frame) /\ Len(frames') = n
      /\ \A k \in 1..n : frames'[k] = frames[k]
  BY <1>1, SubSeqProperties
<1>3. \A k \in 1..n : k \in 1..Len(frames) /\ (k < n => k < Len(frames))
  BY <1>1
<1>4. \A k \in 1..Len(frames') : FrameInv(frames'[k])
  BY <1>2, <1>3 DEF IInv, FramesInv
<1>5. TurnsInv'
  <2>1. n <= MaxDepth
    BY <1>1, PassingAssumption DEF IInv, TurnsInv
  <2> QED
    BY <1>2, <1>3, <2>1 DEF IInv, TurnsInv
<1> QED
  BY <1>4, <1>5, GrowStep DEF IInv, BoxesInv

LEMMA LostStep == ASSUME IInv, Lost PROVE IInv'
<1>1. PICK n \in {m \in 0..(Len(frames) - 1) : m % 2 = 0} : frames' = SubSeq(frames, 1, n)
  BY DEF Lost, Failed
<1>2. Len(frames) \in Nat
  BY DEF IInv, TurnsInv
<1>3. n \in 0..Len(frames)
  BY <1>1, <1>2
<1> QED
  BY <1>1, <1>3, PrefixStep DEF Lost, Failed

\* A call begins.
LEMMA EnterStep ==
  ASSUME IInv, UNCHANGED <<type, nodes, changes, boxes, closures, functors>>,
         NEW p, NEW d,
         \/ d = "fromLua" /\ LuaRuns /\ p \in closures
         \/ d = "toLua" /\ NativeRuns /\ p \in functors,
         Entered(p, d)
  PROVE  IInv'
<1> DEFINE n == Len(frames)
           fr == [path |-> p, dir |-> d, at |-> "args", i |-> 1, args |-> <<>>, ret |-> Empty]
<1>1. n \in Nat /\ frames \in Seq(Frame) /\ n < MaxDepth /\ MaxDepth \in Nat
  BY PassingAssumption DEF IInv, TurnsInv, Entered
<1>2. p \in Callables /\ d \in {"fromLua", "toLua"}
  BY DEF IInv
<1>3. p \in Paths /\ TypeAt(p).arity \in 0..2
  BY <1>2, CallableLemma DEF IInv
<1>4. /\ fr \in Frame /\ fr.path = p /\ fr.dir = d /\ fr.at = "args" /\ fr.i = 1
      /\ fr.args = <<>> /\ fr.ret = Empty
  BY <1>2, <1>3 DEF Frame, Contents, Arguments
<1>5. frames' = Append(frames, fr)
  BY DEF Entered
<1> HIDE DEF fr
<1>6. FrameInv(fr)
  BY <1>2, <1>3, <1>4 DEF FrameInv, RetInv, ReadInv, Arity
<1>7. /\ frames' \in Seq(Frame) /\ Len(frames') = n + 1 /\ frames'[n + 1] = fr
      /\ \A k \in 1..n : frames'[k] = frames[k]
  BY <1>1, <1>4, <1>5
<1> HIDE DEF n
<1>8. \A k \in 1..(n + 1) : k \in 1..n \/ k = n + 1
  BY <1>1
<1>9. \A k \in 1..Len(frames') : FrameInv(frames'[k])
  BY <1>6, <1>7, <1>8 DEF IInv, FramesInv, n
<1>10. \A k \in 1..n :
          /\ frames[k].dir = IF k % 2 = 1 THEN "fromLua" ELSE "toLua"
          /\ frames[k].path \in (IF k % 2 = 1 THEN closures ELSE functors)
          /\ k < n => frames[k].at = "body"
  BY DEF IInv, TurnsInv, n
<1>11. n # 0 => n \in 1..n /\ Top = frames[n] /\ Top.at = "body" /\ frames # <<>>
  BY <1>1 DEF n, Top, LuaRuns, NativeRuns
<1>12. d = IF (n + 1) % 2 = 1 THEN "fromLua" ELSE "toLua"
  <2>1. CASE n = 0
    <3>1. frames = <<>>
      BY <1>1, <2>1 DEF n
    <3> QED
      BY <2>1, <3>1 DEF NativeRuns
  <2>2. CASE n # 0
    <3>1. Top.dir = (IF n % 2 = 1 THEN "fromLua" ELSE "toLua") /\ Top.dir # d
      BY <1>10, <1>11, <2>2 DEF LuaRuns, NativeRuns
    <3>2. n % 2 = 1 <=> (n + 1) % 2 # 1
      BY <1>1
    <3> QED
      BY <1>2, <3>1, <3>2
  <2> QED
    BY <2>1, <2>2
<1>13. TurnsInv'
  <2>1. ASSUME NEW k \in 1..n
        PROVE  /\ frames'[k].dir = IF k % 2 = 1 THEN "fromLua" ELSE "toLua"
               /\ frames'[k].path \in (IF k % 2 = 1 THEN closures ELSE functors)
               /\ frames'[k].at = "body"
    <3>1. k = n => frames[k].at = "body"
      BY <1>1, <1>11
    <3>2. k < n \/ k = n
      BY <1>1
    <3> QED
      BY <1>7, <1>10, <3>1, <3>2
  <2>2. /\ frames'[n + 1].dir = IF (n + 1) % 2 = 1 THEN "fromLua" ELSE "toLua"
        /\ frames'[n + 1].path \in (IF (n + 1) % 2 = 1 THEN closures ELSE functors)
    BY <1>4, <1>7, <1>12
  <2>3. n + 1 <= MaxDepth /\ ~(n + 1 < n + 1)
    BY <1>1
  <2> QED
    BY <1>7, <1>8, <2>1, <2>2, <2>3 DEF TurnsInv
<1> QED
  BY <1>9, <1>13, GrowStep DEF IInv, BoxesInv

(***************************************************************************)
(* What converts.                                                          *)
(***************************************************************************)

\* Conversions from Lua keep what the boxes are.
LEMMA FromLuaLemma ==
  ASSUME IInv, NEW p \in Paths, NEW t, NEW c \in FromLua(p, t)
  PROVE  /\ Held(t, c) /\ c # Empty
         /\ NilIsNoObject /\ Referenced(t) => c.of # Null
<1>1. CASE IsClass(t) /\ c \in boxes
  BY <1>1 DEF IInv, BoxesInv, BoxInv, Boxes, Held, Proper, How, Empty
<1>2. CASE IsClass(t) /\ c = Holds("shared", Null) /\ (Referenced(t) => "nil" \in Rash)
  BY <1>2, PassingAssumption DEF Holds, Held, Proper, How, Objects, Empty, NilIsNoObject
<1>3. CASE ~IsClass(t) /\ c = Holds("value", IF t.class = "number" THEN Temp ELSE p)
  BY <1>3, PassingAssumption DEF Holds, Held, Proper, How, Objects, Empty, IsClass
<1> QED
  BY <1>1, <1>2, <1>3 DEF FromLua, IsClass

\* What the C++ code passes, or returns, is const only where it says so.
LEMMA NativeLemma ==
  ASSUME NEW t, NEW x \in Native(t)
  PROVE  Held(t, Argument(t, x)) /\ Held(t, Returned(t, x))
<1>1. /\ x \in Objects
      /\ x \in Consts => t.form \in {"constptr", "constref"}
      /\ t.form \in {"shared", "sharedref"} => x \in Counted \cup {Null}
  BY PassingAssumption DEF Native, Objects
<1>2. Temp \in Objects /\ Temp \notin Consts
  BY PassingAssumption DEF Objects
<1>3. Held(t, Argument(t, x))
  BY <1>1 DEF Argument, Holds, Held, Proper, How
<1>4. Held(t, Returned(t, x))
  BY <1>1, <1>2 DEF Returned, Referenced, Holds, Held, Proper, How
<1> QED
  BY <1>3, <1>4

\* What is made for an output fits the parameter.
LEMMA FreshLemma ==
  ASSUME NEW t, Fresh(t) # Empty
  PROVE  Held(t, Fresh(t)) /\ Taken(t, Fresh(t))
<1>1. Held(t, Fresh(t))
  BY PassingAssumption DEF Fresh, Held, Proper, Holds, How, Objects, IsClass
<1>2. Accepts(t, Fresh(t))
  BY DEF Fresh, Accepts, Accepted, Holds, How, ConstPointerTable, PointerTable, IncompleteTable,
         ValueTable, SharedTable
<1>3. Fresh(t).of # Null
  BY PassingAssumption DEF Fresh, Holds
<1> QED
  BY <1>1, <1>2, <1>3 DEF Taken

\* A default value is an object that the program has.
LEMMA DefaultLemma ==
  ASSUME IInv, NEW p \in DOMAIN nodes, nodes[p].default # Empty
  PROVE  Held(TypeAt(p), nodes[p].default) /\ Taken(TypeAt(p), nodes[p].default)
<1> DEFINE c == nodes[p].default
<1>1. c \in Defaults /\ (DefaultsFit => Accepts(TypeAt(p), c))
  BY DEF IInv, NodesInv, NodeInv, Node
<1> HIDE DEF c
<1>2. Held(TypeAt(p), c) /\ c.of # Null
  BY <1>1, PassingAssumption DEF Defaults, Holds, Held, Proper, How, Objects
<1> QED
  BY <1>1, <1>2 DEF Taken, c

\* Lua gets no const object, and owns none that nobody gave it.
LEMMA BoxedLemma ==
  ASSUME NEW p \in DOMAIN nodes, NEW t, NEW c, IsClass(t), Held(t, c), Boxed(p, t, c) # Refused
  PROVE  Boxed(p, t, c) \in Boxes /\ Proper(Boxed(p, t, c))
<1>1. /\ c \in [how : How, of : Objects \cup Paths] /\ c.of \in Objects
      /\ c.of \in Consts => c.how \in {"cref", "cptr"}
      /\ c.how = "shared" => c.of \in Counted \cup {New, Null} \/ OwnerAsked
  BY DEF Held, Proper
<1>2. CASE Accepts(Leaf("shared", "object"), c)
  <2>1. c.how = "shared"
    BY <1>2 DEF Accepts, Accepted, Leaf, SharedTable
  <2>2. Boxed(p, t, c) = c
    BY <1>2 DEF Boxed
  <2> QED
    BY <1>1, <2>1, <2>2 DEF Boxes, Proper, How
<1>3. CASE ~Accepts(Leaf("shared", "object"), c)
  <2> DEFINE owns == nodes[p].owner /\ t.class = "object"
  <2>1. /\ Accepts([Pointer EXCEPT !.class = t.class], c)
        /\ Boxed(p, t, c) = Holds(IF owns THEN "shared" ELSE "ptr", c.of)
    BY <1>3 DEF Boxed, Refused
  <2>2. owns => OwnerAsked
    BY DEF OwnerAsked
  <2>3. c.how \notin {"cref", "cptr"}
    BY <2>1 DEF Accepts, Accepted, Pointer, Leaf, PointerTable, IncompleteTable
  <2> HIDE DEF owns
  <2> QED
    BY <1>1, <2>1, <2>2, <2>3 DEF Boxes, Proper, How, Holds
<1> QED
  BY <1>2, <1>3

\* Both kinds of values are given to Lua.
LEMMA ToLuaLemma ==
  ASSUME IInv, NEW p \in DOMAIN nodes, NEW t, NEW c, Held(t, c), ToLua(p, t, c)
  PROVE  /\ \A b \in boxes' : BoxInv(b)
         /\ closures \subseteq closures' /\ closures' \subseteq Callables
<1>1. CASE IsClass(t)
  <2>1. /\ Boxed(p, t, c) # Refused /\ closures' = closures
        /\ boxes' = boxes \cup {b \in {Boxed(p, t, c)} : b.of # Null}
    BY <1>1 DEF ToLua, IsClass
  <2>2. Boxed(p, t, c) \in Boxes /\ Proper(Boxed(p, t, c))
    BY <1>1, <2>1, BoxedLemma
  <2> QED
    BY <2>1, <2>2 DEF IInv, BoxesInv, BoxInv
<1>2. CASE ~IsClass(t)
  BY <1>2, WithinLemma DEF ToLua, IsClass, IInv, BoxesInv
<1> QED
  BY <1>1, <1>2

(***************************************************************************)
(* The arguments.                                                          *)
(***************************************************************************)

LEMMA TurnLemma ==
  ASSUME IInv, NEW d, NEW a, Turn(d, a)
  PROVE  /\ frames # <<>> /\ Top.dir = d /\ Top.at = a /\ Top.i \in Nat /\ Top.i <= Arity(Top)
         /\ Here(Top) \in DOMAIN nodes /\ Here(Top) \in Paths
         /\ Here(Top) = Append(Top.path, Names[Top.i + 1]) /\ Wanted = ParameterOf(Top, Top.i)
         /\ Wanted = TypeAt(Here(Top))
<1>1. frames # <<>> /\ Top \in Frame
  BY TopLemma DEF Turn
<1> QED
  BY <1>1 DEF Turn, Reads, Frame, Here, Wanted, ParameterOf, IInv, NodesInv

\* A value of a list is replaced.
LEMMA ReplaceLemma ==
  ASSUME NEW S, NEW s \in Seq(S), NEW m \in 1..Len(s), NEW c \in S
  PROVE  /\ [s EXCEPT ![m] = c] \in Seq(S) /\ Len([s EXCEPT ![m] = c]) = Len(s)
         /\ \A j \in 1..Len(s) : [s EXCEPT ![m] = c][j] = IF j = m THEN c ELSE s[j]
<1> DEFINE n == Len(s)
           r == [s EXCEPT ![m] = c]
<1>1. n \in Nat /\ s \in [1..n -> S]
  BY LenProperties
<1>2. r \in [1..n -> S] /\ \A j \in 1..n : r[j] = IF j = m THEN c ELSE s[j]
  BY <1>1
<1> HIDE DEF n, r
<1>3. r \in Seq(S) /\ Len(r) = n
  BY <1>1, <1>2, IsASeq
<1> QED
  BY <1>2, <1>3 DEF n, r

\* The next argument is there.
LEMMA GotStep ==
  ASSUME IInv, frames # <<>>, Top.at = "args", Top.i <= Arity(Top),
         NEW c, Held(Wanted, c), Top.dir = "fromLua" => Taken(Wanted, c), Got(c),
         \A b \in boxes' : BoxInv(b),
         closures \subseteq closures', closures' \subseteq Callables,
         functors' = functors
  PROVE  IInv'
<1> DEFINE args == Append(Top.args, c)
           fr == [Top EXCEPT !.i = @ + 1, !.args = args]
           n == Len(Top.args)
<1>1. /\ Top \in Frame /\ FrameInv(Top) /\ Top.i \in 1..(Arity(Top) + 1) /\ n = Top.i - 1
      /\ Arity(Top) \in 0..2 /\ Top.i \in Nat /\ Top.ret = Empty
  BY TopLemma DEF FrameInv, RetInv
<1>2. c \in [how : How, of : Objects \cup Paths]
  BY DEF Held, Proper
<1>3. Top.args \in Arguments /\ n \in Nat
  BY <1>1 DEF Frame, Arguments
<1>4. /\ fr \in Frame /\ fr.path = Top.path /\ fr.dir = Top.dir /\ fr.at = "args"
      /\ fr.i = Top.i + 1 /\ fr.ret = Empty /\ fr.args = Append(Top.args, c)
  <2>1. args \in Arguments
    BY <1>2, <1>3 DEF Arguments
  <2> HIDE DEF args
  <2>2. /\ fr \in Frame /\ fr.path = Top.path /\ fr.dir = Top.dir /\ fr.at = "args"
        /\ fr.i = Top.i + 1 /\ fr.ret = Empty /\ fr.args = args
    <3> DEFINE m == Top.i + 1
    <3>1. Top \in Frame /\ m \in Nat
      BY <1>1
    <3>2. fr = [Top EXCEPT !.i = m, !.args = args] /\ fr.i = m
      BY <3>1 DEF Frame
    <3> HIDE DEF m, fr
    <3>3. fr \in Frame
      BY <2>1, <3>1, <3>2 DEF Frame
    <3>4. /\ fr.path = Top.path /\ fr.dir = Top.dir /\ fr.at = Top.at
          /\ fr.ret = Top.ret /\ fr.args = args
      BY <2>1, <3>1, <3>2 DEF Frame
    <3> QED
      BY <1>1, <3>2, <3>3, <3>4 DEF m
  <2> QED
    BY <2>2 DEF args
<1>5. Becomes(fr) /\ UNCHANGED <<type, nodes, changes>>
  BY <1>1 DEF Got, Frame
<1> HIDE DEF fr, args
<1>6. /\ Len(fr.args) = n + 1 /\ fr.args[n + 1] = c
      /\ \A j \in 1..n : fr.args[j] = Top.args[j]
  BY <1>2, <1>3, <1>4 DEF Arguments
<1>7. \A j \in 1..(n + 1) : j \in 1..n \/ j = n + 1
  BY <1>3
<1> HIDE DEF n
<1>8. Arity(fr) = Arity(Top) /\ \A j : ParameterOf(fr, j) = ParameterOf(Top, j)
  BY <1>4 DEF Arity, ParameterOf
<1>9. Wanted = ParameterOf(Top, n + 1)
  <2>1. n + 1 = Top.i
    BY <1>1, <1>3
  <2> QED
    BY <2>1 DEF Wanted, Here, ParameterOf
<1>10. ASSUME NEW j \in 1..(n + 1) PROVE ArgInv(fr, j)
  <2>1. CASE j \in 1..n
    <3>1. ArgInv(Top, j)
      BY <1>1, <2>1 DEF FrameInv, n
    <3> QED
      BY <1>4, <1>6, <1>8, <2>1, <3>1 DEF ArgInv
  <2>2. CASE j = n + 1
    BY <1>4, <1>6, <1>8, <1>9, <2>2 DEF ArgInv
  <2> QED
    BY <1>7, <2>1, <2>2
<1>11. fr.i \in 1..(Arity(fr) + 1) /\ Len(fr.args) = fr.i - 1
  <2>1. fr.i = Top.i + 1
    BY <1>4
  <2>2. Top.i <= Arity(Top) /\ Arity(Top) \in 0..2 /\ Arity(fr) = Arity(Top) /\ Top.i \in 1..3
    BY <1>1, <1>8
  <2>3. fr.i \in 1..(Arity(fr) + 1)
    BY <2>1, <2>2
  <2>4. Len(fr.args) = n + 1 /\ n = Top.i - 1
    BY <1>1, <1>6
  <2>5. Len(fr.args) = fr.i - 1
    BY <2>1, <2>2, <2>4
  <2> QED
    BY <2>3, <2>5
<1>12. FrameInv(fr)
  <2>1. fr.path \in Callables
    BY <1>4, TopLemma
  <2> QED
    BY <1>4, <1>6, <1>10, <1>11, <2>1 DEF FrameInv, RetInv, ReadInv
<1> QED
  BY <1>4, <1>5, <1>12, BecomesStep DEF IInv

LEMMA FetchInputStep == ASSUME IInv, FetchInput PROVE IInv'
<1>1. PICK c \in FromLua(Here(Top), Wanted) : Accepts(Wanted, c) /\ Got(c)
  BY DEF FetchInput
<1>2. Turn("fromLua", "args") /\ UNCHANGED <<boxes, closures, functors>>
  BY DEF FetchInput
<1>3. Held(Wanted, c) /\ Taken(Wanted, c)
  BY <1>1, <1>2, TurnLemma, FromLuaLemma DEF Taken
<1> QED
  BY <1>1, <1>2, <1>3, TurnLemma, GotStep DEF IInv, BoxesInv

LEMMA FetchDefaultStep == ASSUME IInv, FetchDefault PROVE IInv'
<1> DEFINE c == nodes[Here(Top)].default
<1>1. /\ Turn("fromLua", "args") /\ c # Empty /\ Got(c)
      /\ UNCHANGED <<boxes, closures, functors>>
  BY DEF FetchDefault, Policy
<1>2. Held(Wanted, c) /\ Taken(Wanted, c)
  BY <1>1, TurnLemma, DefaultLemma
<1> QED
  BY <1>1, <1>2, TurnLemma, GotStep DEF IInv, BoxesInv

LEMMA FetchFreshStep == ASSUME IInv, FetchFresh PROVE IInv'
<1>1. /\ Turn("fromLua", "args") /\ Fresh(Wanted) # Empty /\ Got(Fresh(Wanted))
      /\ UNCHANGED <<boxes, closures, functors>>
  BY DEF FetchFresh
<1>2. Held(Wanted, Fresh(Wanted)) /\ Taken(Wanted, Fresh(Wanted))
  BY <1>1, FreshLemma
<1> QED
  BY <1>1, <1>2, TurnLemma, GotStep DEF IInv, BoxesInv

LEMMA PushStep == ASSUME IInv, Push PROVE IInv'
<1>1. Turn("toLua", "args") /\ functors' = functors
  BY DEF Push
<1>2. PICK x \in Native(Wanted) :
        \/ Failed /\ UNCHANGED <<boxes, closures>>
        \/ /\ ToLua(Here(Top), Wanted, Argument(Wanted, x))
           /\ Got(Argument(Wanted, x))
        \/ Got(Argument(Wanted, x)) /\ UNCHANGED <<boxes, closures>>
  BY DEF Push
<1> DEFINE c == Argument(Wanted, x)
<1>3. /\ Held(Wanted, c) /\ Top.dir = "toLua" /\ Top.at = "args" /\ Top.i <= Arity(Top)
      /\ frames # <<>> /\ Here(Top) \in DOMAIN nodes
  BY <1>1, TurnLemma, NativeLemma
<1> HIDE DEF c
<1>4. CASE Failed /\ UNCHANGED <<boxes, closures>>
  BY <1>1, <1>4, LostStep DEF Lost
<1>5. CASE ToLua(Here(Top), Wanted, c) /\ Got(c)
  <2>1. /\ \A b \in boxes' : BoxInv(b)
        /\ closures \subseteq closures' /\ closures' \subseteq Callables
    BY <1>3, <1>5, ToLuaLemma
  <2> QED
    BY <1>1, <1>3, <1>5, <2>1, GotStep
<1>6. CASE Got(c) /\ UNCHANGED <<boxes, closures>>
  BY <1>1, <1>3, <1>6, GotStep DEF IInv, BoxesInv
<1> QED
  BY <1>2, <1>4, <1>5, <1>6 DEF c

(***************************************************************************)
(* The call itself.                                                        *)
(***************************************************************************)

LEMMA RunStep == ASSUME IInv, Run PROVE IInv'
<1> DEFINE fr == [Top EXCEPT !.at = "body"]
<1>1. /\ frames # <<>> /\ Top.at = "args" /\ Top.i > Arity(Top) /\ Becomes(fr)
      /\ UNCHANGED <<type, nodes, changes, boxes, closures>>
  BY DEF Run
<1>2. /\ Top \in Frame /\ FrameInv(Top) /\ Top.path \in Callables /\ Arity(Top) \in 0..2
      /\ Top.i \in 1..(Arity(Top) + 1) /\ Len(Top.args) = Top.i - 1 /\ Top.ret = Empty
  BY <1>1, TopLemma DEF FrameInv, RetInv
<1>3. /\ fr \in Frame /\ fr.path = Top.path /\ fr.dir = Top.dir /\ fr.at = "body"
      /\ fr.args = Top.args /\ fr.ret = Empty
  BY <1>2 DEF Frame
<1> HIDE DEF fr
<1>4. Arity(fr) = Arity(Top) /\ \A j : ParameterOf(fr, j) = ParameterOf(Top, j)
  BY <1>3 DEF Arity, ParameterOf
<1>5. Len(fr.args) = Arity(fr)
  BY <1>1, <1>2, <1>3, <1>4
<1>6. \A j \in 1..Len(fr.args) : ArgInv(fr, j)
  BY <1>2, <1>3, <1>4 DEF FrameInv, ArgInv
<1>7. FrameInv(fr)
  BY <1>2, <1>3, <1>5, <1>6 DEF FrameInv, RetInv, ReadInv
<1>8. functors \subseteq functors' /\ functors' \subseteq Callables
  BY WithinLemma DEF Run, IInv
<1> QED
  BY <1>1, <1>3, <1>7, <1>8, BecomesStep DEF IInv, BoxesInv

LEMMA AssignStep ==
  ASSUME IInv, NEW m \in 1..Len(Names), NEW x \in Counted \cup {Null}, Assign(m, x)
  PROVE  IInv'
<1> DEFINE c == Holds("shared", x)
           fr == [Top EXCEPT !.args[m] = c]
<1>1. /\ frames # <<>> /\ Top.dir = "fromLua" /\ Top.at = "body" /\ m \in 1..Arity(Top)
      /\ ParameterOf(Top, m).form = "sharedref" /\ Becomes(fr)
      /\ UNCHANGED <<type, nodes, changes, boxes, closures, functors>>
  BY DEF Assign, NativeRuns, ParameterOf
<1>2. /\ Top \in Frame /\ FrameInv(Top) /\ Top.path \in Callables /\ Arity(Top) \in 0..2
      /\ Len(Top.args) = Arity(Top) /\ Top.ret = Empty
  BY <1>1, TopLemma DEF FrameInv, RetInv
<1>3. c \in [how : How, of : Objects \cup Paths] /\ c.how = "shared" /\ c.of = x
  BY DEF Holds, How, Objects
<1>4. Held(ParameterOf(Top, m), c) /\ Taken(ParameterOf(Top, m), c)
  <2>1. x \in Objects /\ x \notin Consts
    BY PassingAssumption DEF Objects
  <2> QED
    BY <1>1, <1>3, <2>1
       DEF Held, Proper, Taken, Accepts, Accepted, SharedTable, Referenced
<1> HIDE DEF c
<1>5. Top.args \in Arguments
  BY <1>2 DEF Frame
<1> DEFINE args == [Top.args EXCEPT ![m] = c]
<1>6. /\ args \in Arguments /\ Len(args) = Arity(Top)
      /\ \A j \in 1..Arity(Top) : args[j] = IF j = m THEN c ELSE Top.args[j]
  <2> DEFINE S == [how : How, of : Objects \cup Paths]
  <2>1. c \in S /\ Top.args \in Seq(S)
    BY <1>3, <1>5 DEF Arguments
  <2> HIDE DEF S
  <2>2. /\ args \in Seq(S) /\ Len(args) = Arity(Top)
        /\ \A j \in 1..Arity(Top) : args[j] = IF j = m THEN c ELSE Top.args[j]
    BY <1>1, <1>2, <2>1, ReplaceLemma
  <2> QED
    BY <2>2 DEF S, Arguments
<1>7. /\ fr \in Frame /\ fr.path = Top.path /\ fr.dir = "fromLua" /\ fr.at = "body"
      /\ fr.args = args /\ fr.ret = Empty
  <2>1. fr = [Top EXCEPT !.args = args]
    BY <1>2 DEF Frame
  <2> HIDE DEF args, fr
  <2> QED
    BY <1>1, <1>2, <1>6, <2>1 DEF Frame
<1> HIDE DEF fr, args
<1>8. Arity(fr) = Arity(Top) /\ \A j : ParameterOf(fr, j) = ParameterOf(Top, j)
  BY <1>7 DEF Arity, ParameterOf
<1>9. /\ Len(fr.args) = Arity(fr)
      /\ \A j \in 1..Arity(Top) : fr.args[j] = IF j = m THEN c ELSE Top.args[j]
  BY <1>6, <1>7, <1>8
<1>10. ASSUME NEW j \in 1..Arity(Top) PROVE ArgInv(fr, j)
  <2>1. ArgInv(Top, j)
    BY <1>2 DEF FrameInv
  <2> QED
    BY <1>1, <1>4, <1>7, <1>8, <1>9, <2>1 DEF ArgInv
<1>11. FrameInv(fr)
  BY <1>2, <1>7, <1>8, <1>9, <1>10 DEF FrameInv, RetInv, ReadInv
<1> QED
  BY <1>1, <1>7, <1>11, BecomesStep DEF IInv, BoxesInv

(***************************************************************************)
(* The results.                                                            *)
(***************************************************************************)

LEMMA ResultLemma == ASSUME frames # <<>> PROVE ResultType = ParameterOf(Top, 0)
<1>1. Names[0 + 1] = "0"
  BY DEF Names
<1> QED
  BY <1>1 DEF ResultType, ParameterOf

\* The types and the arguments of a frame that becomes another.
LEMMA LikeLemma ==
  ASSUME NEW f, NEW fr, fr.path = f.path, fr.dir = f.dir, fr.args = f.args,
         \A j \in 1..Len(f.args) : ArgInv(f, j)
  PROVE  /\ Arity(fr) = Arity(f) /\ \A j : ParameterOf(fr, j) = ParameterOf(f, j)
         /\ \A j \in 1..Len(fr.args) : ArgInv(fr, j)
  BY DEF Arity, ParameterOf, ArgInv

LEMMA ReturnNativeStep ==
  ASSUME IInv, NEW x \in Objects, ReturnNative(x)
  PROVE  IInv'
<1> DEFINE r == Returned(ResultType, x)
           m == IF ResultType.form = "void" THEN 1 ELSE 0
           fr == [Top EXCEPT !.at = "output", !.ret = r, !.i = m]
<1>1. /\ frames # <<>> /\ Top.dir = "fromLua" /\ Top.at = "body" /\ Becomes(fr)
      /\ IF ResultType.form = "void" THEN x = Null ELSE x \in Native(ResultType)
      /\ UNCHANGED <<type, nodes, changes, boxes, closures, functors>>
  BY DEF ReturnNative, NativeRuns
<1>2. /\ Top \in Frame /\ FrameInv(Top) /\ Top.path \in Callables /\ Arity(Top) \in 0..2
      /\ Len(Top.args) = Arity(Top)
  BY <1>1, TopLemma DEF FrameInv
<1>3. Held(ResultType, r) /\ r # Empty
  <2>1. CASE ResultType.form = "void"
    <3>1. r = Holds("value", Null)
      BY <1>1, <2>1 DEF Returned, Referenced
    <3>2. Null \in Objects /\ Null \notin Consts
      BY PassingAssumption DEF Objects
    <3> QED
      BY <3>1, <3>2 DEF Holds, Held, Proper, How, Empty
  <2>2. CASE ResultType.form # "void"
    <3>1. Held(ResultType, r)
      BY <1>1, <2>2, NativeLemma
    <3>2. "empty" \notin How
      BY DEF How
    <3> QED
      BY <3>1, <3>2 DEF Held, Proper, Empty
  <2> QED
    BY <2>1, <2>2
<1>4. r \in Contents
  BY <1>3 DEF Held, Proper, Contents
<1>5. m \in {0, 1} /\ m \in Nat
  OBVIOUS
<1> HIDE DEF r, m
<1>6. /\ fr \in Frame /\ fr.path = Top.path /\ fr.dir = "fromLua" /\ fr.at = "output"
      /\ fr.i = m /\ fr.args = Top.args /\ fr.ret = r
  BY <1>1, <1>2, <1>4, <1>5 DEF Frame
<1> HIDE DEF fr
<1>7. /\ Arity(fr) = Arity(Top) /\ \A j : ParameterOf(fr, j) = ParameterOf(Top, j)
      /\ \A j \in 1..Len(fr.args) : ArgInv(fr, j)
  BY <1>1, <1>2, <1>6, LikeLemma DEF FrameInv
<1>8. RetInv(fr)
  BY <1>1, <1>3, <1>6, <1>7, ResultLemma DEF RetInv
<1>9. fr.i \in 0..(Arity(fr) + 1) /\ Len(fr.args) = Arity(fr)
  BY <1>2, <1>5, <1>6, <1>7
<1>10. FrameInv(fr)
  BY <1>2, <1>6, <1>7, <1>8, <1>9 DEF FrameInv, ReadInv
<1> QED
  BY <1>1, <1>6, <1>10, BecomesStep DEF IInv, BoxesInv

LEMMA ReturnLuaStep == ASSUME IInv, ReturnLua PROVE IInv'
<1> DEFINE m == IF ResultType.form = "void" THEN 1 ELSE 0
           fr == [Top EXCEPT !.at = "output", !.i = m]
<1>1. /\ frames # <<>> /\ Top.dir = "toLua" /\ Top.at = "body" /\ Becomes(fr)
      /\ UNCHANGED <<type, nodes, changes, boxes, closures, functors>>
  BY DEF ReturnLua, LuaRuns
<1>2. /\ Top \in Frame /\ FrameInv(Top) /\ Top.path \in Callables /\ Arity(Top) \in 0..2
      /\ Len(Top.args) = Arity(Top) /\ Top.ret = Empty
  BY <1>1, TopLemma DEF FrameInv, RetInv
<1>3. m \in {0, 1} /\ m \in Nat
  OBVIOUS
<1> HIDE DEF m
<1>4. /\ fr \in Frame /\ fr.path = Top.path /\ fr.dir = "toLua" /\ fr.at = "output"
      /\ fr.i = m /\ fr.args = Top.args /\ fr.ret = Empty
  BY <1>1, <1>2, <1>3 DEF Frame
<1> HIDE DEF fr
<1>5. /\ Arity(fr) = Arity(Top) /\ \A j : ParameterOf(fr, j) = ParameterOf(Top, j)
      /\ \A j \in 1..Len(fr.args) : ArgInv(fr, j)
  BY <1>1, <1>2, <1>4, LikeLemma DEF FrameInv
<1>6. ReadInv(fr)
  <2>1. \A j \in 1..Arity(fr) : ~(j < fr.i)
    BY <1>2, <1>3, <1>4, <1>5
  <2> QED
    BY <1>4, <2>1 DEF ReadInv
<1>7. fr.i \in 0..(Arity(fr) + 1) /\ Len(fr.args) = Arity(fr)
  BY <1>2, <1>3, <1>4, <1>5
<1>8. FrameInv(fr)
  BY <1>2, <1>4, <1>5, <1>6, <1>7 DEF FrameInv, RetInv
<1> QED
  BY <1>1, <1>4, <1>8, BecomesStep DEF IInv, BoxesInv

\* A result, or a parameter, is over.
LEMMA PassedStep ==
  ASSUME IInv, frames # <<>>, Top.at = "output", Top.i <= Arity(Top), Passed,
         Top.dir = "toLua" =>
           ~(Top.i \in 1..Arity(Top) /\ Append(Top.path, Names[Top.i + 1]) \in DOMAIN nodes
               /\ nodes[Append(Top.path, Names[Top.i + 1])].out),
         \A b \in boxes' : BoxInv(b),
         closures \subseteq closures', closures' \subseteq Callables,
         functors' = functors
  PROVE  IInv'
<1> DEFINE m == Top.i + 1
           fr == [Top EXCEPT !.i = m]
<1>1. /\ Top \in Frame /\ FrameInv(Top) /\ Top.path \in Callables /\ Arity(Top) \in 0..2
      /\ Len(Top.args) = Arity(Top) /\ Top.i \in 0..(Arity(Top) + 1) /\ RetInv(Top) /\ ReadInv(Top)
  BY TopLemma DEF FrameInv
<1>2. m \in Nat /\ m \in 1..(Arity(Top) + 1) /\ m # 0 /\ \A j \in 1..Arity(Top) : j < m => j < Top.i \/ j = Top.i
  BY <1>1
<1>3. Becomes(fr) /\ UNCHANGED <<type, nodes, changes>>
  BY <1>1 DEF Passed, Frame
<1>4. fr = [Top EXCEPT !.i = m]
  OBVIOUS
<1> HIDE DEF m, fr
<1>5. /\ fr \in Frame /\ fr.path = Top.path /\ fr.dir = Top.dir /\ fr.at = "output"
      /\ fr.i = m /\ fr.args = Top.args /\ fr.ret = Top.ret
  BY <1>1, <1>2, <1>4 DEF Frame
<1>6. /\ Arity(fr) = Arity(Top) /\ \A j : ParameterOf(fr, j) = ParameterOf(Top, j)
      /\ \A j \in 1..Len(fr.args) : ArgInv(fr, j)
  BY <1>1, <1>5, LikeLemma DEF FrameInv
<1>7. RetInv(fr)
  BY <1>1, <1>2, <1>5, <1>6 DEF RetInv
<1>8. ReadInv(fr)
  BY <1>1, <1>2, <1>5, <1>6 DEF ReadInv
<1>9. fr.i \in 0..(Arity(fr) + 1) /\ Len(fr.args) = Arity(fr)
  BY <1>1, <1>2, <1>5, <1>6
<1>10. FrameInv(fr)
  BY <1>1, <1>5, <1>6, <1>7, <1>8, <1>9 DEF FrameInv
<1> QED
  BY <1>3, <1>5, <1>10, BecomesStep DEF IInv

LEMMA AppendOutputStep == ASSUME IInv, Append_output PROVE IInv'
<1>1. Turn("fromLua", "output") /\ functors' = functors
  BY DEF Append_output
<1>2. /\ frames # <<>> /\ Top.dir = "fromLua" /\ Top.at = "output" /\ Top.i <= Arity(Top)
      /\ Top.i \in Nat /\ Here(Top) \in DOMAIN nodes /\ Wanted = ParameterOf(Top, Top.i)
  BY <1>1, TurnLemma
<1>3. CASE ~Writes
  BY <1>1, <1>2, <1>3, PassedStep DEF Append_output, IInv, BoxesInv
<1>4. CASE Failed /\ UNCHANGED <<boxes, closures>>
  BY <1>1, <1>4, LostStep DEF Lost
<1>5. CASE ToLua(Here(Top), Wanted, Written) /\ Passed
  <2>1. Held(Wanted, Written)
    <3>1. FrameInv(Top) /\ Len(Top.args) = Arity(Top) /\ Arity(Top) \in 0..2
      BY <1>2, TopLemma DEF FrameInv
    <3>2. CASE Top.i = 0
      BY <1>2, <3>1, <3>2 DEF FrameInv, RetInv, Written
    <3>3. CASE Top.i # 0
      <4>1. Top.i \in 1..Len(Top.args)
        BY <1>2, <3>1, <3>3
      <4> QED
        BY <1>2, <3>1, <3>3, <4>1 DEF FrameInv, ArgInv, Written
    <3> QED
      BY <3>2, <3>3
  <2>2. /\ \A b \in boxes' : BoxInv(b)
        /\ closures \subseteq closures' /\ closures' \subseteq Callables
    BY <1>2, <1>5, <2>1, ToLuaLemma
  <2> QED
    BY <1>1, <1>2, <1>5, <2>2, PassedStep
<1> QED
  BY <1>3, <1>4, <1>5 DEF Append_output

\* What is read as the result.
LEMMA ReadResultStep ==
  ASSUME IInv, Turn("toLua", "output"), Top.i = 0, UNCHANGED <<type, nodes, changes, boxes, closures>>,
         functors \subseteq functors', functors' \subseteq Callables,
         NEW c, Held(Wanted, c), LuaReturnsAsked => ReturnAccepts(Wanted, c),
         Becomes([Top EXCEPT !.i = 1, !.ret = c])
  PROVE  IInv'
<1> DEFINE fr == [Top EXCEPT !.i = 1, !.ret = c]
<1>1. /\ frames # <<>> /\ Top.dir = "toLua" /\ Top.at = "output" /\ Wanted = ParameterOf(Top, 0)
  BY TurnLemma
<1>2. /\ Top \in Frame /\ FrameInv(Top) /\ Top.path \in Callables /\ Arity(Top) \in 0..2
      /\ Len(Top.args) = Arity(Top)
  BY <1>1, TopLemma DEF FrameInv
<1>3. c \in Contents
  BY DEF Held, Proper, Contents
<1>4. /\ fr \in Frame /\ fr.path = Top.path /\ fr.dir = "toLua" /\ fr.at = "output"
      /\ fr.i = 1 /\ fr.args = Top.args /\ fr.ret = c
  BY <1>1, <1>2, <1>3 DEF Frame
<1>5. Becomes(fr)
  OBVIOUS
<1> HIDE DEF fr
<1>6. /\ Arity(fr) = Arity(Top) /\ \A j : ParameterOf(fr, j) = ParameterOf(Top, j)
      /\ \A j \in 1..Len(fr.args) : ArgInv(fr, j)
  BY <1>1, <1>2, <1>4, LikeLemma DEF FrameInv
<1>7. RetInv(fr)
  BY <1>1, <1>4, <1>6 DEF RetInv
<1>8. ReadInv(fr)
  <2>1. \A j \in 1..Arity(fr) : ~(j < fr.i)
    BY <1>2, <1>4, <1>6
  <2> QED
    BY <1>1, <1>4, <1>6, <2>1 DEF ReadInv
<1>9. fr.i \in 0..(Arity(fr) + 1) /\ Len(fr.args) = Arity(fr)
  BY <1>2, <1>4, <1>6
<1>10. FrameInv(fr)
  BY <1>2, <1>4, <1>6, <1>7, <1>8, <1>9 DEF FrameInv
<1> QED
  BY <1>1, <1>4, <1>5, <1>10, BecomesStep DEF IInv, BoxesInv

\* What is read as an output.
LEMMA ReadOutputStep ==
  ASSUME IInv, Turn("toLua", "output"), Top.i # 0, UNCHANGED <<type, nodes, changes, boxes, closures>>,
         functors \subseteq functors', functors' \subseteq Callables,
         NEW c, Held(Wanted, c), LuaReturnsAsked => OutAccepts(Wanted, c),
         Becomes([Top EXCEPT !.i = @ + 1, !.args[Top.i] = c])
  PROVE  IInv'
<1> DEFINE n == Top.i
           m == n + 1
           args == [Top.args EXCEPT ![n] = c]
           fr == [Top EXCEPT !.i = m, !.args = args]
<1>1. /\ frames # <<>> /\ Top.dir = "toLua" /\ Top.at = "output" /\ Wanted = ParameterOf(Top, n)
      /\ n \in Nat /\ n <= Arity(Top)
  BY TurnLemma
<1>2. /\ Top \in Frame /\ FrameInv(Top) /\ Top.path \in Callables /\ Arity(Top) \in 0..2
      /\ Len(Top.args) = Arity(Top) /\ RetInv(Top) /\ ReadInv(Top)
  BY <1>1, TopLemma DEF FrameInv
<1>3. /\ n \in 1..Arity(Top) /\ m \in Nat /\ m \in 1..(Arity(Top) + 1) /\ m # 0
      /\ \A j \in 1..Arity(Top) : j < m => j < n \/ j = n
  BY <1>1, <1>2
<1>4. Becomes(fr)
  BY <1>2 DEF Frame
<1>5. /\ args \in Arguments /\ Len(args) = Arity(Top)
      /\ \A j \in 1..Arity(Top) : args[j] = IF j = n THEN c ELSE Top.args[j]
  <2> DEFINE S == [how : How, of : Objects \cup Paths]
  <2>1. c \in S /\ Top.args \in Seq(S)
    BY <1>2 DEF Held, Proper, Frame, Arguments
  <2> HIDE DEF S, n
  <2>2. /\ args \in Seq(S) /\ Len(args) = Arity(Top)
        /\ \A j \in 1..Arity(Top) : args[j] = IF j = n THEN c ELSE Top.args[j]
    BY <1>2, <1>3, <2>1, ReplaceLemma
  <2> QED
    BY <2>2 DEF S, Arguments
<1>6. fr = [Top EXCEPT !.i = m, !.args = args]
  OBVIOUS
<1> HIDE DEF fr, args, m
<1>7. /\ fr \in Frame /\ fr.path = Top.path /\ fr.dir = "toLua" /\ fr.at = "output"
      /\ fr.i = m /\ fr.args = args /\ fr.ret = Top.ret
  BY <1>1, <1>2, <1>3, <1>5, <1>6 DEF Frame
<1>8. Arity(fr) = Arity(Top) /\ \A j : ParameterOf(fr, j) = ParameterOf(Top, j)
  BY <1>7 DEF Arity, ParameterOf
<1>9. ASSUME NEW j \in 1..Arity(Top) PROVE ArgInv(fr, j)
  <2>1. ArgInv(Top, j)
    BY <1>2 DEF FrameInv
  <2> QED
    BY <1>1, <1>5, <1>7, <1>8, <2>1 DEF ArgInv
<1>10. RetInv(fr)
  BY <1>1, <1>2, <1>7, <1>8 DEF RetInv
<1>11. ReadInv(fr)
  <2>1. ASSUME LuaReturnsAsked, NEW j \in 1..Arity(Top), j < m,
               Append(Top.path, Names[j + 1]) \in DOMAIN nodes,
               nodes[Append(Top.path, Names[j + 1])].out
        PROVE  OutAccepts(ParameterOf(Top, j), args[j])
    <3>1. CASE j = n
      BY <1>1, <1>5, <2>1, <3>1
    <3>2. CASE j < n /\ j # n
      BY <1>1, <1>2, <1>5, <2>1, <3>2 DEF ReadInv
    <3>3. j < n => j # n
      BY <1>1
    <3> QED
      BY <1>3, <2>1, <3>1, <3>2, <3>3
  <2> QED
    BY <1>1, <1>2, <1>7, <1>8, <2>1 DEF ReadInv
<1>12. fr.i \in 0..(Arity(fr) + 1) /\ Len(fr.args) = Arity(fr)
  BY <1>2, <1>3, <1>5, <1>7, <1>8
<1>13. FrameInv(fr)
  BY <1>2, <1>5, <1>7, <1>8, <1>9, <1>10, <1>11, <1>12 DEF FrameInv
<1> QED
  BY <1>1, <1>4, <1>7, <1>13, BecomesStep DEF IInv, BoxesInv

LEMMA OutputArgStep == ASSUME IInv, Output_arg PROVE IInv'
<1>1. Turn("toLua", "output") /\ UNCHANGED <<boxes, closures>>
  BY DEF Output_arg
<1>2. /\ frames # <<>> /\ Top.dir = "toLua" /\ Top.at = "output" /\ Top.i <= Arity(Top)
      /\ Top.i \in Nat /\ Here(Top) \in Paths /\ Here(Top) = Append(Top.path, Names[Top.i + 1])
  BY <1>1, TurnLemma
<1>3. CASE Top.i > 0 /\ ~Policy.out
  BY <1>1, <1>2, <1>3, PassedStep DEF Output_arg, Policy, IInv, BoxesInv
<1>4. CASE ~(Top.i > 0 /\ ~Policy.out)
  <2>1. PICK c \in FromLua(Here(Top), Wanted) :
          /\ "output" \notin Rash =>
               (IF Top.i = 0 THEN ReturnAccepts(Wanted, c) ELSE OutAccepts(Wanted, c))
          /\ IF Top.i = 0 THEN Becomes([Top EXCEPT !.i = 1, !.ret = c])
                          ELSE Becomes([Top EXCEPT !.i = @ + 1, !.args[Top.i] = c])
    BY <1>4 DEF Output_arg
  <2>2. Held(Wanted, c)
    BY <1>2, FromLuaLemma
  <2>3. /\ functors \subseteq functors' /\ functors' \subseteq Callables
        /\ UNCHANGED <<type, nodes, changes>>
    BY <1>4, WithinLemma DEF Output_arg, IInv
  <2>4. CASE Top.i = 0
    BY <1>1, <2>1, <2>2, <2>3, <2>4, ReadResultStep DEF LuaReturnsAsked
  <2>5. CASE Top.i # 0
    BY <1>1, <2>1, <2>2, <2>3, <2>5, ReadOutputStep DEF LuaReturnsAsked
  <2> QED
    BY <2>4, <2>5
<1> QED
  BY <1>3, <1>4

LEMMA LeaveStep == ASSUME IInv, Leave PROVE IInv'
<1>1. Len(frames) - 1 \in 0..Len(frames)
  BY TopLemma DEF Leave
<1> QED
  BY <1>1, PrefixStep DEF Leave

(***************************************************************************)
(* The policies.                                                           *)
(***************************************************************************)

LEMMA ParameterLemma ==
  ASSUME NEW form
  PROVE  /\ Parameter(form) \in Node /\ Parameter(form).default = Empty
         /\ Parameter(form).in => Parameter(form).mayIn
         /\ ~Parameter(form).out
  BY DEF Parameter, Node

LEMMA InitInv == Init => IInv
<1> SUFFICES ASSUME Init PROVE IInv
  OBVIOUS
<1>1. type \in Types /\ IsType(type) /\ nodes = Made(type)
  BY PolicyAssumption DEF Init, PolicyInit
<1>2. NodesInv
  <2>1. DOMAIN nodes \subseteq DOMAIN type /\ \A p \in DOMAIN nodes : nodes[p] = Parameter(type[p].form)
    BY <1>1 DEF Made
  <2>2. DOMAIN type \subseteq Paths
    BY <1>1 DEF IsType
  <2> QED
    BY <1>1, <2>1, <2>2, ParameterLemma DEF NodesInv, NodeInv
<1>3. BoxesInv
  <2>1. /\ Raw \subseteq Objects /\ Counted \subseteq Objects
        /\ \A x \in Raw \cup Counted : x \notin Consts /\ x # Null
    BY PassingAssumption DEF Objects
  <2> QED
    BY <2>1 DEF Init, BoxesInv, BoxInv, Boxes, Proper, Holds, How
<1>4. <<>> \in Callables
  BY <1>1 DEF IsType, Callables
<1>5. frames = <<>> /\ Len(frames) = 0 /\ frames \in Seq(Frame)
  BY DEF Init
<1>6. TurnsInv /\ FramesInv
  BY <1>5, PassingAssumption DEF TurnsInv, FramesInv
<1> QED
  BY <1>1, <1>2, <1>3, <1>4, <1>6, PassingAssumption DEF Init, IInv

\* A node is set to x.
LEMMA SetLemma ==
  ASSUME IInv, type' = type, NEW p \in DOMAIN nodes, NEW x,
         x \in Node, x.in => x.mayIn, x.out => x.mayOut,
         DefaultsFit /\ x.default # Empty => Accepts(TypeAt(p), x.default),
         nodes[p].owner => x.owner,
         nodes' = [nodes EXCEPT ![p] = x]
  PROVE  NodesInv' /\ (OwnerAsked => OwnerAsked')
<1>1. /\ DOMAIN nodes' = DOMAIN nodes
      /\ \A q \in DOMAIN nodes : nodes'[q] = IF q = p THEN x ELSE nodes[q]
  BY DEF IInv, NodesInv
<1>2. \A q \in DOMAIN nodes : NodeInv(q)
  BY DEF IInv, NodesInv
<1>3. NodesInv'
  BY <1>1, <1>2 DEF IInv, NodesInv, NodeInv, TypeAt
<1>4. OwnerAsked => OwnerAsked'
  BY <1>1 DEF OwnerAsked
<1> QED
  BY <1>3, <1>4

\* A node is made.
LEMMA GetAttrLemma ==
  ASSUME IInv, type' = type, NEW p \in DOMAIN nodes, NEW n, GetAttr(p, n)
  PROVE  NodesInv' /\ (OwnerAsked => OwnerAsked')
<1> DEFINE r == Append(p, n)
           x == Parameter("attribute")
<1>1. /\ r \in Paths \ DOMAIN nodes
      /\ nodes' = [q \in DOMAIN nodes \cup {r} |-> IF q \in DOMAIN nodes THEN nodes[q] ELSE x]
  BY DEF GetAttr
<1>2. x \in Node /\ x.default = Empty /\ (x.in => x.mayIn) /\ ~x.out
  BY ParameterLemma
<1> HIDE DEF r, x
<1>3. /\ DOMAIN nodes' = DOMAIN nodes \cup {r} /\ nodes'[r] = x
      /\ \A q \in DOMAIN nodes : nodes'[q] = nodes[q]
  BY <1>1
<1>4. \A q \in DOMAIN nodes : NodeInv(q)
  BY DEF IInv, NodesInv
<1>5. NodesInv'
  BY <1>1, <1>2, <1>3, <1>4 DEF IInv, NodesInv, NodeInv, TypeAt
<1>6. OwnerAsked => OwnerAsked'
  BY <1>3 DEF OwnerAsked
<1> QED
  BY <1>5, <1>6

LEMMA InputStep ==
  ASSUME IInv, type' = type, NEW p \in DOMAIN nodes, NEW b \in BOOLEAN, Input(p, b)
  PROVE  NodesInv' /\ (OwnerAsked => OwnerAsked')
<1> DEFINE x == [nodes[p] EXCEPT !.in = b]
<1>1. nodes[p] \in Node /\ NodeInv(p) /\ nodes[p].mayIn
  BY DEF IInv, NodesInv, NodeInv, Input
<1>2. nodes' = [nodes EXCEPT ![p] = x]
  BY DEF Input
<1>3. x \in Node
  BY <1>1 DEF Node
<1>4. /\ x.mayIn = nodes[p].mayIn /\ x.mayOut = nodes[p].mayOut /\ x.out = nodes[p].out
      /\ x.default = nodes[p].default /\ x.owner = nodes[p].owner
  BY <1>1 DEF Node
<1> HIDE DEF x
<1> QED
  BY <1>1, <1>2, <1>3, <1>4, SetLemma DEF NodeInv

LEMMA OutputStep ==
  ASSUME IInv, type' = type, NEW p \in DOMAIN nodes, NEW b \in BOOLEAN, Output(p, b)
  PROVE  NodesInv' /\ (OwnerAsked => OwnerAsked')
<1> DEFINE x == [nodes[p] EXCEPT !.out = b]
<1>1. nodes[p] \in Node /\ NodeInv(p) /\ nodes[p].mayOut
  BY DEF IInv, NodesInv, NodeInv, Output
<1>2. nodes' = [nodes EXCEPT ![p] = x]
  BY DEF Output
<1>3. x \in Node
  BY <1>1 DEF Node
<1>4. /\ x.mayIn = nodes[p].mayIn /\ x.mayOut = nodes[p].mayOut /\ x.in = nodes[p].in
      /\ x.default = nodes[p].default /\ x.owner = nodes[p].owner
  BY <1>1 DEF Node
<1> HIDE DEF x
<1> QED
  BY <1>1, <1>2, <1>3, <1>4, SetLemma DEF NodeInv

LEMMA SetDefaultStep ==
  ASSUME IInv, type' = type, NEW p \in DOMAIN nodes, NEW c \in Defaults,
         DefaultsFit => Accepts(TypeAt(p), c), SetDefaultValue(p, c)
  PROVE  NodesInv' /\ (OwnerAsked => OwnerAsked')
<1> DEFINE x == [nodes[p] EXCEPT !.default = c]
<1>1. nodes[p] \in Node /\ NodeInv(p)
  BY DEF IInv, NodesInv, NodeInv
<1>2. nodes' = [nodes EXCEPT ![p] = x]
  BY DEF SetDefaultValue
<1>3. x \in Node
  BY <1>1 DEF Node
<1>4. /\ x.mayIn = nodes[p].mayIn /\ x.mayOut = nodes[p].mayOut /\ x.in = nodes[p].in
      /\ x.out = nodes[p].out /\ x.default = c /\ x.owner = nodes[p].owner
  BY <1>1 DEF Node
<1> HIDE DEF x
<1> QED
  BY <1>1, <1>2, <1>3, <1>4, SetLemma DEF NodeInv

\* The result is discarded, or given to Lua.
LEMMA ResultPolicyStep ==
  ASSUME IInv, type' = type, NEW p \in DOMAIN nodes, DiscardReturn(p) \/ DelegateOwner(p)
  PROVE  NodesInv' /\ (OwnerAsked => OwnerAsked')
<1>1. nodes[p] \in Node /\ NodeInv(p)
  BY DEF IInv, NodesInv, NodeInv
<1>2. ASSUME NEW x \in {[nodes[p] EXCEPT !.discard = TRUE], [nodes[p] EXCEPT !.owner = TRUE]},
             nodes' = [nodes EXCEPT ![p] = x]
      PROVE  NodesInv' /\ (OwnerAsked => OwnerAsked')
  <2>1. x \in Node
    BY <1>1, <1>2 DEF Node
  <2>2. /\ x.mayIn = nodes[p].mayIn /\ x.mayOut = nodes[p].mayOut /\ x.in = nodes[p].in
        /\ x.out = nodes[p].out /\ x.default = nodes[p].default
    BY <1>1, <1>2 DEF Node
  <2>3. nodes[p].owner => x.owner
    BY <1>1, <1>2 DEF Node
  <2> QED
    BY <1>1, <1>2, <2>1, <2>2, <2>3, SetLemma DEF NodeInv
<1> QED
  BY <1>2 DEF DiscardReturn, DelegateOwner

LEMMA ConfigureStep == ASSUME IInv, Configure PROVE IInv'
<1>1. /\ frames = <<>> /\ changes' = changes + 1 /\ changes < MaxChanges
      /\ UNCHANGED <<type, frames, boxes, closures, functors>>
  BY DEF Configure
<1>2. PICK p \in DOMAIN nodes :
        \/ \E b \in BOOLEAN : Input(p, b) \/ Output(p, b)
        \/ \E c \in Defaults :
              /\ "default" \notin Rash => Accepts(TypeAt(p), c)
              /\ SetDefaultValue(p, c)
        \/ DiscardReturn(p) \/ DelegateOwner(p)
        \/ \E n \in PathNames : GetAttr(p, n)
  BY DEF Configure
<1>3. NodesInv' /\ (OwnerAsked => OwnerAsked')
  <2>1. CASE \E b \in BOOLEAN : Input(p, b) \/ Output(p, b)
    BY <1>1, <2>1, InputStep, OutputStep
  <2>2. CASE \E c \in Defaults : /\ "default" \notin Rash => Accepts(TypeAt(p), c)
                                 /\ SetDefaultValue(p, c)
    BY <1>1, <2>2, SetDefaultStep DEF DefaultsFit
  <2>3. CASE DiscardReturn(p) \/ DelegateOwner(p)
    BY <1>1, <2>3, ResultPolicyStep
  <2>4. CASE \E n \in PathNames : GetAttr(p, n)
    BY <1>1, <2>4, GetAttrLemma
  <2> QED
    BY <1>2, <2>1, <2>2, <2>3, <2>4
<1>4. BoxesInv'
  BY <1>1, <1>3 DEF IInv, BoxesInv, BoxInv, Proper
<1>5. TurnsInv' /\ FramesInv'
  <2>1. Len(frames') = 0 /\ frames' = <<>>
    BY <1>1
  <2> QED
    BY <2>1, PassingAssumption DEF TurnsInv, FramesInv
<1>6. changes' \in 0..MaxChanges
  BY <1>1, PassingAssumption DEF IInv
<1> QED
  BY <1>1, <1>3, <1>4, <1>5, <1>6 DEF IInv, Callables

(***************************************************************************)
(* Every step.                                                             *)
(***************************************************************************)

LEMMA StutterStep == ASSUME IInv, UNCHANGED vars PROVE IInv'
  BY GrowStep DEF vars, IInv, BoxesInv, TurnsInv, FramesInv

LEMMA NextInv == IInv /\ [Next]_vars => IInv'
<1> SUFFICES ASSUME IInv, [Next]_vars PROVE IInv'
  OBVIOUS
<1>1. CASE Configure
  BY <1>1, ConfigureStep
<1>2. ASSUME NEW p \in closures, CallFromLua(p) PROVE IInv'
  BY <1>2, EnterStep DEF CallFromLua
<1>3. ASSUME NEW p \in functors, CallToLua(p) PROVE IInv'
  BY <1>3, EnterStep DEF CallToLua
<1>4. CASE FetchInput
  BY <1>4, FetchInputStep
<1>5. CASE FetchDefault
  BY <1>5, FetchDefaultStep
<1>6. CASE FetchFresh
  BY <1>6, FetchFreshStep
<1>7. CASE FetchFails
  BY <1>7, LostStep DEF FetchFails
<1>8. CASE Push
  BY <1>8, PushStep
<1>9. CASE Run
  BY <1>9, RunStep
<1>10. ASSUME NEW i \in 1..Len(Names), NEW x \in Counted \cup {Null}, Assign(i, x) PROVE IInv'
  BY <1>10, AssignStep
<1>11. CASE Raise
  BY <1>11, LostStep DEF Raise
<1>12. ASSUME NEW x \in Objects, ReturnNative(x) PROVE IInv'
  BY <1>12, ReturnNativeStep
<1>13. CASE ReturnLua
  BY <1>13, ReturnLuaStep
<1>14. CASE Append_output
  BY <1>14, AppendOutputStep
<1>15. CASE Output_arg
  BY <1>15, OutputArgStep
<1>16. CASE OutputFails
  BY <1>16, LostStep DEF OutputFails
<1>17. CASE Leave
  BY <1>17, LeaveStep
<1>18. CASE UNCHANGED vars
  BY <1>18, StutterStep
<1> QED
  BY <1>1, <1>2, <1>3, <1>4, <1>5, <1>6, <1>7, <1>8, <1>9, <1>10, <1>11, <1>12, <1>13, <1>14,
     <1>15, <1>16, <1>17, <1>18 DEF Next

LEMMA InvariantHolds == Spec => []IInv
<1>1. IInv /\ [Next]_vars => IInv'
  BY NextInv
<1> QED
  BY <1>1, InitInv, PTL DEF Spec

(***************************************************************************)
(* The nodes of what is called.                                            *)
(***************************************************************************)

\* No std::function is an element of a container.
NoneInContainers ==
  \A t \in Types : \A p \in DOMAIN t : t[p].form = "function" => Deep(t, p)

\* The beginnings of a longer path.
LEMMA PathLemma ==
  ASSUME NEW p \in Paths, NEW n \in PathNames
  PROVE  /\ Append(p, n) # <<>> /\ Len(Append(p, n)) = Len(p) + 1 /\ Len(p) \in Nat
         /\ \A m \in 0..(Len(p) - 1) : SubSeq(Append(p, n), 1, m) = SubSeq(p, 1, m)
         /\ SubSeq(Append(p, n), 1, Len(p)) = p
<1>1. PICK k \in 0..MaxNesting : p \in [1..k -> PathNames]
  BY DEF Paths
<1>2. p \in Seq(PathNames)
  BY <1>1, IsASeq, PolicyAssumption
<1> DEFINE l == Len(p)
           q == Append(p, n)
<1>3. l \in Nat
  BY <1>2
<1>4. q \in Seq(PathNames) /\ Len(q) = l + 1 /\ \A i \in 1..l : q[i] = p[i]
  BY <1>2
<1> HIDE DEF l, q
<1>5. ASSUME NEW m \in 0..l PROVE SubSeq(q, 1, m) = SubSeq(p, 1, m)
  <2> DEFINE a == SubSeq(q, 1, m)
             b == SubSeq(p, 1, m)
  <2>1. m \in Nat /\ m <= l /\ m <= l + 1 /\ \A i \in 1..m : i \in 1..l
    BY <1>3
  <2>2. a \in Seq(PathNames) /\ Len(a) = m /\ \A i \in 1..m : a[i] = q[i]
    BY <1>4, <2>1, SubSeqProperties
  <2>3. b \in Seq(PathNames) /\ Len(b) = m /\ \A i \in 1..m : b[i] = p[i]
    BY <1>2, <2>1, SubSeqProperties DEF l
  <2> HIDE DEF a, b
  <2>4. \A i \in 1..Len(a) : a[i] = b[i]
    BY <1>4, <2>1, <2>2, <2>3
  <2>5. a = b
    BY <2>2, <2>3, <2>4, SeqEqual
  <2> QED
    BY <2>5 DEF a, b
<1>6. SubSeq(p, 1, l) = p
  <2>1. \A i \in 1..l : SubSeq(p, 1, l)[i] = p[i]
    BY <1>2, <1>3, SubSeqProperties DEF l
  <2>2. SubSeq(p, 1, l) \in Seq(PathNames) /\ Len(SubSeq(p, 1, l)) = l
    BY <1>2, <1>3, SubSeqProperties DEF l
  <2> QED
    BY <1>2, <2>1, <2>2, SeqEqual DEF l
<1>7. \A m \in 0..(l - 1) : m \in 0..l
  BY <1>3
<1>8. q # <<>> /\ l \in 0..l
  BY <1>3, <1>4
<1> QED
  BY <1>3, <1>4, <1>5, <1>6, <1>7, <1>8 DEF l, q

\* Each part of a function that can be called has a node.
LEMMA NodeLemma ==
  ASSUME IInv, NoneInContainers, NEW p \in Callables, NEW i \in 0..TypeAt(p).arity
  PROVE  Append(p, Names[i + 1]) \in DOMAIN nodes
<1> DEFINE n == Names[i + 1]
           q == Append(p, n)
<1>1. p \in Paths /\ q \in DOMAIN type /\ TypeAt(p).arity \in 0..2
  BY CallableLemma DEF IInv
<1>2. n \in PathNames
  <2>1. i + 1 \in 1..3
    BY <1>1
  <2> QED
    BY <2>1 DEF Names, PathNames
<1>3. type[p].form = "function" /\ Deep(type, p)
  BY DEF Callables, IInv, NoneInContainers
<1> HIDE DEF n
<1>4. q # <<>> /\ Deep(type, q)
  <2>1. /\ q # <<>> /\ Len(q) = Len(p) + 1 /\ Len(p) \in Nat
        /\ \A m \in 0..(Len(p) - 1) : SubSeq(q, 1, m) = SubSeq(p, 1, m)
        /\ SubSeq(q, 1, Len(p)) = p
    BY <1>1, <1>2, PathLemma
  <2>2. ASSUME NEW m \in 0..(Len(q) - 1) PROVE type[SubSeq(q, 1, m)].form = "function"
    <3> DEFINE l == Len(p)
    <3>1. l \in Nat /\ Len(q) = l + 1
      BY <2>1
    <3> HIDE DEF l
    <3>2. m \in 0..(l - 1) \/ m = l
      BY <3>1
    <3>3. m \in 0..(Len(p) - 1) \/ m = Len(p)
      BY <3>2 DEF l
    <3> QED
      BY <1>3, <2>1, <3>3 DEF Deep
  <2> QED
    BY <2>1, <2>2 DEF Deep
<1>5. q \in DOMAIN Made(type)
  BY <1>1, <1>4 DEF Made
<1> QED
  BY <1>5 DEF IInv, NodesInv, n

(***************************************************************************)
(* The theorems.                                                           *)
(***************************************************************************)

(* Every any is empty or holds an object in one of the ways of arg_call,   *)
(* parameters are read and written only as in_out_permission allows, and   *)
(* calls of Lua and of C++ alternate.                                      *)
THEOREM TypeCorrect == Spec => []TypeOK
<1>1. IInv => TypeOK
  <2> SUFFICES ASSUME IInv PROVE TypeOK
    OBVIOUS
  <2>1. ASSUME NEW p \in DOMAIN nodes
        PROVE  /\ p \in Paths /\ (nodes[p].in => nodes[p].mayIn)
               /\ (nodes[p].out => nodes[p].mayOut) /\ nodes[p].default \in Contents
    <3>1. NodeInv(p) /\ p \in Paths
      BY DEF IInv, NodesInv
    <3>2. nodes[p].default \in {Empty} \cup Defaults
      BY <3>1 DEF NodeInv, Node
    <3>3. Defaults \subseteq Contents
      BY DEF Defaults, Contents, Holds, How, Objects
    <3> QED
      BY <3>1, <3>2, <3>3 DEF NodeInv, Contents
  <2>2. boxes \subseteq Boxes
    BY DEF IInv, BoxesInv, BoxInv
  <2>3. Callables \subseteq Paths
    BY PolicyAssumption DEF IInv, Callables, IsType
  <2>4. ASSUME NEW k \in 1..Len(frames)
        PROVE  /\ frames[k].ret \in Contents
               /\ \A i \in 1..Len(frames[k].args) : frames[k].args[i] \in Contents
    <3>1. FrameInv(frames[k])
      BY DEF IInv, FramesInv
    <3> QED
      BY <3>1 DEF FrameInv, Frame, ArgInv, Held, Proper, Contents
  <2> QED
    BY <2>1, <2>2, <2>3, <2>4 DEF IInv, TurnsInv, TypeOK
<1> QED
  BY <1>1, InvariantHolds, PTL

(* const is kept across Lua: whatever the signatures, the policies and the *)
(* calls, Lua never has a box of a const object and a C++ function never   *)
(* gets one as a parameter that may change it.  Only a default value of    *)
(* another type, which request_from_lua does not look at, could do that.   *)
THEOREM ConstIsKept ==
  ASSUME DefaultsFit
  PROVE  Spec => []ConstKept
<1>1. IInv => ConstKept
  <2> SUFFICES ASSUME IInv PROVE ConstKept
    OBVIOUS
  <2>1. \A b \in boxes : b.of \notin Consts
    BY DEF IInv, BoxesInv, BoxInv, Boxes, Proper
  <2>2. ASSUME NEW k \in 1..Len(frames), NEW i \in 1..Len(frames[k].args),
               frames[k].dir = "fromLua",
               ParameterOf(frames[k], i).form \notin {"constref", "constptr"}
        PROVE  frames[k].args[i].of \notin Consts
    <3>1. ArgInv(frames[k], i)
      BY DEF IInv, FramesInv, FrameInv
    <3>2. Accepts(ParameterOf(frames[k], i), frames[k].args[i]) /\ Proper(frames[k].args[i])
      BY <2>2, <3>1 DEF ArgInv, Taken, Held
    <3>3. frames[k].args[i].how \notin {"cref", "cptr"}
      BY <2>2, <3>2 DEF Accepts, Accepted, PointerTable, IncompleteTable, SharedTable, ValueTable
    <3> QED
      BY <3>2, <3>3 DEF Proper
  <2> QED
    BY <2>1, <2>2 DEF ConstKept
<1> QED
  BY <1>1, InvariantHolds, PTL

(* request_from_lua casts each argument to a type that the table of its    *)
(* parameter in arg_call has, so that the assertion in convert() holds,    *)
(* wherever the argument is from, when each default value fits.            *)
THEOREM CastsAlwaysFit ==
  ASSUME DefaultsFit
  PROVE  Spec => []CastsFit
<1>1. IInv => CastsFit
  <2> SUFFICES ASSUME IInv, NEW k \in 1..Len(frames), frames[k].dir = "fromLua",
                      frames[k].at \in {"body", "output"}, NEW i \in 1..Arity(frames[k])
               PROVE  Accepts(ParameterOf(frames[k], i), frames[k].args[i])
    BY DEF CastsFit
  <2>1. FrameInv(frames[k])
    BY DEF IInv, FramesInv
  <2> QED
    BY <2>1 DEF FrameInv, ArgInv, Taken
<1> QED
  BY <1>1, InvariantHolds, PTL

(* get_sub_node() finds the node of every parameter and result that is     *)
(* passed, so that its assertion holds, however deep the functions are     *)
(* nested, as long as none is the element of a container.                  *)
THEOREM PoliciesAreThere ==
  ASSUME NoneInContainers
  PROVE  Spec => []ReadsExist
<1>1. IInv => ReadsExist
  <2> SUFFICES ASSUME IInv, NEW k \in 1..Len(frames), Reads(frames[k])
               PROVE  Here(frames[k]) \in DOMAIN nodes
    BY DEF ReadsExist
  <2> DEFINE fr == frames[k]
  <2>1. FrameInv(fr)
    BY DEF IInv, FramesInv
  <2>2. fr.i \in Nat /\ fr.i <= TypeAt(fr.path).arity /\ fr.path \in Callables
    BY <2>1 DEF Reads, Arity, FrameInv, Frame
  <2>3. TypeAt(fr.path).arity \in 0..2
    BY <2>2, CallableLemma DEF IInv
  <2>4. fr.i \in 0..TypeAt(fr.path).arity
    BY <2>2, <2>3
  <2> QED
    BY <2>2, <2>4, NodeLemma DEF Here
<1> QED
  BY <1>1, InvariantHolds, PTL

(* to_lua_ gives Lua the ownership of an object only when some shared_ptr  *)
(* of the program holds it, when default_initializer made it, or when some *)
(* policy delegates it: no other pointer that passes through gets an owner.*)
THEOREM OwnersAreAsked == Spec => []OwnersAsked
<1>1. IInv => OwnersAsked
  BY DEF IInv, BoxesInv, BoxInv, Proper, OwnerAsked, OwnersAsked
<1> QED
  BY <1>1, InvariantHolds, PTL

(* The unchecked casts of get_return() and output_arg_ fit, in a program   *)
(* whose Lua functions return what their callers declare.                  *)
THEOREM ReturnsAlwaysFit ==
  ASSUME LuaReturnsAsked
  PROVE  Spec => []ReturnsFit
<1>1. IInv => ReturnsFit
  <2> SUFFICES ASSUME IInv, NEW k \in 1..Len(frames), frames[k].dir = "toLua",
                      frames[k].at = "output"
               PROVE  LET fr == frames[k]
                      IN  /\ fr.ret # Empty => ReturnAccepts(ParameterOf(fr, 0), fr.ret)
                          /\ \A i \in 1..Arity(fr) :
                               i < fr.i /\ Here([fr EXCEPT !.i = i]) \in DOMAIN nodes
                                 /\ nodes[Here([fr EXCEPT !.i = i])].out
                                 => OutAccepts(ParameterOf(fr, i), fr.args[i])
    BY DEF ReturnsFit
  <2> DEFINE fr == frames[k]
  <2>1. ReadInv(fr) /\ fr \in Frame
    BY DEF IInv, FramesInv, FrameInv
  <2>2. ASSUME NEW i PROVE Here([fr EXCEPT !.i = i]) = Append(fr.path, Names[i + 1])
    BY <2>1 DEF Here, Frame
  <2> QED
    BY <2>1, <2>2 DEF ReadInv
<1> QED
  BY <1>1, InvariantHolds, PTL

(* No parameter that is a value or a reference is given the object of an   *)
(* empty shared_ptr, in a program that passes no nil for it.               *)
THEOREM ReferencesAreThere ==
  ASSUME NilIsNoObject
  PROVE  Spec => []NoNullReference
<1>1. IInv => NoNullReference
  BY DEF IInv, FramesInv, FrameInv, ArgInv, Taken, NoNullReference
<1> QED
  BY <1>1, InvariantHolds, PTL

================================================================================
