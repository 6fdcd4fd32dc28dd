------------------------------ MODULE RequestProofs ------------------------------
(***************************************************************************)
(* Proofs about Request: what each parameter is given and what each call   *)
(* gives back, for any callables and however deep the calls are nested.    *)
(***************************************************************************)
EXTENDS Request, SequenceTheorems, TLAPS

(***************************************************************************)
(* The inductive invariant.                                                *)
(***************************************************************************)

\* s is what the arguments are from the n-th on.
LeftFrom(s, args, n) ==
  /\ Len(s) = IF n <= Len(args) THEN Len(args) - n + 1 ELSE 0
  /\ \A i \in 1..Len(s) : s[i] = args[n + i - 1]

\* No conversion left an object on the stack.
NoObjectYet(r) ==
  \A i \in 1..Len(r.got) : Reads(r.fn, i) => Params[r.fn][i].kind # "object"

SelfInv(r) ==
  /\ r.phase = "self" => r.stack = r.given
  /\ r.phase # "self" /\ Shape[r.fn] = "method" =>
       r.given # << >> /\ r.given[1] \in Instances

\* As long as no object was read, the next parameter finds its argument.
OrderInv(r) ==
  /\ r.phase # "self" => GotItsArguments(r)
  /\ r.phase = "take" /\ NoObjectYet(r) => LeftFrom(r.stack, r.given, Place[r.fn][Len(r.got) + 1])

\* The counter is that of the innermost call of each callable.
AgainInv ==
  \A j, k \in 1..Len(frames) :
    j < k /\ frames[j].fn = frames[k].fn => frames[j].again

CountInv ==
  \A k \in 1..Len(frames) :
    frames[k].phase # "self" /\ ~frames[k].again => nbReturn[frames[k].fn] = 0

FrameInv(r) == SelfInv(r) /\ (ObjectLast(r.fn) => OrderInv(r))

FramesInv == \A k \in 1..Len(frames) : FrameInv(frames[k])

IInv == TypeOK /\ FramesInv /\ AgainInv /\ CountInv /\ ReturnsExact

LEMMA InitInv == Init => IInv
BY RequestAssumption
   DEF Init, IInv, TypeOK, FramesInv, AgainInv, CountInv, ReturnsExact, NoAnswer

(***************************************************************************)
(* What the actions do to the frames.                                      *)
(***************************************************************************)

\* A frame as the type invariant has it, at the top of the stack or below.
FrameOK(r) ==
  /\ r \in Frame
  /\ Len(r.got) <= Len(Params[r.fn])
  /\ r.phase = "body" => Len(r.got) = Len(Params[r.fn])
  /\ r.phase = "self" => r.got = << >>

LEMMA TypeLemma ==
  TypeOK <=>
    /\ frames \in Seq(Frame)
    /\ \A k \in 1..Len(frames) :
         FrameOK(frames[k]) /\ (k < Len(frames) => frames[k].phase = "body")
    /\ nbReturn \in [Functions -> Nat \cup {-1}]
    /\ answer.again \in BOOLEAN
BY DEF TypeOK, FrameOK

LEMMA InnerLemma ==
  ASSUME TypeOK, frames # << >>
  PROVE  /\ Len(frames) \in 1..Len(frames) /\ Len(frames) \in Nat
         /\ Inner = frames[Len(frames)] /\ f0 = Inner.fn
         /\ FrameOK(Inner) /\ f0 \in Functions
BY TypeLemma DEF Inner, f0, FrameOK, Frame, TypeOK

\* The innermost call as it goes on.
After(s, g, p) == [Inner EXCEPT !.stack = s, !.got = g, !.phase = p]

LEMMA AfterLemma ==
  ASSUME TypeOK, frames # << >>, NEW s \in Seq(LuaValues),
         NEW g \in Seq(LuaValues \cup {Default, Fresh, State}),
         NEW p \in {"self", "take", "body"}
  PROVE  /\ After(s, g, p) \in Frame
         /\ After(s, g, p).fn = f0 /\ After(s, g, p).given = Inner.given
         /\ After(s, g, p).again = Inner.again /\ After(s, g, p).stack = s
         /\ After(s, g, p).got = g /\ After(s, g, p).phase = p
<1>1. Inner \in Frame /\ f0 = Inner.fn
  BY InnerLemma DEF FrameOK
<1> QED
  BY <1>1 DEF Frame, After

\* It goes on, and nothing else.
LEMMA GoOnLemma ==
  ASSUME TypeOK, frames # << >>, NEW s \in Seq(LuaValues),
         NEW g \in Seq(LuaValues \cup {Default, Fresh, State}),
         NEW p \in {"self", "take", "body"}, GoOn(s, g, p)
  PROVE  /\ frames' \in Seq(Frame) /\ Len(frames') = Len(frames)
         /\ frames'[Len(frames)] = After(s, g, p)
         /\ \A k \in 1..(Len(frames) - 1) : frames'[k] = frames[k]
<1>1. Inner \in Frame /\ Inner = frames[Len(frames)] /\ Len(frames) \in 1..Len(frames)
  BY InnerLemma DEF FrameOK
<1>2. After(s, g, p) \in Frame
  BY AfterLemma
<1>3. frames' = [frames EXCEPT ![Len(frames)] = After(s, g, p)]
  BY <1>1 DEF GoOn, Frame, After
<1>4. frames \in Seq(Frame)
  BY DEF TypeOK
<1> QED
  BY <1>1, <1>2, <1>3, <1>4

LEMMA PoppedLemma ==
  ASSUME TypeOK, frames # << >>, frames' = Popped
  PROVE  /\ frames' \in Seq(Frame) /\ Len(frames') = Len(frames) - 1
         /\ \A k \in 1..Len(frames') : k \in 1..Len(frames) /\ frames'[k] = frames[k]
<1>1. Len(frames) \in Nat \ {0} /\ \A k \in 1..(Len(frames) - 1) : frames[k] \in Frame
  BY DEF TypeOK
<1> DEFINE n == Len(frames) - 1
<1>2. n \in Nat /\ \A k \in 1..n : frames[k] \in Frame
  BY <1>1
<1> HIDE DEF n
<1>3. /\ SubSeq(frames, 1, n) \in Seq(Frame)
      /\ Len(SubSeq(frames, 1, n)) = IF 1 <= n THEN n - 1 + 1 ELSE 0
      /\ \A k \in 1..(n - 1 + 1) : SubSeq(frames, 1, n)[k] = frames[1 + k - 1]
  BY <1>2, SubSeqProperties
<1>4. frames' = SubSeq(frames, 1, n)
  BY DEF Popped, n
<1>5. frames' \in Seq(Frame) /\ Len(frames') = n
  BY <1>2, <1>3, <1>4
<1>6. \A k \in 1..n : frames'[k] = frames[k]
  BY <1>2, <1>3, <1>4
<1>7. Len(frames') = Len(frames) - 1 /\ \A k \in 1..n : k \in 1..Len(frames)
  BY <1>1, <1>5 DEF n
<1> QED
  BY <1>5, <1>6, <1>7

(***************************************************************************)
(* The steps.                                                              *)
(***************************************************************************)

\* A call ends: those around it are as they were, but for the counter of its
\* callable, which is no longer theirs.
LEMMA EndStep ==
  ASSUME IInv, frames # << >>, frames' = Popped,
         nbReturn' \in [Functions -> Nat \cup {-1}],
         \A f \in Functions \ {f0} : nbReturn'[f] = nbReturn[f],
         answer'.again \in BOOLEAN, ReturnsExact'
  PROVE  IInv'
<1>1. /\ frames' \in Seq(Frame) /\ Len(frames') = Len(frames) - 1
      /\ \A k \in 1..Len(frames') : k \in 1..Len(frames) /\ frames'[k] = frames[k]
      /\ Len(frames) \in Nat \ {0}
  BY PoppedLemma, InnerLemma DEF IInv
<1>2. TypeOK'
  BY <1>1 DEF IInv, TypeOK
<1>3. FramesInv'
  BY <1>1 DEF IInv, FramesInv
<1>4. AgainInv'
  BY <1>1 DEF IInv, AgainInv
<1>5. CountInv'
  <2> SUFFICES ASSUME NEW k \in 1..Len(frames'), frames'[k].phase # "self",
                      ~frames'[k].again
               PROVE  nbReturn'[frames'[k].fn] = 0
    BY DEF CountInv
  <2>1. frames'[k] = frames[k] /\ k \in 1..Len(frames) /\ k < Len(frames)
    BY <1>1
  <2>2. frames[k].fn # f0
    BY <1>1, <2>1 DEF IInv, AgainInv, Inner, f0
  <2>3. frames[k].fn \in Functions
    BY <2>1, TypeLemma DEF IInv, FrameOK, Frame
  <2> QED
    BY <2>1, <2>2, <2>3 DEF IInv, CountInv
<1> QED
  BY <1>2, <1>3, <1>4, <1>5 DEF IInv

LEMMA ErrorStep == ASSUME IInv, frames # << >>, Error PROVE IInv'
<1>1. UNCHANGED <<nbReturn, answer>> /\ frames' = Popped
  BY DEF Error
<1>2. ReturnsExact'
  BY <1>1 DEF IInv, ReturnsExact
<1> QED
  BY <1>1, <1>2, EndStep DEF IInv, TypeOK

\* The innermost call goes on, as one that is as it should be.
LEMMA OnwardStep ==
  ASSUME IInv, frames # << >>, NEW s \in Seq(LuaValues),
         NEW g \in Seq(LuaValues \cup {Default, Fresh, State}),
         NEW p \in {"take", "body"}, GoOn(s, g, p),
         FrameOK(After(s, g, p)), FrameInv(After(s, g, p)),
         UNCHANGED answer, nbReturn' \in [Functions -> Nat \cup {-1}],
         \A f \in Functions \ {f0} : nbReturn'[f] = nbReturn[f],
         nbReturn'[f0] = 0 \/ (Inner.phase # "self" /\ UNCHANGED nbReturn)
  PROVE  IInv'
<1>1. /\ frames' \in Seq(Frame) /\ Len(frames') = Len(frames)
      /\ frames'[Len(frames)] = After(s, g, p)
      /\ \A k \in 1..(Len(frames) - 1) : frames'[k] = frames[k]
      /\ Len(frames) \in Nat \ {0}
  BY GoOnLemma, InnerLemma DEF IInv
<1>2. /\ After(s, g, p).fn = f0 /\ After(s, g, p).again = Inner.again
      /\ f0 = Inner.fn /\ Inner = frames[Len(frames)]
  BY AfterLemma, InnerLemma DEF IInv
<1>3. ASSUME NEW k \in 1..Len(frames)
      PROVE  /\ frames'[k].fn = frames[k].fn /\ frames'[k].again = frames[k].again
             /\ k = Len(frames) \/ k \in 1..(Len(frames) - 1)
  <2>1. CASE k = Len(frames)
    BY <1>1, <1>2, <2>1
  <2>2. CASE k # Len(frames)
    BY <1>1, <2>2
  <2> QED
    BY <2>1, <2>2
<1>4. TypeOK'
  <2>1. \A k \in 1..Len(frames) :
          FrameOK(frames[k]) /\ (k < Len(frames) => frames[k].phase = "body")
    BY TypeLemma DEF IInv
  <2>3. \A k \in 1..(Len(frames) - 1) : k \in 1..Len(frames) /\ k < Len(frames)
    BY <1>1
  <2>4. \A k \in 1..Len(frames') :
          FrameOK(frames'[k]) /\ (k < Len(frames') => frames'[k].phase = "body")
    BY <1>1, <1>3, <2>1, <2>3
  <2>2. answer'.again \in BOOLEAN
    BY DEF IInv, TypeOK
  <2> QED
    BY <1>1, <2>4, <2>2 DEF TypeOK, FrameOK
<1>5. FramesInv'
  <2>1. \A k \in 1..Len(frames) : FrameInv(frames[k])
    BY DEF IInv, FramesInv
  <2> QED
    BY <1>1, <1>3, <2>1 DEF FramesInv
<1>6. AgainInv'
  BY <1>1, <1>3 DEF IInv, AgainInv
<1>7. CountInv'
  <2> SUFFICES ASSUME NEW k \in 1..Len(frames), frames'[k].phase # "self",
                      ~frames'[k].again
               PROVE  nbReturn'[frames'[k].fn] = 0
    BY <1>1 DEF CountInv
  <2>1. CASE k = Len(frames)
    BY <1>1, <1>2, <2>1 DEF IInv, CountInv
  <2>2. CASE k < Len(frames)
    <3>1. frames[k].fn # f0 /\ frames'[k] = frames[k]
      BY <1>1, <1>2, <1>3, <2>2 DEF IInv, AgainInv
    <3>2. frames[k].fn \in Functions
      BY TypeLemma DEF IInv, FrameOK, Frame
    <3> QED
      BY <3>1, <3>2 DEF IInv, CountInv
  <2> QED
    BY <1>1, <2>1, <2>2
<1>8. ReturnsExact'
  BY DEF IInv, ReturnsExact
<1> QED
  BY <1>4, <1>5, <1>6, <1>7, <1>8 DEF IInv

(***************************************************************************)
(* Lua calls a callable.                                                   *)
(***************************************************************************)

LEMMA CallStep ==
  ASSUME IInv, NEW f \in Functions, NEW args \in Arguments, Call(f, args)
  PROVE  IInv'
<1> DEFINE n == Len(frames)
           r == [fn |-> f, given |-> args, stack |-> args, got |-> << >>,
                 phase |-> "self", again |-> FALSE]
           marked == [k \in 1..Len(frames) |->
                        [frames[k] EXCEPT !.again = @ \/ frames[k].fn = f]]
<1>1. args \in Seq(LuaValues)
  BY RequestAssumption DEF Arguments
<1>2. r \in Frame
  BY <1>1 DEF Frame
<1>3. /\ n \in Nat /\ \A k \in 1..n : FrameOK(frames[k])
      /\ frames \in Seq(Frame)
      /\ \A k \in 1..n : frames[k].phase = "body"
  BY TypeLemma DEF IInv, Call, Inner
<1>4. ASSUME NEW k \in 1..n
      PROVE  /\ marked[k] \in Frame
             /\ marked[k].fn = frames[k].fn /\ marked[k].given = frames[k].given
             /\ marked[k].stack = frames[k].stack /\ marked[k].got = frames[k].got
             /\ marked[k].phase = frames[k].phase
             /\ marked[k].again = (frames[k].again \/ frames[k].fn = f)
  <2>1. frames[k] \in Frame
    BY <1>3 DEF FrameOK
  <2> QED
    BY <2>1 DEF Frame
<1>5. marked \in Seq(Frame) /\ Len(marked) = n
  BY <1>3, <1>4
<1>6. /\ frames' = Append(marked, r) /\ answer' = NoAnswer /\ nbReturn' = nbReturn
  BY DEF Call
<1> HIDE DEF r, marked
<1>7. /\ frames' \in Seq(Frame) /\ Len(frames') = n + 1 /\ frames'[n + 1] = r
      /\ \A k \in 1..n : frames'[k] = marked[k]
  BY <1>2, <1>3, <1>5, <1>6
<1>8. /\ r.fn = f /\ r.given = args /\ r.stack = args /\ r.got = << >>
      /\ r.phase = "self" /\ r.again = FALSE
  BY DEF r
<1>9. TypeOK'
  <2>1. FrameOK(r)
    BY <1>2, <1>8, RequestAssumption DEF FrameOK
  <2>2. \A k \in 1..n : FrameOK(marked[k])
    BY <1>3, <1>4 DEF FrameOK
  <2>3. \A k \in 1..Len(frames') :
          FrameOK(frames'[k]) /\ (k < Len(frames') => frames'[k].phase = "body")
    BY <1>3, <1>4, <1>7, <2>1, <2>2
  <2>4. nbReturn' \in [Functions -> Nat \cup {-1}] /\ answer'.again \in BOOLEAN
    BY <1>6 DEF IInv, TypeOK, NoAnswer
  <2> QED
    BY <1>7, <2>3, <2>4 DEF TypeOK, FrameOK
<1>10. FramesInv'
  <2>1. FrameInv(r)
    BY <1>8 DEF FrameInv, SelfInv, OrderInv
  <2>2. ASSUME NEW k \in 1..n PROVE FrameInv(marked[k])
    <3>1. FrameInv(frames[k])
      BY DEF IInv, FramesInv
    <3> QED
      BY <1>4, <3>1 DEF FrameInv, SelfInv, OrderInv, GotItsArguments, NoObjectYet, LeftFrom
  <2> QED
    BY <1>3, <1>7, <2>1, <2>2 DEF FramesInv
<1>11. AgainInv'
  <2> SUFFICES ASSUME NEW j \in 1..(n + 1), NEW k \in 1..(n + 1), j < k,
                      frames'[j].fn = frames'[k].fn
               PROVE  frames'[j].again
    BY <1>7 DEF AgainInv
  <2>1. j \in 1..n /\ (k \in 1..n \/ k = n + 1)
    BY <1>3
  <2>2. /\ frames'[j].fn = frames[j].fn
        /\ frames'[j].again = (frames[j].again \/ frames[j].fn = f)
    BY <1>4, <1>7, <2>1
  <2>3. CASE k = n + 1
    BY <1>7, <1>8, <2>2, <2>3
  <2>4. CASE k \in 1..n
    <3>1. frames'[k].fn = frames[k].fn
      BY <1>4, <1>7, <2>4
    <3>2. frames[j].again
      BY <2>1, <2>2, <2>4, <3>1 DEF IInv, AgainInv
    <3> QED
      BY <2>2, <3>2
  <2> QED
    BY <2>1, <2>3, <2>4
<1>12. CountInv'
  <2> SUFFICES ASSUME NEW k \in 1..(n + 1), frames'[k].phase # "self",
                      ~frames'[k].again
               PROVE  nbReturn'[frames'[k].fn] = 0
    BY <1>7 DEF CountInv
  <2>1. k \in 1..n
    BY <1>3, <1>7, <1>8
  <2>2. /\ frames'[k].fn = frames[k].fn /\ frames'[k].phase = frames[k].phase
        /\ ~frames[k].again
    BY <1>4, <1>7, <2>1
  <2> QED
    BY <1>6, <2>1, <2>2 DEF IInv, CountInv
<1>13. ReturnsExact'
  BY <1>6 DEF ReturnsExact, NoAnswer
<1> QED
  BY <1>9, <1>10, <1>11, <1>12, <1>13 DEF IInv

(***************************************************************************)
(* The arguments.                                                          *)
(***************************************************************************)

LEMMA PlaceLemma ==
  ASSUME NEW f \in Functions
  PROVE  /\ Len(Params[f]) \in Nat
         /\ \A i \in 1..(Len(Params[f]) + 1) : Place[f][i] \in Nat \ {0}
         /\ Place[f][1] = Offset(f) + 1 /\ Offset(f) \in {0, 1}
         /\ \A i \in 1..Len(Params[f]) :
              Place[f][i + 1] = Place[f][i] + (IF Reads(f, i) THEN 1 ELSE 0)
<1>1. Len(Params[f]) \in Nat
  BY RequestAssumption
<1> QED
  BY <1>1, PlaceAssumption DEF Offset

\* The n first values of a sequence are taken away.
LEMMA LeftLemma ==
  ASSUME NEW s \in Seq(LuaValues), NEW n \in Nat
  PROVE  /\ SubSeq(s, n + 1, Len(s)) \in Seq(LuaValues)
         /\ LeftFrom(SubSeq(s, n + 1, Len(s)), s, n + 1)
<1> DEFINE m == n + 1
           l == Len(s)
<1>1. m \in Nat \ {0} /\ l \in Nat /\ \A i \in m..l : s[i] \in LuaValues
  OBVIOUS
<1> HIDE DEF m, l
<1>2. /\ SubSeq(s, m, l) \in Seq(LuaValues)
      /\ Len(SubSeq(s, m, l)) = IF m <= l THEN l - m + 1 ELSE 0
      /\ \A i \in 1..(l - m + 1) : SubSeq(s, m, l)[i] = s[m + i - 1]
  BY <1>1, SubSeqProperties
<1>3. \A i \in 1..Len(SubSeq(s, m, l)) : SubSeq(s, m, l)[i] = s[m + i - 1]
  BY <1>1, <1>2
<1> QED
  BY <1>2, <1>3 DEF LeftFrom, m, l

\* One more: the n-th argument is taken away.
LEMMA TailLemma ==
  ASSUME NEW s \in Seq(LuaValues), NEW args \in Seq(LuaValues), NEW n \in Nat \ {0},
         LeftFrom(s, args, n), s # << >>
  PROVE  /\ Tail(s) \in Seq(LuaValues) /\ LeftFrom(Tail(s), args, n + 1)
         /\ n <= Len(args) /\ s[1] = args[n]
<1>1. /\ Tail(s) \in Seq(LuaValues) /\ Len(Tail(s)) = Len(s) - 1
      /\ \A i \in 1..Len(Tail(s)) : Tail(s)[i] = s[i + 1]
  BY HeadTailProperties
<1>2. Len(s) \in Nat \ {0} /\ Len(args) \in Nat
  OBVIOUS
<1>3. n <= Len(args) /\ Len(s) = Len(args) - n + 1 /\ s[1] = args[n]
  BY <1>2 DEF LeftFrom
<1>4. ASSUME NEW i \in 1..Len(Tail(s)) PROVE Tail(s)[i] = args[(n + 1) + i - 1]
  <2>1. i + 1 \in 1..Len(s) /\ n + (i + 1) - 1 = (n + 1) + i - 1
    BY <1>1, <1>2
  <2> QED
    BY <1>1, <2>1 DEF LeftFrom
<1>5. Len(Tail(s)) = IF n + 1 <= Len(args) THEN Len(args) - (n + 1) + 1 ELSE 0
  <2> DEFINE k == Len(Tail(s))
             l == Len(args)
  <2>1. k = l - n + 1 - 1 /\ l \in Nat /\ n <= l
    BY <1>1, <1>2, <1>3
  <2> HIDE DEF k, l
  <2>2. k = IF n + 1 <= l THEN l - (n + 1) + 1 ELSE 0
    BY <2>1
  <2> QED
    BY <2>2 DEF k, l
<1> QED
  BY <1>1, <1>3, <1>4, <1>5 DEF LeftFrom

LEMMA SelfStep == ASSUME IInv, Self PROVE IInv'
<1>1. /\ frames # << >> /\ Inner.phase = "self"
      /\ FrameOK(Inner) /\ FrameInv(Inner) /\ f0 = Inner.fn /\ f0 \in Functions
  BY InnerLemma DEF Self, IInv, FramesInv
<1>2. CASE ~SelfGiven
  BY <1>1, <1>2, ErrorStep DEF Self
<1>3. CASE SelfGiven
  <2> DEFINE s == SubSeq(Inner.stack, Offset(f0) + 1, Len(Inner.stack))
             e == << >>
             r == After(s, e, "take")
  <2>1. Inner.stack = Inner.given /\ Inner.given \in Seq(LuaValues)
    BY <1>1 DEF FrameInv, SelfInv, FrameOK, Frame
  <2>2. /\ s \in Seq(LuaValues) /\ LeftFrom(s, Inner.given, Place[f0][1])
        /\ e \in Seq(LuaValues \cup {Default, Fresh, State}) /\ Len(e) = 0
    <3>1. Offset(f0) \in Nat /\ Place[f0][1] = Offset(f0) + 1
      BY <1>1, PlaceLemma
    <3> QED
      BY <2>1, <3>1, LeftLemma
  <2>3. /\ GoOn(s, e, "take") /\ nbReturn' = [nbReturn EXCEPT ![f0] = 0]
        /\ UNCHANGED answer
    BY <1>3 DEF Self, Begin
  <2> HIDE DEF s, e
  <2>4. /\ r \in Frame /\ r.fn = f0 /\ r.given = Inner.given /\ r.stack = s
        /\ r.got = e /\ r.phase = "take"
    <3>1. /\ TypeOK /\ frames # << >> /\ "take" \in {"self", "take", "body"}
          /\ s \in Seq(LuaValues) /\ e \in Seq(LuaValues \cup {Default, Fresh, State})
      BY <1>1, <2>2 DEF IInv
    <3> QED
      BY <3>1, AfterLemma
  <2> HIDE DEF r
  <2>5. FrameOK(r)
    BY <1>1, <2>2, <2>4, PlaceLemma DEF FrameOK
  <2>6. FrameInv(r)
    <3>1. SelfInv(r)
      BY <1>3, <2>1, <2>4 DEF SelfInv, SelfGiven
    <3>2. OrderInv(r)
      BY <2>2, <2>4 DEF OrderInv, GotItsArguments
    <3> QED
      BY <3>1, <3>2 DEF FrameInv
  <2>7. /\ nbReturn' \in [Functions -> Nat \cup {-1}] /\ nbReturn'[f0] = 0
        /\ \A f \in Functions \ {f0} : nbReturn'[f] = nbReturn[f]
    BY <1>1, <2>3 DEF IInv, TypeOK
  <2> QED
    BY <1>1, <2>2, <2>3, <2>5, <2>6, <2>7, OnwardStep DEF r
<1> QED
  BY <1>2, <1>3

\* What the call finds when it takes the next argument.
LEMMA TakingLemma ==
  ASSUME IInv, Taking
  PROVE  /\ frames # << >> /\ Inner.phase = "take"
         /\ FrameOK(Inner) /\ FrameInv(Inner) /\ f0 = Inner.fn /\ f0 \in Functions
         /\ Index = Len(Inner.got) + 1 /\ Index \in 1..Len(Params[f0])
         /\ Inner.stack \in Seq(LuaValues) /\ Inner.given \in Seq(LuaValues)
         /\ Inner.got \in Seq(LuaValues \cup {Default, Fresh, State})
<1>1. /\ frames # << >> /\ Inner.phase = "take"
      /\ FrameOK(Inner) /\ FrameInv(Inner) /\ f0 = Inner.fn /\ f0 \in Functions
  BY InnerLemma DEF Taking, IInv, FramesInv
<1>2. /\ Inner.stack \in Seq(LuaValues) /\ Inner.given \in Seq(LuaValues)
      /\ Inner.got \in Seq(LuaValues \cup {Default, Fresh, State})
  BY <1>1 DEF FrameOK, Frame
<1>3. Index = Len(Inner.got) + 1 /\ Index \in 1..Len(Params[f0])
  BY <1>1, <1>2, PlaceLemma DEF Taking, Index
<1> QED
  BY <1>1, <1>2, <1>3

\* A callable whose last argument alone may be an object finds it.
LEMMA FoundLemma ==
  ASSUME IInv, Taking, Reads(f0, Index), ObjectLast(f0)
  PROVE  LeftFrom(Inner.stack, Inner.given, Place[f0][Index])
<1>1. NoObjectYet(Inner)
  BY TakingLemma, PlaceLemma DEF NoObjectYet, ObjectLast
<1> QED
  BY <1>1, TakingLemma DEF FrameInv, OrderInv

\* The next argument is v, and s is left on the stack.
LEMMA TookStep ==
  ASSUME IInv, Taking, NEW s \in Seq(LuaValues),
         NEW v \in LuaValues \cup {Default, Fresh, State}, Took(s, v),
         ObjectLast(f0) => v = Meant(f0, Inner.given, Index),
         ObjectLast(f0) /\ NoObjectYet(Inner) /\ (Reads(f0, Index) => Param.kind # "object")
           => LeftFrom(s, Inner.given, Place[f0][Index + 1])
  PROVE  IInv'
<1> DEFINE g == Append(Inner.got, v)
           r == After(s, g, "take")
<1>1. /\ frames # << >> /\ Inner.phase = "take"
      /\ FrameOK(Inner) /\ FrameInv(Inner) /\ f0 = Inner.fn /\ f0 \in Functions
      /\ Index = Len(Inner.got) + 1 /\ Index \in 1..Len(Params[f0])
      /\ Inner.got \in Seq(LuaValues \cup {Default, Fresh, State})
      /\ Len(Params[f0]) \in Nat
  BY TakingLemma, PlaceLemma
<1>2. /\ g \in Seq(LuaValues \cup {Default, Fresh, State}) /\ Len(g) = Index
      /\ g[Index] = v /\ \A i \in 1..Len(Inner.got) : g[i] = Inner.got[i]
  BY <1>1
<1>3. GoOn(s, g, "take") /\ UNCHANGED <<nbReturn, answer>>
  BY DEF Took
<1> HIDE DEF g
<1>4. /\ r \in Frame /\ r.fn = f0 /\ r.given = Inner.given /\ r.stack = s
      /\ r.got = g /\ r.phase = "take"
  BY <1>1, <1>2, AfterLemma DEF IInv
<1> HIDE DEF r
<1>5. FrameOK(r)
  BY <1>1, <1>2, <1>4 DEF FrameOK
<1>6. FrameInv(r)
  <2>1. SelfInv(r)
    BY <1>1, <1>4 DEF FrameInv, SelfInv
  <2>2. ASSUME ObjectLast(f0) PROVE OrderInv(r)
    <3>1. GotItsArguments(r)
      <4> SUFFICES ASSUME NEW i \in 1..Index PROVE g[i] = Meant(f0, Inner.given, i)
        BY <1>2, <1>4 DEF GotItsArguments
      <4>1. CASE i = Index
        BY <1>2, <2>2, <4>1
      <4>2. CASE i # Index
        <5>1. i \in 1..Len(Inner.got)
          BY <1>1, <4>2
        <5> QED
          BY <1>1, <1>2, <2>2, <5>1 DEF FrameInv, OrderInv, GotItsArguments
      <4> QED
        BY <4>1, <4>2
    <3>2. ASSUME NoObjectYet(r) PROVE LeftFrom(s, Inner.given, Place[f0][Index + 1])
      <4>1. \A i \in 1..Index : Reads(f0, i) => Params[f0][i].kind # "object"
        BY <1>2, <1>4, <3>2 DEF NoObjectYet
      <4>2. NoObjectYet(Inner) /\ (Reads(f0, Index) => Param.kind # "object")
        BY <1>1, <4>1 DEF NoObjectYet, Param
      <4> QED
        BY <2>2, <4>2
    <3> QED
      BY <1>2, <1>4, <3>1, <3>2 DEF OrderInv
  <2> QED
    BY <1>4, <2>1, <2>2 DEF FrameInv
<1> QED
  BY <1>1, <1>2, <1>3, <1>5, <1>6, OnwardStep DEF r, IInv, TypeOK

LEMMA TakeMissingStep == ASSUME IInv, TakeMissing PROVE IInv'
<1>1. Taking /\ Reads(f0, Index) /\ Inner.stack = << >> /\ frames # << >>
  BY DEF TakeMissing, Taking
<1>2. CASE ~Param.default
  BY <1>1, <1>2, ErrorStep DEF TakeMissing
<1>3. CASE Param.default
  <2>1. Took(<< >>, Default) /\ << >> \in Seq(LuaValues)
    BY <1>3 DEF TakeMissing
  <2>2. ASSUME ObjectLast(f0)
        PROVE  /\ Default = Meant(f0, Inner.given, Index)
               /\ LeftFrom(<< >>, Inner.given, Place[f0][Index + 1])
    <3>1. LeftFrom(<< >>, Inner.given, Place[f0][Index])
      BY <1>1, <2>2, FoundLemma
    <3>2. /\ Place[f0][Index] \in Nat /\ Len(Inner.given) \in Nat
          /\ Place[f0][Index + 1] = Place[f0][Index] + 1
      BY <1>1, TakingLemma, PlaceLemma
    <3>3. Place[f0][Index] > Len(Inner.given)
      BY <3>1, <3>2 DEF LeftFrom
    <3> QED
      BY <1>1, <3>2, <3>3 DEF Meant, LeftFrom
  <2> QED
    BY <1>1, <2>1, <2>2, TookStep
<1> QED
  BY <1>2, <1>3

LEMMA TakeBasicStep == ASSUME IInv, TakeBasic PROVE IInv'
<1>1. Taking /\ Reads(f0, Index) /\ Inner.stack # << >> /\ frames # << >>
  BY DEF TakeBasic, Taking
<1>2. CASE Inner.stack[1] \notin Basic
  BY <1>1, <1>2, ErrorStep DEF TakeBasic
<1>3. CASE Inner.stack[1] \in Basic
  <2>1. /\ Took(Tail(Inner.stack), Inner.stack[1])
        /\ Tail(Inner.stack) \in Seq(LuaValues) /\ Inner.stack[1] \in LuaValues
    BY <1>1, <1>3, TakingLemma, HeadTailProperties DEF TakeBasic, Removed, LuaValues
  <2>2. ASSUME ObjectLast(f0)
        PROVE  /\ Inner.stack[1] = Meant(f0, Inner.given, Index)
               /\ LeftFrom(Tail(Inner.stack), Inner.given, Place[f0][Index + 1])
    <3>1. LeftFrom(Inner.stack, Inner.given, Place[f0][Index])
      BY <1>1, <2>2, FoundLemma
    <3>2. /\ Place[f0][Index] \in Nat \ {0}
          /\ Place[f0][Index + 1] = Place[f0][Index] + 1
      BY <1>1, TakingLemma, PlaceLemma
    <3> QED
      BY <1>1, <3>1, <3>2, TakingLemma, TailLemma DEF Meant
  <2> QED
    BY <1>1, <2>1, <2>2, TookStep
<1> QED
  BY <1>2, <1>3

LEMMA TakeObjectStep == ASSUME IInv, TakeObject PROVE IInv'
<1>1. /\ Taking /\ Reads(f0, Index) /\ Inner.stack # << >> /\ frames # << >>
      /\ Param.kind = "object"
  BY DEF TakeObject, Taking
<1>2. CASE Inner.stack[1] \notin Instances \cup {Nil}
  BY <1>1, <1>2, ErrorStep DEF TakeObject
<1>3. CASE Inner.stack[1] \in Instances \cup {Nil}
  <2>1. /\ Took(Inner.stack, Inner.stack[1]) /\ Inner.stack \in Seq(LuaValues)
        /\ Inner.stack[1] \in LuaValues
    BY <1>1, <1>3, TakingLemma DEF TakeObject, LuaValues
  <2>2. ASSUME ObjectLast(f0)
        PROVE  Inner.stack[1] = Meant(f0, Inner.given, Index)
    <3>1. LeftFrom(Inner.stack, Inner.given, Place[f0][Index])
      BY <1>1, <2>2, FoundLemma
    <3>2. Place[f0][Index] \in Nat \ {0}
      BY <1>1, TakingLemma, PlaceLemma
    <3> QED
      BY <1>1, <3>1, <3>2, TakingLemma, TailLemma DEF Meant
  <2> QED
    BY <1>1, <2>1, <2>2, TookStep
<1> QED
  BY <1>2, <1>3

LEMMA TakeNothingStep == ASSUME IInv, TakeNothing PROVE IInv'
<1> DEFINE v == IF Param.input THEN State ELSE Fresh
<1>1. /\ Taking /\ ~Reads(f0, Index) /\ Took(Inner.stack, v)
      /\ Inner.stack \in Seq(LuaValues) /\ v \in LuaValues \cup {Default, Fresh, State}
  BY TakingLemma DEF TakeNothing
<1>2. v = Meant(f0, Inner.given, Index)
  BY <1>1 DEF Meant, Param
<1>3. ASSUME ObjectLast(f0), NoObjectYet(Inner)
      PROVE  LeftFrom(Inner.stack, Inner.given, Place[f0][Index + 1])
  <2>1. LeftFrom(Inner.stack, Inner.given, Place[f0][Index])
    BY <1>1, <1>3, TakingLemma DEF FrameInv, OrderInv
  <2>2. Place[f0][Index + 1] = Place[f0][Index]
    BY <1>1, TakingLemma, PlaceLemma
  <2> QED
    BY <2>1, <2>2
<1> HIDE DEF v
<1> QED
  BY <1>1, <1>2, <1>3, TookStep

LEMMA EnterStep == ASSUME IInv, Enter PROVE IInv'
<1> DEFINE s == Inner.stack
           g == Inner.got
           r == After(s, g, "body")
<1>1. /\ frames # << >> /\ Inner.phase = "take" /\ AllTaken
      /\ GoOn(s, g, "body") /\ UNCHANGED <<nbReturn, answer>>
      /\ FrameOK(Inner) /\ FrameInv(Inner) /\ f0 = Inner.fn /\ f0 \in Functions
  BY InnerLemma DEF Enter, IInv, FramesInv
<1>2. s \in Seq(LuaValues) /\ g \in Seq(LuaValues \cup {Default, Fresh, State})
  BY <1>1 DEF FrameOK, Frame
<1>3. Len(g) = Len(Params[f0])
  BY <1>1, <1>2, PlaceLemma DEF AllTaken, Index, FrameOK
<1> HIDE DEF s, g
<1>4. /\ r \in Frame /\ r.fn = f0 /\ r.given = Inner.given /\ r.stack = s
      /\ r.got = g /\ r.phase = "body"
  BY <1>1, <1>2, AfterLemma DEF IInv
<1> HIDE DEF r
<1>5. FrameOK(r)
  BY <1>1, <1>3, <1>4, PlaceLemma DEF FrameOK
<1>6. FrameInv(r)
  BY <1>1, <1>4 DEF FrameInv, SelfInv, OrderInv, GotItsArguments, g
<1> QED
  BY <1>1, <1>2, <1>5, <1>6, OnwardStep DEF r, IInv, TypeOK

(***************************************************************************)
(* What Lua is given.                                                      *)
(***************************************************************************)

\* The topmost values are those that were pushed last.
LEMMA TopLemma ==
  ASSUME NEW S, NEW s \in Seq(S), NEW t, NEW n \in Nat, t = [k \in 1..n |-> t[k]]
  PROVE  Top(n, s \o t) = t
<1>1. t \in Seq({t[k] : k \in 1..n}) /\ Len(t) = n
  OBVIOUS
<1> DEFINE T == S \cup {t[k] : k \in 1..n}
<1>2. s \in Seq(T) /\ t \in Seq(T)
  BY <1>1
<1>3. /\ Len(s \o t) = Len(s) + n
      /\ \A i \in 1..(Len(s) + n) :
           (s \o t)[i] = IF i <= Len(s) THEN s[i] ELSE t[i - Len(s)]
  BY <1>1, <1>2, ConcatProperties
<1>4. ASSUME NEW k \in 1..n
      PROVE  (IF k + Len(s \o t) - n >= 1 THEN (s \o t)[k + Len(s \o t) - n] ELSE Below) = t[k]
  <2>1. Len(s) \in Nat
    OBVIOUS
  <2>2. k + Len(s \o t) - n = k + Len(s)
    BY <1>3, <2>1
  <2>3. /\ k + Len(s) \in 1..(Len(s) + n) /\ ~(k + Len(s) <= Len(s))
        /\ k + Len(s) - Len(s) = k /\ k + Len(s) >= 1
    BY <2>1
  <2> QED
    BY <1>3, <2>2, <2>3
<1>5. Top(n, s \o t) =
        [k \in 1..n |-> IF k + Len(s \o t) - n >= 1 THEN (s \o t)[k + Len(s \o t) - n] ELSE Below]
  BY DEF Top
<1> QED
  BY <1>4, <1>5

LEMMA AsSequence ==
  ASSUME NEW S, NEW n \in Nat, NEW s \in [1..n -> S]
  PROVE  s \in Seq(S) /\ Len(s) = n
OBVIOUS

LEMMA WiderSequence ==
  ASSUME NEW S, NEW T, S \subseteq T, NEW s \in Seq(S)
  PROVE  s \in Seq(T)
OBVIOUS

LEMMA CounterLemma ==
  ASSUME IInv, frames # << >>, NEW n \in Nat,
         nbReturn' = [nbReturn EXCEPT ![f0] = @ + n]
  PROVE  /\ nbReturn' \in [Functions -> Nat \cup {-1}]
         /\ nbReturn'[f0] = nbReturn[f0] + n
         /\ \A f \in Functions \ {f0} : nbReturn'[f] = nbReturn[f]
<1>1. f0 \in Functions /\ nbReturn \in [Functions -> Nat \cup {-1}]
  BY InnerLemma DEF IInv, TypeOK
<1>2. nbReturn[f0] + n \in Nat \cup {-1}
  BY <1>1
<1> QED
  BY <1>1, <1>2

LEMMA ReturnStep == ASSUME IInv, Return PROVE IInv'
<1> DEFINE t == Pushed \o Outputs
           n == Extra[f0] + Len(Outs[f0])
<1>1. /\ frames # << >> /\ Inner.phase = "body" /\ frames' = Popped
      /\ f0 \in Functions /\ Inner \in Frame /\ f0 = Inner.fn
      /\ Len(frames) \in 1..Len(frames) /\ Inner = frames[Len(frames)]
  BY InnerLemma DEF Return, IInv, FrameOK
<1>2. Extra[f0] \in Nat /\ Len(Outs[f0]) \in Nat /\ Outs[f0] \in Seq(Nat)
  BY <1>1, RequestAssumption
<1>3. /\ Inner.stack \in Seq(LuaValues) /\ Inner.again \in BOOLEAN
  BY <1>1 DEF Frame
<1> DEFINE T == LuaValues \cup {Pushed[k] : k \in 1..Extra[f0]}
                          \cup {Outputs[k] : k \in 1..Len(Outs[f0])}
<1>4. /\ Pushed \in Seq(T) /\ Len(Pushed) = Extra[f0]
      /\ Outputs \in Seq(T) /\ Len(Outputs) = Len(Outs[f0])
      /\ Inner.stack \in Seq(T)
  <2>1. Pushed \in [1..Extra[f0] -> T] /\ Outputs \in [1..Len(Outs[f0]) -> T]
    BY DEF Pushed, Outputs
  <2>2. T = T /\ LuaValues \subseteq T
    OBVIOUS
  <2> HIDE DEF T
  <2> QED
    BY <1>2, <1>3, <2>1, <2>2, AsSequence, WiderSequence
<1> HIDE DEF T
<1>5. t \in Seq(T) /\ Len(t) = n /\ Inner.stack \o Pushed \o Outputs = Inner.stack \o t
  <2>1. t \in Seq(T) /\ Len(t) = Len(Pushed) + Len(Outputs)
    BY <1>4, ConcatProperties
  <2>2. (Inner.stack \o Pushed) \o Outputs = Inner.stack \o (Pushed \o Outputs)
    <3>1. \A a, b, c \in Seq(T) : (a \o b) \o c = a \o (b \o c)
      BY ConcatAssociative
    <3> QED
      BY <1>4, <3>1, Zenon
  <2>3. Len(t) = n
    BY <1>4, <2>1
  <2> QED
    BY <2>1, <2>2, <2>3
<1> HIDE DEF t
<1>6. n \in Nat /\ t = [k \in 1..n |-> t[k]]
  <2>1. t \in [1..Len(t) -> T] /\ Len(t) = n
    BY <1>5
  <2> QED
    BY <1>2, <2>1
<1>7. nbReturn' = [nbReturn EXCEPT ![f0] = @ + Len(Outs[f0])]
  BY <1>4 DEF Return, Counted
<1>8. /\ nbReturn' \in [Functions -> Nat \cup {-1}]
      /\ nbReturn'[f0] = nbReturn[f0] + Len(Outs[f0])
      /\ \A f \in Functions \ {f0} : nbReturn'[f] = nbReturn[f]
  BY <1>1, <1>2, <1>7, CounterLemma
<1>9. /\ answer'.own = t /\ answer'.again = Inner.again
      /\ answer'.received = Top(nbReturn'[f0] + Extra[f0], Inner.stack \o t)
  BY <1>5 DEF Return, t
<1>10. ReturnsExact'
  <2> SUFFICES ASSUME ~Inner.again PROVE answer'.received = t
    BY <1>9 DEF ReturnsExact
  <2>1. nbReturn[f0] = 0
    BY <1>1 DEF IInv, CountInv
  <2>2. nbReturn'[f0] + Extra[f0] = n
    BY <1>2, <1>8, <2>1
  <2>3. Top(n, Inner.stack \o t) = t
    BY <1>4, <1>6, TopLemma
  <2> QED
    BY <1>9, <2>2, <2>3
<1> QED
  BY <1>1, <1>3, <1>8, <1>9, <1>10, EndStep

LEMMA ThrowStep == ASSUME IInv, NEW n \in 0..MaxArgs, Throw(n) PROVE IInv'
<1>1. /\ frames # << >> /\ frames' = Popped /\ UNCHANGED answer
      /\ nbReturn' = [nbReturn EXCEPT ![f0] = @ + n] /\ n \in Nat
  BY RequestAssumption DEF Throw
<1>2. /\ nbReturn' \in [Functions -> Nat \cup {-1}]
      /\ \A f \in Functions \ {f0} : nbReturn'[f] = nbReturn[f]
  BY <1>1, CounterLemma
<1>3. answer'.again \in BOOLEAN /\ ReturnsExact'
  BY <1>1 DEF IInv, TypeOK, ReturnsExact
<1> QED
  BY <1>1, <1>2, <1>3, EndStep

LEMMA NextInv == IInv /\ [Next]_vars => IInv'
<1> SUFFICES ASSUME IInv, [Next]_vars PROVE IInv'
  OBVIOUS
<1>1. CASE \E f \in Functions, args \in Arguments : Call(f, args)
  BY <1>1, CallStep
<1>2. CASE Self \/ TakeMissing \/ TakeBasic \/ TakeObject \/ TakeNothing \/ Enter
  BY <1>2, SelfStep, TakeMissingStep, TakeBasicStep, TakeObjectStep, TakeNothingStep, EnterStep
<1>3. CASE Return \/ \E n \in 0..MaxArgs : Throw(n)
  BY <1>3, ReturnStep, ThrowStep
<1>4. CASE UNCHANGED vars
  <2>1. frames' = frames /\ nbReturn' = nbReturn /\ answer' = answer
    BY <1>4 DEF vars
  <2> QED
    BY <2>1 DEF IInv, TypeOK, FramesInv, AgainInv, CountInv, ReturnsExact
<1> QED
  BY <1>1, <1>2, <1>3, <1>4 DEF Next

(***************************************************************************)
(* The theorems.                                                           *)
(***************************************************************************)

(* The inductive invariant holds in every state.                           *)
LEMMA InvariantHolds == Spec => []IInv
BY InitInv, NextInv, PTL DEF Spec

(* A body that is entered has as many arguments as its callable has        *)
(* parameters, and only the innermost call reads any.                      *)
THEOREM TypeCorrect == Spec => []TypeOK
<1>1. IInv => TypeOK
  BY DEF IInv
<1> QED
  BY InvariantHolds, <1>1, PTL

(* A callable that takes at most its last argument as an object gets the   *)
(* arguments of the call in their order, or default values, although the   *)
(* parameters are read one by one from the same place of the stack.        *)
THEOREM ArgumentsInOrder == Spec => []ArgsInOrder
<1>1. IInv => ArgsInOrder
  <2> SUFFICES ASSUME IInv, NEW k \in 1..Len(frames), ObjectLast(frames[k].fn)
               PROVE  GotItsArguments(frames[k])
    BY DEF ArgsInOrder
  <2>1. FrameInv(frames[k]) /\ FrameOK(frames[k])
    BY TypeLemma DEF IInv, FramesInv
  <2>2. CASE frames[k].phase = "self"
    BY <2>1, <2>2 DEF FrameOK, GotItsArguments
  <2>3. CASE frames[k].phase # "self"
    BY <2>1, <2>3 DEF FrameInv, OrderInv
  <2> QED
    BY <2>2, <2>3
<1> QED
  BY InvariantHolds, <1>1, PTL

(* A call gives Lua exactly what it pushed, whatever its conversions left  *)
(* on the stack and however deep it was nested, unless its own callable    *)
(* was called meanwhile and has counted in the same nb_return_.            *)
THEOREM ReturnsAreExact == Spec => []ReturnsExact
<1>1. IInv => ReturnsExact
  BY DEF IInv
<1> QED
  BY InvariantHolds, <1>1, PTL

(* A method is entered for an instance only, which is the first argument.  *)
THEOREM MethodsGetSelf == Spec => []MethodsHaveSelf
<1>1. IInv => MethodsHaveSelf
  BY DEF IInv, FramesInv, FrameInv, SelfInv, MethodsHaveSelf
<1> QED
  BY InvariantHolds, <1>1, PTL

================================================================================
