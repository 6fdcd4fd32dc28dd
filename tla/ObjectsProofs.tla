------------------------------ MODULE ObjectsProofs ------------------------------
(***************************************************************************)
(* Proofs about Objects: the counts of the blocks are exact, what is given *)
(* to a C++ function is alive until it returns, and Objects implements     *)
(* Ownership.                                                              *)
(***************************************************************************)
EXTENDS Objects, FiniteSetTheorems, TLAPS

(***************************************************************************)
(* The inductive invariant.                                                *)
(***************************************************************************)

\* A block counts its owners; it is the only one of its object, which is
\* alive exactly as long as it has one.
BlocksInv ==
  /\ \A g \in Blocks : IsFiniteSet(KeptBy(g)) /\ uses[g] = Cardinality(KeptBy(g))
  /\ \A g \in Blocks : owned[g] = None => KeptBy(g) = {}
  /\ \A g \in Blocks :
       owned[g] # None => status[owned[g]] = IF KeptBy(g) = {} THEN "gone" ELSE "alive"
  /\ \A g, h \in Blocks : owned[g] # None /\ owned[g] = owned[h] => g = h

\* A call that borrows an object from a shared_ptr has a copy of it, unless
\* it is the call of a method.
CallInv ==
  call.smart /\ ~call.self => call.block \in Blocks /\ owned[call.block] = call.object

IInv == TypeOK /\ BlocksInv /\ CallInv

LEMMA InitInv == Init => IInv
<1> SUFFICES ASSUME Init PROVE IInv
  OBVIOUS
<1>1. TypeOK
  BY DEF Init, TypeOK, Idle, Box, Free
<1>2. \A g \in Blocks : KeptBy(g) = {}
  BY ObjectsAssumption DEF Init, KeptBy, Smart, Free, Idle
<1>3. BlocksInv
  BY <1>2, FS_EmptySet DEF Init, BlocksInv
<1>4. CallInv
  BY DEF Init, CallInv, Idle
<1> QED
  BY <1>1, <1>3, <1>4 DEF IInv

(***************************************************************************)
(* The owners of blocks and of objects.                                    *)
(***************************************************************************)

\* An object has the owners of its block, or none.
LEMMA OwnersLemma ==
  ASSUME BlocksInv, NEW o \in Objects
  PROVE  /\ \A g \in Blocks : owned[g] = o => OwnersOf[o] = KeptBy(g)
         /\ (\A g \in Blocks : owned[g] # o) => OwnersOf[o] = {}
<1>1. ASSUME NEW g \in Blocks, owned[g] = o
      PROVE  OwnersOf[o] = KeptBy(g)
  <2>1. {h \in Blocks : owned[h] = o} = {g}
    BY <1>1, ObjectsAssumption DEF BlocksInv
  <2> QED
    BY <2>1 DEF OwnersOf
<1>2. ASSUME \A g \in Blocks : owned[g] # o
      PROVE  OwnersOf[o] = {}
  <2>1. {h \in Blocks : owned[h] = o} = {}
    BY <1>2
  <2> QED
    BY <2>1 DEF OwnersOf
<1> QED
  BY <1>1, <1>2

\* What has an owner counts at least one.
LEMMA UsesLemma ==
  ASSUME IInv, NEW g \in Blocks
  PROVE  /\ uses[g] \in Nat
         /\ uses[g] = 0 <=> KeptBy(g) = {}
         /\ \A w \in KeptBy(g) : uses[g] > 1 <=> KeptBy(g) # {w}
<1>1. IsFiniteSet(KeptBy(g)) /\ uses[g] = Cardinality(KeptBy(g)) /\ uses[g] \in Nat
  BY DEF IInv, BlocksInv, TypeOK
<1>2. uses[g] = 0 <=> KeptBy(g) = {}
  BY <1>1, FS_EmptySet
<1>3. ASSUME NEW w \in KeptBy(g) PROVE uses[g] > 1 <=> KeptBy(g) # {w}
  <2>1. KeptBy(g) = {w} => uses[g] = 1
    BY <1>1, FS_Singleton
  <2>2. ASSUME uses[g] = 1 PROVE KeptBy(g) = {w}
    <3>1. \E x : KeptBy(g) = {x}
      BY <1>1, <2>2, FS_Singleton
    <3> QED
      BY <1>3, <3>1
  <2> QED
    BY <1>1, <1>2, <1>3, <2>1, <2>2
<1> QED
  BY <1>1, <1>2, <1>3

\* Only the object x of the block g may get other owners, those of g.
LEMMA OwnersChange ==
  ASSUME BlocksInv', NEW x \in Objects, NEW g \in Blocks, owned'[g] = x,
         owned[g] \in {x, None},
         \A h \in Blocks \ {g} : owned'[h] = owned[h] /\ KeptBy(h)' = KeptBy(h)
  PROVE  OwnersOf' = [OwnersOf EXCEPT ![x] = KeptBy(g)']
<1>1. (OwnersOf')[x] = KeptBy(g)'
  <2>1. {h \in Blocks : owned'[h] = x} = {g}
    BY ObjectsAssumption DEF BlocksInv
  <2> QED
    BY <2>1 DEF OwnersOf
<1>2. ASSUME NEW o \in Objects \ {x} PROVE (OwnersOf')[o] = OwnersOf[o]
  <2> DEFINE S == {h \in Blocks : owned[h] = o}
  <2>1. {h \in Blocks : owned'[h] = o} = S /\ g \notin S
    BY ObjectsAssumption
  <2>2. \A h \in S : KeptBy(h)' = KeptBy(h)
    BY <2>1
  <2>3. (OwnersOf')[o] = UNION {KeptBy(h)' : h \in S}
    BY <2>1 DEF OwnersOf
  <2>4. OwnersOf[o] = UNION {KeptBy(h) : h \in S}
    BY DEF OwnersOf
  <2> HIDE DEF S
  <2> QED
    BY <2>2, <2>3, <2>4
<1>3. DOMAIN OwnersOf = Objects /\ DOMAIN OwnersOf' = Objects /\ OwnersOf = [o \in Objects |-> OwnersOf[o]] /\ OwnersOf' = [o \in Objects |-> (OwnersOf')[o]]
  BY DEF OwnersOf
<1> QED
  BY <1>1, <1>2, <1>3

(***************************************************************************)
(* The four ways in which a step changes the owners: a block is made, gets *)
(* an owner, loses one, or nothing happens to any block.                   *)
(***************************************************************************)

\* The owner w comes to the block g, or leaves it, and nobody else does.
Joins(g, w) ==
  /\ w \notin KeptBy(g) /\ KeptBy(g)' = KeptBy(g) \cup {w}
  /\ \A h \in Blocks \ {g} : KeptBy(h)' = KeptBy(h)

Parts(g, w) ==
  /\ w \in KeptBy(g) /\ KeptBy(g)' = KeptBy(g) \ {w}
  /\ \A h \in Blocks \ {g} : KeptBy(h)' = KeptBy(h)

NobodyMoves == \A h \in Blocks : KeptBy(h)' = KeptBy(h)

LEMMA SharedLemma ==
  ASSUME IInv, NEW o \in Objects, NEW g \in Blocks, NEW w \in Keepers,
         Shared(o, g), Joins(g, w), \A h \in Blocks : owned[h] # o,
         status' = [status EXCEPT ![o] = "alive"]
  PROVE  /\ BlocksInv'
         /\ OwnersOf' = [OwnersOf EXCEPT ![o] = {w}]
<1>1. /\ owned[g] = None /\ KeptBy(g) = {} /\ KeptBy(g)' = {w}
      /\ owned' = [owned EXCEPT ![g] = o] /\ uses' = [uses EXCEPT ![g] = 1]
      /\ o # None
  BY ObjectsAssumption DEF IInv, BlocksInv, Shared, Joins
<1>2. IsFiniteSet(KeptBy(g)') /\ Cardinality(KeptBy(g)') = 1
  BY <1>1, FS_Singleton
<1>3. /\ owned'[g] = o /\ uses'[g] = 1 /\ status'[o] = "alive"
      /\ \A h \in Blocks \ {g} : owned'[h] = owned[h] /\ uses'[h] = uses[h]
      /\ \A x \in Objects \ {o} : status'[x] = status[x]
  BY <1>1 DEF IInv, TypeOK
<1>4. BlocksInv'
  <2>1. \A h \in Blocks : IsFiniteSet(KeptBy(h)') /\ uses'[h] = Cardinality(KeptBy(h)')
    BY <1>2, <1>3 DEF IInv, BlocksInv, Joins
  <2>2. \A h \in Blocks : owned'[h] = None => KeptBy(h)' = {}
    BY <1>1, <1>3 DEF IInv, BlocksInv, Joins
  <2>3. \A h \in Blocks :
          owned'[h] # None => status'[owned'[h]] = IF KeptBy(h)' = {} THEN "gone" ELSE "alive"
    BY <1>1, <1>3 DEF IInv, TypeOK, BlocksInv, Joins
  <2>4. \A h, k \in Blocks : owned'[h] # None /\ owned'[h] = owned'[k] => h = k
    BY <1>1, <1>3 DEF IInv, BlocksInv
  <2> QED
    BY <2>1, <2>2, <2>3, <2>4 DEF BlocksInv
<1>5. OwnersOf' = [OwnersOf EXCEPT ![o] = KeptBy(g)']
  BY <1>1, <1>3, <1>4, OwnersChange DEF Joins
<1> QED
  BY <1>1, <1>4, <1>5

LEMMA CopiedLemma ==
  ASSUME IInv, NEW g \in Blocks, NEW w \in Keepers, owned[g] # None, KeptBy(g) # {},
         Copied(g), Joins(g, w)
  PROVE  /\ BlocksInv'
         /\ owned[g] \in Objects
         /\ Promise!Own(owned[g], w)
<1>1. /\ owned' = owned /\ status' = status /\ uses' = [uses EXCEPT ![g] = @ + 1]
      /\ owned[g] \in Objects /\ status[owned[g]] = "alive"
  BY DEF IInv, TypeOK, BlocksInv, Copied
<1>2. IsFiniteSet(KeptBy(g)') /\ Cardinality(KeptBy(g)') = Cardinality(KeptBy(g)) + 1
  BY FS_AddElement DEF IInv, BlocksInv, Joins
<1>3. BlocksInv'
  BY <1>1, <1>2 DEF IInv, TypeOK, BlocksInv, Joins
<1>4. OwnersOf[owned[g]] = KeptBy(g)
  BY <1>1, OwnersLemma DEF IInv
<1>5. OwnersOf' = [OwnersOf EXCEPT ![owned[g]] = OwnersOf[owned[g]] \cup {w}]
  BY <1>1, <1>3, <1>4, OwnersChange DEF Joins
<1>6. status' = [status EXCEPT ![owned[g]] = "alive"]
  BY <1>1 DEF IInv, TypeOK
<1> QED
  BY <1>1, <1>3, <1>5, <1>6 DEF Promise!Own, Promise!Become

LEMMA DroppedLemma ==
  ASSUME IInv, NEW g \in Blocks, NEW w \in Keepers, Dropped(g), Parts(g, w)
  PROVE  /\ BlocksInv'
         /\ owned[g] \in Objects
         /\ uses' \in [Blocks -> Nat]
         /\ status' \in [Objects -> {"none", "alive", "gone"}]
         /\ Promise!Release(owned[g], w)
<1>1. /\ owned' = owned /\ uses' = [uses EXCEPT ![g] = @ - 1]
      /\ owned[g] # None /\ owned[g] \in Objects /\ status[owned[g]] = "alive"
  BY DEF IInv, TypeOK, BlocksInv, Dropped, Parts
<1>2. /\ uses[g] \in Nat \ {0}
      /\ uses[g] > 1 <=> KeptBy(g) # {w}
  BY UsesLemma DEF Parts
<1>3. status' = [status EXCEPT ![owned[g]] = IF KeptBy(g) = {w} THEN "gone" ELSE @]
  BY <1>1, <1>2 DEF Dropped, IInv, TypeOK
<1>4. IsFiniteSet(KeptBy(g)') /\ Cardinality(KeptBy(g)') = Cardinality(KeptBy(g)) - 1
  BY FS_RemoveElement DEF IInv, BlocksInv, Parts
<1>5. KeptBy(g)' = {} <=> KeptBy(g) = {w}
  BY DEF Parts
<1>6. BlocksInv'
  BY <1>1, <1>3, <1>4, <1>5 DEF IInv, TypeOK, BlocksInv, Parts
<1>7. OwnersOf[owned[g]] = KeptBy(g)
  BY <1>1, OwnersLemma DEF IInv
<1>8. OwnersOf' = [OwnersOf EXCEPT ![owned[g]] = OwnersOf[owned[g]] \ {w}]
  BY <1>1, <1>6, <1>7, OwnersChange DEF Parts
<1>9. Promise!Release(owned[g], w)
  BY <1>3, <1>7, <1>8 DEF Promise!Release, Promise!Become, Parts
<1> QED
  BY <1>1, <1>2, <1>3, <1>6, <1>9 DEF IInv, TypeOK

\* No block is touched, nor the status of an object that has one.
LEMMA NobodyLemma ==
  ASSUME IInv, NobodyMoves, UNCHANGED <<owned, uses>>,
         \A g \in Blocks : owned[g] # None => status'[owned[g]] = status[owned[g]]
  PROVE  /\ BlocksInv'
         /\ OwnersOf' = OwnersOf
<1>1. BlocksInv'
  BY DEF IInv, BlocksInv, NobodyMoves
<1>2. OwnersOf' = OwnersOf
  BY DEF OwnersOf, NobodyMoves
<1> QED
  BY <1>1, <1>2

\* How the boxes, the program and the call bring these about.
LEMMA BoxMade ==
  ASSUME IInv, NEW b \in Boxes, NEW c \in Classes, NEW x, NEW kind \in {"smart", "raw"},
         ToLua(b, kind, c, x), UNCHANGED program,
         kind = "smart" => x \in Blocks,
         kind = "raw" => x \in Objects \cup {Slot(a) : a \in Boxes}
  PROVE  /\ boxes' \in [Boxes -> Box]
         /\ reachable' \subseteq {a \in Boxes : boxes'[a] # Free}
         /\ kind = "smart" => Joins(x, b)
         /\ kind = "raw" => NobodyMoves
<1>1. boxes' = [boxes EXCEPT ![b] = [kind |-> kind, class |-> c, of |-> x]]
  BY DEF ToLua
<1>2. [kind |-> kind, class |-> c, of |-> x] \in Box
  BY DEF Box
<1>3. boxes' \in [Boxes -> Box]
  BY <1>1, <1>2 DEF IInv, TypeOK
<1>4. [kind |-> kind, class |-> c, of |-> x] # Free
  BY DEF Free
<1>5. reachable' \subseteq {a \in Boxes : boxes'[a] # Free}
  BY <1>1, <1>4 DEF ToLua, IInv, TypeOK
<1>6. /\ ~Smart(b) /\ \A a \in Boxes \ {b} : boxes'[a] = boxes[a]
      /\ boxes'[b].kind = kind /\ boxes'[b].of = x
      /\ b \notin {"program", "call"}
      /\ call' = call /\ program' = program
  BY <1>1, ObjectsAssumption DEF ToLua, Free, Smart, IInv, TypeOK
<1>7. ASSUME kind = "smart" PROVE Joins(x, b)
  BY <1>6, <1>7 DEF Joins, KeptBy, Smart
<1>8. ASSUME kind = "raw" PROVE NobodyMoves
  BY <1>6, <1>8 DEF NobodyMoves, KeptBy, Smart
<1> QED
  BY <1>3, <1>5, <1>7, <1>8

LEMMA ProgramTakes ==
  ASSUME IInv, NEW g \in Blocks, g \notin program, program' = program \cup {g},
         UNCHANGED <<boxes, call>>
  PROVE  Joins(g, "program")
BY ObjectsAssumption DEF Joins, KeptBy, Smart

LEMMA ProgramDrops ==
  ASSUME IInv, NEW g \in program, program' = program \ {g}, UNCHANGED <<boxes, call>>
  PROVE  Parts(g, "program")
BY ObjectsAssumption DEF Parts, KeptBy, Smart, IInv, TypeOK

LEMMA Standing ==
  ASSUME UNCHANGED <<boxes, program, call>>
  PROVE  NobodyMoves
BY DEF NobodyMoves, KeptBy, Smart

LEMMA CollectParts ==
  ASSUME IInv, NEW b \in Boxes, boxes[b] # Free, boxes' = [boxes EXCEPT ![b] = Free],
         UNCHANGED <<program, call>>
  PROVE  /\ Smart(b) => \E g \in Blocks : g = boxes[b].of /\ Parts(g, b)
         /\ ~Smart(b) => NobodyMoves
<1>1. /\ ~(boxes'[b].kind = "smart") /\ b \notin {"program", "call"}
      /\ \A a \in Boxes \ {b} : boxes'[a] = boxes[a]
  BY ObjectsAssumption DEF Free, IInv, TypeOK
<1>2. Smart(b) => boxes[b].of \in Blocks
  BY DEF Smart, IInv, TypeOK, Box, Free
<1>3. ASSUME NEW h \in Blocks PROVE KeptBy(h)' = {w \in KeptBy(h) : w # b}
  BY <1>1 DEF KeptBy, Smart
<1>4. \A h \in Blocks : b \in KeptBy(h) <=> Smart(b) /\ boxes[b].of = h
  BY <1>1 DEF KeptBy
<1>5. ASSUME Smart(b) PROVE \E g \in Blocks : g = boxes[b].of /\ Parts(g, b)
  <2>1. PICK g \in Blocks : g = boxes[b].of
    BY <1>2, <1>5
  <2> QED
    BY <1>3, <1>4, <1>5, <2>1 DEF Parts
<1>6. ASSUME ~Smart(b) PROVE NobodyMoves
  BY <1>3, <1>4, <1>6 DEF NobodyMoves
<1> QED
  BY <1>2, <1>5, <1>6

(***************************************************************************)
(* Each step keeps the invariant and is one that Ownership allows.         *)
(***************************************************************************)

Promised == [Promise!Next]_(Promise!vars)

\* A block in use stays the block of its object.
LEMMA CallStays ==
  ASSUME IInv, UNCHANGED call, \A h \in Blocks : owned[h] # None => owned'[h] = owned[h]
  PROVE  CallInv'
<1>1. ASSUME call.block \in Blocks PROVE owned[call.block] # None
  BY <1>1 DEF IInv, BlocksInv, KeptBy
<1> QED
  BY <1>1 DEF IInv, CallInv

\* One object gets a first owner, or more, or loses one.
LEMMA PromisedLemma ==
  ASSUME NEW o \in Objects, NEW w \in Keepers,
         \/ Promise!Appear(o) \/ Promise!Vanish(o) \/ Promise!Delete(o)
         \/ Promise!Create(o, w) \/ Promise!Own(o, w) \/ Promise!Release(o, w)
  PROVE  Promised
BY DEF Promised, Promise!Next

LEMMA MakeSharedStep ==
  ASSUME IInv, NEW o \in Objects, NEW g \in Blocks, MakeShared(o, g)
  PROVE  IInv' /\ Promised
<1>1. /\ status[o] = "none" /\ status' = [status EXCEPT ![o] = "alive"] /\ Shared(o, g)
      /\ program' = program \cup {g} /\ UNCHANGED <<luaVars, call>>
      /\ "program" \in Keepers
  BY DEF MakeShared, Born, Keepers
<1>2. /\ \A h \in Blocks : owned[h] # o
      /\ owned[g] = None /\ g \notin program
  BY <1>1, ObjectsAssumption DEF IInv, BlocksInv, Shared, KeptBy
<1>3. Joins(g, "program")
  BY <1>1, <1>2, ProgramTakes DEF luaVars
<1>4. BlocksInv' /\ OwnersOf' = [OwnersOf EXCEPT ![o] = {"program"}]
  BY <1>1, <1>2, <1>3, SharedLemma
<1>5. TypeOK'
  BY <1>1 DEF IInv, TypeOK, Shared, luaVars
<1>6. CallInv'
  BY <1>1, <1>2, CallStays DEF IInv, TypeOK, Shared
<1>7. Promise!Create(o, "program")
  BY <1>1, <1>4 DEF Promise!Create, Promise!Become
<1> QED
  BY <1>1, <1>4, <1>5, <1>6, <1>7, PromisedLemma DEF IInv

LEMMA ConstructStep ==
  ASSUME IInv, NEW o \in Objects, NEW g \in Blocks, NEW b \in Boxes, Construct(o, g, b)
  PROVE  IInv' /\ Promised
<1>1. /\ status[o] = "none" /\ status' = [status EXCEPT ![o] = "alive"] /\ Shared(o, g)
      /\ ToLua(b, "smart", ClassOf[o], g) /\ ClassOf[o] \in Classes
      /\ UNCHANGED <<program, call, closed>> /\ b \in Keepers
  BY ObjectsAssumption DEF Construct, Born, ToLua, Keepers
<1>2. (\A h \in Blocks : owned[h] # o) /\ owned[g] = None
  BY <1>1, ObjectsAssumption DEF IInv, BlocksInv, Shared
<1>3. /\ Joins(g, b) /\ boxes' \in [Boxes -> Box]
      /\ reachable' \subseteq {a \in Boxes : boxes'[a] # Free}
  BY <1>1, BoxMade
<1>4. BlocksInv' /\ OwnersOf' = [OwnersOf EXCEPT ![o] = {b}]
  BY <1>1, <1>2, <1>3, SharedLemma
<1>5. TypeOK'
  BY <1>1, <1>3 DEF IInv, TypeOK, Shared
<1>6. CallInv'
  BY <1>1, <1>2, CallStays DEF IInv, TypeOK, Shared
<1>7. Promise!Create(o, b)
  BY <1>1, <1>4 DEF Promise!Create, Promise!Become
<1> QED
  BY <1>1, <1>4, <1>5, <1>6, <1>7, PromisedLemma DEF IInv

LEMMA GiveOwnedStep ==
  ASSUME IInv, NEW o \in Objects, NEW g \in Blocks, NEW b \in Boxes, NEW c \in Classes,
         GiveOwned(o, g, b, c)
  PROVE  IInv' /\ Promised
<1>1. /\ status[o] = "alive" /\ status' = [status EXCEPT ![o] = "alive"] /\ Shared(o, g)
      /\ ToLua(b, "smart", c, g) /\ (\A h \in Blocks : owned[h] # o)
      /\ UNCHANGED <<program, call, closed>> /\ b \in Keepers
  BY DEF GiveOwned, Unowned, ToLua, Keepers, IInv, TypeOK
<1>2. owned[g] = None
  BY <1>1 DEF Shared
<1>3. /\ Joins(g, b) /\ boxes' \in [Boxes -> Box]
      /\ reachable' \subseteq {a \in Boxes : boxes'[a] # Free}
  BY <1>1, BoxMade
<1>4. BlocksInv' /\ OwnersOf' = [OwnersOf EXCEPT ![o] = {b}]
  BY <1>1, <1>3, SharedLemma
<1>5. TypeOK'
  BY <1>1, <1>3 DEF IInv, TypeOK, Shared
<1>6. CallInv'
  BY <1>1, <1>2, CallStays DEF IInv, TypeOK, Shared
<1>7. OwnersOf[o] = {}
  BY <1>1, OwnersLemma DEF IInv
<1>8. Promise!Own(o, b)
  BY <1>1, <1>4, <1>7 DEF Promise!Own, Promise!Become
<1> QED
  BY <1>1, <1>4, <1>5, <1>6, <1>8, PromisedLemma DEF IInv

\* A new owner of a block that has one.
LEMMA CopiedStep ==
  ASSUME IInv, NEW g \in Blocks, NEW w \in Keepers, KeptBy(g) # {}, Copied(g), Joins(g, w)
  PROVE  /\ BlocksInv' /\ Promised /\ UNCHANGED <<owned, status>>
         /\ uses' \in [Blocks -> Nat]
<1>1. owned[g] # None
  BY DEF IInv, BlocksInv
<1>2. uses' \in [Blocks -> Nat] /\ UNCHANGED <<owned, status>>
  BY DEF Copied, IInv, TypeOK
<1> QED
  BY <1>1, <1>2, CopiedLemma, PromisedLemma

LEMMA KeepStep == ASSUME IInv, Keep PROVE IInv' /\ Promised
<1>1. PICK g \in Blocks \ program : g = call.block
  BY DEF Keep
<1>2. /\ Copied(g) /\ program' = program \cup {g} /\ UNCHANGED <<luaVars, call>>
      /\ "program" \in Keepers
  BY <1>1 DEF Keep, Keepers
<1>3. KeptBy(g) # {}
  BY <1>1 DEF KeptBy
<1>4. Joins(g, "program")
  BY <1>1, <1>2, ProgramTakes DEF luaVars
<1>5. /\ BlocksInv' /\ Promised /\ UNCHANGED <<owned, status>>
      /\ uses' \in [Blocks -> Nat]
  BY <1>2, <1>3, <1>4, CopiedStep
<1>6. TypeOK'
  BY <1>1, <1>2, <1>5 DEF IInv, TypeOK, luaVars
<1> QED
  BY <1>2, <1>5, <1>6, CallStays DEF IInv

\* A box shares a block that has an owner.
LEMMA ShareStep ==
  ASSUME IInv, NEW g \in Blocks, NEW b \in Boxes, NEW c \in Classes, KeptBy(g) # {},
         Copied(g), ToLua(b, "smart", c, g), UNCHANGED program
  PROVE  IInv' /\ Promised
<1>1. b \in Keepers /\ UNCHANGED <<program, call, closed>>
  BY DEF Keepers, ToLua
<1>2. /\ Joins(g, b) /\ boxes' \in [Boxes -> Box]
      /\ reachable' \subseteq {a \in Boxes : boxes'[a] # Free}
  BY BoxMade
<1>3. /\ BlocksInv' /\ Promised /\ UNCHANGED <<owned, status>>
      /\ uses' \in [Blocks -> Nat]
  BY <1>1, <1>2, CopiedStep
<1>4. TypeOK'
  BY <1>1, <1>2, <1>3 DEF IInv, TypeOK
<1> QED
  BY <1>1, <1>3, <1>4, CallStays DEF IInv

LEMMA GiveSharedStep ==
  ASSUME IInv, NEW g \in Blocks, NEW b \in Boxes, NEW c \in Classes, GiveShared(g, b, c)
  PROVE  IInv' /\ Promised
<1>1. KeptBy(g) # {}
  BY DEF GiveShared, KeptBy
<1> QED
  BY <1>1, ShareStep DEF GiveShared

\* A box gets a plain pointer: no block is concerned.
LEMMA RawStep ==
  ASSUME IInv, NEW b \in Boxes, NEW c \in Classes,
         NEW x \in Objects \cup {Slot(a) : a \in Boxes}, ToLua(b, "raw", c, x),
         UNCHANGED blockVars
  PROVE  /\ NobodyMoves /\ boxes' \in [Boxes -> Box]
         /\ reachable' \subseteq {a \in Boxes : boxes'[a] # Free}
         /\ CallInv' /\ UNCHANGED <<owned, uses, program, call, closed>>
<1>1. /\ NobodyMoves /\ boxes' \in [Boxes -> Box]
      /\ reachable' \subseteq {a \in Boxes : boxes'[a] # Free}
  BY BoxMade DEF blockVars
<1>2. UNCHANGED <<owned, uses, program, call, closed>>
  BY DEF ToLua, blockVars
<1> QED
  BY <1>1, <1>2, CallStays

LEMMA StutterPromised == ASSUME OwnersOf' = OwnersOf, UNCHANGED status PROVE Promised
BY DEF Promised, Promise!vars

LEMMA GiveRawStep ==
  ASSUME IInv, NEW o \in Objects, NEW b \in Boxes, NEW c \in Classes, GiveRaw(o, b, c)
  PROVE  IInv' /\ Promised
<1>1. /\ ToLua(b, "raw", c, o) /\ UNCHANGED <<blockVars, status>>
  BY DEF GiveRaw
<1>2. /\ NobodyMoves /\ boxes' \in [Boxes -> Box]
      /\ reachable' \subseteq {a \in Boxes : boxes'[a] # Free}
      /\ CallInv' /\ UNCHANGED <<owned, uses, program, call, closed>>
  BY <1>1, RawStep
<1>3. BlocksInv' /\ OwnersOf' = OwnersOf
  BY <1>1, <1>2, NobodyLemma
<1>4. TypeOK'
  BY <1>1, <1>2 DEF IInv, TypeOK
<1> QED
  BY <1>1, <1>2, <1>3, <1>4, StutterPromised DEF IInv

LEMMA GiveValueStep ==
  ASSUME IInv, NEW o \in Objects, NEW b \in Boxes, GiveValue(o, b)
  PROVE  IInv' /\ Promised
<1>1. /\ status[o] = "none" /\ status' = [status EXCEPT ![o] = "gone"]
      /\ ToLua(b, "raw", ClassOf[o], o) /\ ClassOf[o] \in Classes /\ UNCHANGED blockVars
  BY ObjectsAssumption DEF GiveValue
<1>2. /\ NobodyMoves /\ boxes' \in [Boxes -> Box]
      /\ reachable' \subseteq {a \in Boxes : boxes'[a] # Free}
      /\ CallInv' /\ UNCHANGED <<owned, uses, program, call, closed>>
  BY <1>1, RawStep
<1>3. \A h \in Blocks : owned[h] # o
  BY <1>1, ObjectsAssumption DEF IInv, BlocksInv
<1>4. BlocksInv' /\ OwnersOf' = OwnersOf
  BY <1>1, <1>2, <1>3, NobodyLemma DEF IInv, TypeOK
<1>5. TypeOK'
  BY <1>1, <1>2 DEF IInv, TypeOK
<1>6. OwnersOf[o] = {}
  BY <1>3, OwnersLemma DEF IInv
<1>7. Promise!Vanish(o)
  BY <1>1, <1>4, <1>6 DEF Promise!Vanish, Promise!Become, OwnersOf
<1> QED
  BY <1>2, <1>4, <1>5, <1>7 DEF IInv, Promised, Promise!Next

LEMMA CastToStep ==
  ASSUME IInv, NEW a \in Boxes, NEW b \in Boxes, NEW c \in Classes, CastTo(a, b, c)
  PROVE  IInv' /\ Promised
<1>1. boxes[a] # Free /\ UNCHANGED program
  BY DEF CastTo, IInv, TypeOK
<1>2. CASE Smart(a)
  <2>1. PICK g \in Blocks : g = boxes[a].of
    BY <1>1, <1>2 DEF Smart, IInv, TypeOK, Box, Free
  <2>2. Copied(g) /\ ToLua(b, "smart", c, g)
    BY <1>2, <2>1 DEF CastTo, CastShared
  <2>3. KeptBy(g) # {}
    BY <1>2, <2>1 DEF KeptBy
  <2> QED
    BY <1>1, <2>2, <2>3, ShareStep
<1>3. CASE ~Smart(a)
  <2>1. ToLua(b, "raw", c, Slot(a)) /\ UNCHANGED <<owned, uses, status, program>>
    BY <1>1, <1>3 DEF CastTo, CastRaw
  <2>2. /\ NobodyMoves /\ boxes' \in [Boxes -> Box]
        /\ reachable' \subseteq {d \in Boxes : boxes'[d] # Free}
        /\ CallInv' /\ UNCHANGED <<owned, uses, program, call, closed>>
    BY <2>1, RawStep DEF blockVars
  <2>3. BlocksInv' /\ OwnersOf' = OwnersOf
    BY <2>1, <2>2, NobodyLemma
  <2>4. TypeOK'
    BY <2>1, <2>2 DEF IInv, TypeOK
  <2> QED
    BY <2>1, <2>2, <2>3, <2>4, StutterPromised DEF IInv
<1> QED
  BY <1>2, <1>3

LEMMA NewStep == ASSUME IInv, NEW o \in Objects, New(o) PROVE IInv' /\ Promised
<1>1. /\ status[o] = "none" /\ status' = [status EXCEPT ![o] = "alive"]
      /\ UNCHANGED <<blockVars, luaVars, call>>
  BY DEF New, Born
<1>2. \A h \in Blocks : owned[h] # o
  BY <1>1, ObjectsAssumption DEF IInv, BlocksInv
<1>3. BlocksInv' /\ OwnersOf' = OwnersOf
  BY <1>1, <1>2, Standing, NobodyLemma DEF IInv, TypeOK, blockVars, luaVars
<1>4. TypeOK' /\ CallInv'
  BY <1>1, CallStays DEF IInv, TypeOK, blockVars, luaVars
<1>5. OwnersOf[o] = {}
  BY <1>2, OwnersLemma DEF IInv
<1>6. Promise!Appear(o)
  BY <1>1, <1>3, <1>5 DEF Promise!Appear, Promise!Become, OwnersOf
<1> QED
  BY <1>3, <1>4, <1>6 DEF IInv, Promised, Promise!Next

LEMMA DeleteStep == ASSUME IInv, NEW o \in Objects, Delete(o) PROVE IInv' /\ Promised
<1>1. /\ status[o] = "alive" /\ status' = [status EXCEPT ![o] = "gone"]
      /\ (\A h \in Blocks : owned[h] # o) /\ UNCHANGED <<blockVars, luaVars, call>>
  BY DEF Delete, Unowned
<1>2. BlocksInv' /\ OwnersOf' = OwnersOf
  BY <1>1, Standing, NobodyLemma DEF IInv, TypeOK, blockVars, luaVars
<1>3. TypeOK' /\ CallInv'
  BY <1>1, CallStays DEF IInv, TypeOK, blockVars, luaVars
<1>4. OwnersOf[o] = {}
  BY <1>1, OwnersLemma DEF IInv
<1>5. Promise!Delete(o)
  BY <1>1, <1>2, <1>4 DEF Promise!Delete, Promise!Become, OwnersOf
<1> QED
  BY <1>2, <1>3, <1>5 DEF IInv, Promised, Promise!Next

\* An owner of a block lets it go.
LEMMA DroppedStep ==
  ASSUME IInv, NEW g \in Blocks, NEW w \in Keepers, Dropped(g), Parts(g, w)
  PROVE  /\ BlocksInv' /\ Promised /\ UNCHANGED owned
         /\ uses' \in [Blocks -> Nat]
         /\ status' \in [Objects -> {"none", "alive", "gone"}]
<1>1. UNCHANGED owned
  BY DEF Dropped
<1> QED
  BY <1>1, DroppedLemma, PromisedLemma

LEMMA DropStep == ASSUME IInv, NEW g \in Blocks, Drop(g) PROVE IInv' /\ Promised
<1>1. /\ g \in program /\ Dropped(g) /\ program' = program \ {g}
      /\ UNCHANGED <<luaVars, call>> /\ "program" \in Keepers
  BY DEF Drop, Keepers
<1>2. Parts(g, "program")
  BY <1>1, ProgramDrops DEF luaVars
<1>3. /\ BlocksInv' /\ Promised /\ UNCHANGED owned
      /\ uses' \in [Blocks -> Nat]
      /\ status' \in [Objects -> {"none", "alive", "gone"}]
  BY <1>1, <1>2, DroppedStep
<1>4. TypeOK' /\ CallInv'
  BY <1>1, <1>3, CallStays DEF IInv, TypeOK, luaVars
<1> QED
  BY <1>3, <1>4 DEF IInv

LEMMA CollectStep == ASSUME IInv, NEW b \in Boxes, Collect(b) PROVE IInv' /\ Promised
<1>1. /\ boxes[b] # Free /\ b \notin reachable /\ Finalized(b)
      /\ boxes' = [boxes EXCEPT ![b] = Free]
      /\ UNCHANGED <<program, reachable, call, closed>> /\ b \in Keepers
  BY DEF Collect, Keepers
<1>2. /\ boxes' \in [Boxes -> Box]
      /\ reachable' \subseteq {a \in Boxes : boxes'[a] # Free}
  BY <1>1 DEF IInv, TypeOK, Box
<1>3. CASE Smart(b)
  <2>1. PICK g \in Blocks : g = boxes[b].of /\ Parts(g, b)
    BY <1>1, <1>3, CollectParts
  <2>2. Dropped(g)
    BY <1>1, <1>3, <2>1 DEF Finalized
  <2>3. /\ BlocksInv' /\ Promised /\ UNCHANGED owned
        /\ uses' \in [Blocks -> Nat]
        /\ status' \in [Objects -> {"none", "alive", "gone"}]
    BY <1>1, <2>1, <2>2, DroppedStep
  <2>4. TypeOK' /\ CallInv'
    BY <1>1, <1>2, <2>3, CallStays DEF IInv, TypeOK
  <2> QED
    BY <2>3, <2>4 DEF IInv
<1>4. CASE ~Smart(b)
  <2>1. NobodyMoves /\ UNCHANGED <<owned, uses, status>>
    BY <1>1, <1>4, CollectParts DEF Finalized
  <2>2. BlocksInv' /\ OwnersOf' = OwnersOf
    BY <2>1, NobodyLemma
  <2>3. TypeOK' /\ CallInv'
    BY <1>1, <1>2, <2>1, CallStays DEF IInv, TypeOK
  <2> QED
    BY <2>1, <2>2, <2>3, StutterPromised DEF IInv
<1> QED
  BY <1>3, <1>4

\* What changes nothing of objects and their owners.
LEMMA QuietStep ==
  ASSUME IInv, UNCHANGED <<status, blockVars, boxes, call>>, TypeOK'
  PROVE  IInv' /\ Promised
<1>1. UNCHANGED <<status, owned, uses, program, boxes, call>>
  BY DEF blockVars
<1>2. BlocksInv' /\ OwnersOf' = OwnersOf
  BY <1>1, Standing, NobodyLemma
<1>3. CallInv'
  BY <1>1, CallStays
<1> QED
  BY <1>1, <1>2, <1>3, StutterPromised DEF IInv

\* The call gets a copy of the block g, if it gets any.
LEMMA EnterStep ==
  ASSUME IInv, NEW b \in Boxes, NEW self \in BOOLEAN, Enter(b, self)
  PROVE  IInv' /\ Promised
<1>1. /\ call = Idle /\ boxes[b] # Free /\ ObjectOf(b) \in Objects
      /\ call' = Borrowed(b, self) /\ UNCHANGED <<program, boxes, reachable, closed>>
  BY DEF Enter, Running, luaVars, IInv, TypeOK
<1>2. /\ Smart(b) => boxes[b].of \in Blocks /\ ObjectOf(b) = owned[boxes[b].of]
      /\ call.block = None
      /\ call'.block = IF Smart(b) /\ ~self THEN boxes[b].of ELSE None
      /\ call'.object = ObjectOf(b) /\ call'.self = self /\ call'.smart = Smart(b)
  BY <1>1 DEF Smart, ObjectOf, Borrowed, Idle, IInv, TypeOK, Box, Free
<1>3. call' \in [object : Objects \cup {None}, block : Blocks \cup {None},
                 box : Boxes \cup {None}, self : BOOLEAN, smart : BOOLEAN]
  <2>1. Smart(b) \in BOOLEAN
    BY DEF Smart
  <2>2. (IF Smart(b) /\ ~self THEN boxes[b].of ELSE None) \in Blocks \cup {None}
    BY <1>2
  <2>3. (IF self THEN None ELSE b) \in Boxes \cup {None}
    OBVIOUS
  <2> QED
    BY <1>1, <2>1, <2>2, <2>3 DEF Borrowed
<1>4. CASE Smart(b) /\ ~self
  <2>1. PICK g \in Blocks : g = boxes[b].of
    BY <1>2, <1>4
  <2>2. Copied(g) /\ call'.block = g
    BY <1>2, <1>4, <2>1, ObjectsAssumption DEF Enter
  <2>3. KeptBy(g) # {} /\ "call" \in Keepers
    BY <1>4, <2>1 DEF KeptBy, Keepers
  <2>4. Joins(g, "call")
    BY <1>1, <1>2, <2>2, ObjectsAssumption DEF Joins, KeptBy, Smart
  <2>5. /\ BlocksInv' /\ Promised /\ UNCHANGED <<owned, status>>
        /\ uses' \in [Blocks -> Nat]
    BY <2>2, <2>3, <2>4, CopiedStep
  <2>6. TypeOK'
    BY <1>1, <1>3, <2>5 DEF IInv, TypeOK
  <2>7. CallInv'
    BY <1>2, <1>4, <2>1, <2>2, <2>5 DEF CallInv
  <2> QED
    BY <2>5, <2>6, <2>7 DEF IInv
<1>5. CASE ~(Smart(b) /\ ~self)
  <2>1. call'.block = None /\ UNCHANGED <<owned, uses, status>>
    BY <1>2, <1>5 DEF Enter
  <2>2. NobodyMoves
    BY <1>1, <1>2, <2>1, ObjectsAssumption DEF NobodyMoves, KeptBy, Smart
  <2>3. BlocksInv' /\ OwnersOf' = OwnersOf
    BY <2>1, <2>2, NobodyLemma
  <2>4. TypeOK' /\ CallInv'
    BY <1>1, <1>2, <1>3, <1>5, <2>1 DEF IInv, TypeOK, CallInv
  <2> QED
    BY <2>1, <2>3, <2>4, StutterPromised DEF IInv
<1> QED
  BY <1>4, <1>5

LEMMA LeaveStep == ASSUME IInv, Leave PROVE IInv' /\ Promised
<1>1. call' = Idle /\ UNCHANGED <<program, boxes, reachable, closed>>
  BY DEF Leave, luaVars
<1>2. /\ call' \in [object : Objects \cup {None}, block : Blocks \cup {None},
                    box : Boxes \cup {None}, self : BOOLEAN, smart : BOOLEAN]
      /\ call'.block = None /\ CallInv'
  BY <1>1 DEF Idle, CallInv
<1>3. CASE call.block = None
  <2>1. NobodyMoves /\ UNCHANGED <<owned, uses, status>>
    BY <1>1, <1>2, <1>3, ObjectsAssumption DEF Leave, NobodyMoves, KeptBy, Smart
  <2>2. BlocksInv' /\ OwnersOf' = OwnersOf
    BY <2>1, NobodyLemma
  <2>3. TypeOK'
    BY <1>1, <1>2, <2>1 DEF IInv, TypeOK
  <2> QED
    BY <1>2, <2>1, <2>2, <2>3, StutterPromised DEF IInv
<1>4. CASE call.block # None
  <2>1. PICK g \in Blocks : g = call.block
    BY <1>4 DEF IInv, TypeOK
  <2>2. Dropped(g) /\ "call" \in Keepers
    BY <1>4, <2>1 DEF Leave, Keepers
  <2>3. Parts(g, "call")
    BY <1>1, <1>2, <2>1, ObjectsAssumption DEF Parts, KeptBy, Smart
  <2>4. /\ BlocksInv' /\ Promised /\ UNCHANGED owned
        /\ uses' \in [Blocks -> Nat]
        /\ status' \in [Objects -> {"none", "alive", "gone"}]
    BY <2>2, <2>3, DroppedStep
  <2>5. TypeOK'
    BY <1>1, <1>2, <2>4 DEF IInv, TypeOK
  <2> QED
    BY <1>2, <2>4, <2>5 DEF IInv
<1> QED
  BY <1>3, <1>4

LEMMA ForgetStep == ASSUME IInv, NEW b \in Boxes, Forget(b) PROVE IInv' /\ Promised
<1>1. TypeOK'
  BY DEF Forget, IInv, TypeOK, blockVars
<1> QED
  BY <1>1, QuietStep DEF Forget

LEMMA CloseStep == ASSUME IInv, Close PROVE IInv' /\ Promised
<1>1. TypeOK'
  BY DEF Close, IInv, TypeOK, blockVars
<1> QED
  BY <1>1, QuietStep DEF Close

LEMMA NextLemma == IInv /\ [Next]_vars => IInv' /\ Promised
<1> SUFFICES ASSUME IInv, [Next]_vars PROVE IInv' /\ Promised
  OBVIOUS
<1>1. CASE \E o \in Objects : New(o) \/ Delete(o) \/ \E g \in Blocks : MakeShared(o, g)
  BY <1>1, NewStep, DeleteStep, MakeSharedStep
<1>2. CASE \E g \in Blocks : Drop(g)
  BY <1>2, DropStep
<1>3. CASE Keep \/ Leave \/ Close
  BY <1>3, KeepStep, LeaveStep, CloseStep
<1>4. CASE \E b \in Boxes :
             Forget(b) \/ Collect(b) \/ \E self \in BOOLEAN : Enter(b, self)
  BY <1>4, ForgetStep, CollectStep, EnterStep
<1>5. CASE \E o \in Objects, b \in Boxes :
             \/ GiveValue(o, b) \/ \E g \in Blocks : Construct(o, g, b)
             \/ \E c \in Classes : GiveRaw(o, b, c) \/ \E g \in Blocks : GiveOwned(o, g, b, c)
  BY <1>5, GiveValueStep, ConstructStep, GiveRawStep, GiveOwnedStep
<1>6. CASE \E b \in Boxes, c \in Classes :
             \/ \E g \in Blocks : GiveShared(g, b, c)
             \/ \E a \in Boxes : CastTo(a, b, c)
  BY <1>6, GiveSharedStep, CastToStep
<1>7. CASE UNCHANGED vars
  <2>1. UNCHANGED <<status, blockVars, boxes, reachable, call, closed>>
    BY <1>7 DEF vars, blockVars
  <2>2. TypeOK'
    BY <2>1 DEF IInv, TypeOK, blockVars
  <2> QED
    BY <2>1, <2>2, QuietStep
<1> QED
  BY <1>1, <1>2, <1>3, <1>4, <1>5, <1>6, <1>7 DEF Next

(***************************************************************************)
(* The theorems.                                                           *)
(***************************************************************************)

(* The inductive invariant holds in every state.                           *)
LEMMA InvariantHolds == Spec => []IInv
<1>1. IInv /\ [Next]_vars => IInv'
  BY NextLemma
<1> QED
  BY InitInv, <1>1, PTL DEF Spec

(* No count of a shared_ptr falls below zero, no object is destroyed twice *)
(* and no box that Lua can reach has been finalised.                       *)
THEOREM TypeCorrect == Spec => []TypeOK
<1>1. IInv => TypeOK
  BY DEF IInv
<1> QED
  BY InvariantHolds, <1>1, PTL

(* use_count() of a shared_ptr that boxes of Lua, C++ and a running call   *)
(* share is the number of those that hold it.                              *)
THEOREM CountsAreExact == Spec => []CountsExact
<1>1. IInv => CountsExact
  BY DEF IInv, BlocksInv, CountsExact
<1> QED
  BY InvariantHolds, <1>1, PTL

(* What a C++ function got from a shared_ptr of Lua is alive until the     *)
(* function returns, whatever the garbage collector and C++ do meanwhile.  *)
THEOREM ArgumentIsAlive == Spec => []ArgumentAlive
<1>1. IInv => ArgumentAlive
  <2> SUFFICES ASSUME IInv, call.smart, ~call.self PROVE status[call.object] = "alive"
    BY DEF ArgumentAlive
  <2>1. call.block \in Blocks /\ owned[call.block] = call.object
    BY DEF IInv, CallInv
  <2>2. KeptBy(call.block) # {}
    BY DEF KeptBy
  <2> QED
    BY <2>1, <2>2 DEF IInv, BlocksInv
<1> QED
  BY InvariantHolds, <1>1, PTL

(* The blocks, boxes and calls implement Ownership: an object lives as     *)
(* long as it has an owner, and goes with the last.                        *)
THEOREM ObjectsKeepPromise == Spec => KeepsPromise
<1>1. Init => Promise!Init
  <2> SUFFICES ASSUME Init PROVE Promise!Init
    OBVIOUS
  <2>1. OwnersOf = [o \in Objects |-> {}]
    <3>1. \A o \in Objects : {h \in Blocks : owned[h] = o} = {}
      BY ObjectsAssumption DEF Init
    <3>2. \A o \in Objects : UNION {KeptBy(g) : g \in {h \in Blocks : owned[h] = o}} = {}
      BY <3>1
    <3> QED
      BY <3>2 DEF OwnersOf
  <2> QED
    BY <2>1 DEF Init, Promise!Init
<1>2. IInv /\ [Next]_vars => [Promise!Next]_(Promise!vars)
  BY NextLemma DEF Promised
<1> QED
  BY InvariantHolds, <1>1, <1>2, PTL DEF Spec, KeepsPromise, Promise!Spec

================================================================================
