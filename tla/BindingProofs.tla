----------------------------- MODULE BindingProofs -----------------------------
(***************************************************************************)
(* Proofs about Binding, for every set of bindables, sub-modules and types *)
(* and every order of their names.                                         *)
(***************************************************************************)
EXTENDS Binding, SequenceTheorems, TLAPS

(***************************************************************************)
(* The Lua stack.                                                          *)
(***************************************************************************)

\* Pushing one value.
LEMMA PushLemma ==
  ASSUME NEW S, NEW s \in Seq(S), NEW v \in S
  PROVE  /\ Append(s, v) \in Seq(S)
         /\ Len(Append(s, v)) = Len(s) + 1
         /\ Top(Append(s, v)) = v
BY DEF Top

\* Pushing the two values a sub-module works on when it is bound again.
LEMMA PushTwoLemma ==
  ASSUME NEW S, NEW s \in Seq(S), NEW u \in S, NEW v \in S
  PROVE  /\ s \o <<u, v>> \in Seq(S)
         /\ Len(s \o <<u, v>>) = Len(s) + 2
         /\ Top(s \o <<u, v>>) = v
<1>1. <<u, v>> \in Seq(S) /\ Len(<<u, v>>) = 2
  OBVIOUS
<1>2. Len(s) \in Nat
  BY LenProperties
<1>3. QED
  BY <1>1, <1>2, ConcatProperties DEF Top

\* Pushing the first table of a sub-module.
LEMMA PushOneLemma ==
  ASSUME NEW S, NEW s \in Seq(S), NEW v \in S
  PROVE  /\ s \o <<v>> \in Seq(S)
         /\ Len(s \o <<v>>) = Len(s) + 1
         /\ Top(s \o <<v>>) = v
<1>1. <<v>> \in Seq(S) /\ Len(<<v>>) = 1
  OBVIOUS
<1>2. Len(s) \in Nat
  BY LenProperties
<1>3. QED
  BY <1>1, <1>2, ConcatProperties DEF Top

\* Popping n values that are there.
LEMMA PopLemma ==
  ASSUME NEW S, NEW s \in Seq(S), NEW n \in Nat, n <= Len(s)
  PROVE  /\ SubSeq(s, 1, Len(s) - n) \in Seq(S)
         /\ Len(SubSeq(s, 1, Len(s) - n)) = Len(s) - n
<1>1. Len(s) \in Nat
  BY LenProperties
<1>2. \A i \in 1 .. Len(s) - n : s[i] \in S
  BY <1>1, ElementOfSeq
<1>3. QED
  BY <1>1, <1>2, SubSeqProperties

\* The top of a stack that is not empty.
LEMMA TopLemma ==
  ASSUME NEW S, NEW s \in Seq(S), s # << >>
  PROVE  Top(s) \in S /\ Len(s) \in Nat /\ Len(s) >= 1
BY EmptySeq, ElementOfSeq DEF Top

(***************************************************************************)
(* Type correctness, with the tables on the stack.                         *)
(***************************************************************************)

LEMMA InitTypes == Init => TypeOK /\ TablesInv
<1>1. << >> \in Seq(Values)
  OBVIOUS
<1> SUFFICES ASSUME Init
             PROVE  TypeOK /\ TablesInv
  OBVIOUS
<1>2. /\ status \in [Entries -> BOOLEAN]
      /\ binded \in [Subs -> BOOLEAN]
      /\ \A s \in Subs : ~binded[s]
      /\ links \in [Types \X Items -> Nat]
      /\ globals \in [Entries -> Values \cup {Nil}]
      /\ loaded \in [Subs -> Entries \cup {Nil}]
      /\ fields \in [Entries -> SUBSET Items]
      /\ index \in [Items -> Values \cup {Nil}]
  BY DEF Init
<1>3. TypeOK
  BY <1>1, <1>2 DEF Init, TypeOK
<1>4. TablesInv
  BY <1>2 DEF Init, TablesInv
<1>5. QED
  BY <1>3, <1>4

LEMMA MakeTypes ==
  ASSUME TypeOK, TablesInv, NEW i \in Items, Make(i)
  PROVE  TypeOK' /\ TablesInv'
<1>1. TypeOK'
  <2>1. held' \subseteq made' /\ made' \subseteq Items /\ subs' \subseteq Subs
    BY ItemsAssumption DEF TypeOK, Make, StatusAfterMake, SubsAfterMake
  <2>2. status' \in [Entries -> BOOLEAN]
    BY ItemsAssumption DEF TypeOK, Make, StatusAfterMake, SubsAfterMake, Entries
  <2>3. lookup' \subseteq Types
    BY ItemsAssumption DEF TypeOK, Make, StatusAfterMake, SubsAfterMake, LookupAfterMake
  <2>4. QED
    BY <2>1, <2>2, <2>3
      DEF TypeOK, Make, StatusAfterMake, SubsAfterMake, lua, loop, registry
<1>2. TablesInv'
  BY DEF TablesInv, Make, StatusAfterMake, SubsAfterMake, lua, loop
<1>3. QED
  BY <1>1, <1>2

LEMMA StartTypes ==
  ASSUME TypeOK, TablesInv, Start
  PROVE  TypeOK' /\ TablesInv'
<1>1. NeedToBind \subseteq Entries
  BY DEF TypeOK, NeedToBind, Entries
<1>2. /\ before' \subseteq Entries /\ position' \in Nat /\ binds' \in Nat
      /\ pc' \in {"idle", "root"} /\ result' \in BOOLEAN
  <2>1. before' \subseteq Entries /\ position' \in Nat /\ binds' \in Nat
    BY <1>1 DEF TypeOK, Start
  <2>2. CASE NeedToBind = {}
    BY <2>1, <2>2 DEF Start
  <2>3. CASE NeedToBind # {}
    <3>1. pc' = "root" /\ result' = result
      BY <2>3 DEF Start
    <3>2. QED
      BY <2>1, <3>1 DEF TypeOK
  <2>4. QED
    BY <2>2, <2>3
<1>3. TypeOK'
  BY <1>2 DEF TypeOK, Start, registry, lua
<1>4. TablesInv'
  BY DEF TablesInv, Start, registry, lua
<1>5. QED
  BY <1>3, <1>4

LEMMA PublishTypes ==
  ASSUME TypeOK, NEW i \in Items, Publish(i)
  PROVE  /\ status' \in [Entries -> BOOLEAN]
         /\ lookup' \subseteq Types
         /\ links' \in [Types \X Items -> Nat]
         /\ index' \in [Items -> Values \cup {Nil}]
<1>1. status' \in [Entries -> BOOLEAN]
  BY DEF TypeOK, Publish, Linked, IndexWith, Entries
<1>2. lookup' \subseteq Types
  BY ItemsAssumption DEF TypeOK, Publish, Linked, IndexWith
<1>3. links' \in [Types \X Items -> Nat]
  BY DEF TypeOK, Publish, Linked, IndexWith
<1>4. index' \in [Items -> Values \cup {Nil}]
  <2>1. \A b \in held : Symbol(b) \in Values \cup {Nil}
    BY DEF TypeOK, Symbol, Values, Entries
  <2>2. CASE \E t \in Types, b \in held : SingleBase(i, t) /\ Provides[b] = t
    <3>1. \E b \in held : {Provides[b]} = Needs[i]
      BY <2>2 DEF SingleBase
    <3>2. (CHOOSE b \in held : {Provides[b]} = Needs[i]) \in held
      BY <3>1
    <3>3. QED
      BY <2>1, <2>2, <3>2 DEF Publish, Linked, IndexWith, TypeOK
  <2>3. CASE ~\E t \in Types, b \in held : SingleBase(i, t) /\ Provides[b] = t
    BY <2>3 DEF Publish, Linked, IndexWith, TypeOK
  <2>4. QED
    BY <2>2, <2>3
<1>5. QED
  BY <1>1, <1>2, <1>3, <1>4

LEMMA RootItemTypes ==
  ASSUME TypeOK, TablesInv, NEW i \in Items, RootItem(i)
  PROVE  TypeOK' /\ TablesInv'
<1>1. Key[i] \in Nat
  BY ItemsAssumption DEF Entries
<1>2. TablesInv'
  BY DEF TablesInv, RootItem
<1>3. CASE Bind(i)
           /\ globals' = [globals EXCEPT ![i] = i]
           /\ UNCHANGED <<stack, fields>>
  <2>1. globals' \in [Entries -> Values \cup {Nil}]
    BY <1>3 DEF TypeOK, Entries, Values
  <2>2. QED
    BY <1>1, <1>2, <1>3, <2>1, PublishTypes DEF TypeOK, RootItem, registry, Bind
<1>4. CASE Fail(i)
  <2>1. stack' \in Seq(Values)
    BY <1>4, PushLemma DEF TypeOK, Fail, Values, Entries
  <2>2. QED
    BY <1>1, <1>2, <1>4, <2>1 DEF TypeOK, RootItem, Fail, registry
<1>5. QED
  BY <1>3, <1>4 DEF RootItem

LEMMA SubEnterTypes ==
  ASSUME TypeOK, TablesInv, NEW s \in Subs, SubEnter(s)
  PROVE  TypeOK' /\ TablesInv'
<1>1. Key[s] \in Nat
  BY ItemsAssumption DEF Entries
<1>2. s \in subs /\ ~status[s]
  <2>1. s \in Left(Root, position)
    BY DEF SubEnter, Opened, IsNext
  <2>2. s \notin held
    BY NamesAssumption DEF TypeOK
  <2>3. QED
    BY <2>1, <2>2 DEF Left, EntriesOf
<1>3. s \in Values /\ LoadedTable \in Values /\ s \in Entries
  BY DEF Values, Entries
<1>4. CASE binded[s]
  <2>1. loaded[s] \in Entries /\ loaded[s] \in Values
    BY <1>4 DEF TablesInv, Values
  <2>2. /\ stack' \in Seq(Values)
        /\ Len(stack') = Len(stack) + 2
        /\ Top(stack') = loaded[s]
    BY <1>3, <1>4, <2>1, PushTwoLemma DEF SubEnter, Opened, TypeOK
  <2>3. Len(stack) \in Nat
    BY LenProperties DEF TypeOK
  <2>4. TypeOK'
    BY <1>1, <2>2 DEF TypeOK, SubEnter, Opened, registry
  <2>5. TablesInv'
    BY <1>2, <1>4, <2>1, <2>2, <2>3 DEF TablesInv, SubEnter, Opened, registry, Top
  <2>6. QED
    BY <2>4, <2>5
<1>5. CASE ~binded[s]
  <2>1. /\ stack' \in Seq(Values)
        /\ Len(stack') = Len(stack) + 1
        /\ Top(stack') = s
    BY <1>3, <1>5, PushOneLemma DEF SubEnter, Opened, TypeOK
  <2>2. Len(stack) \in Nat
    BY LenProperties DEF TypeOK
  <2>3. TypeOK'
    BY <1>1, <2>1 DEF TypeOK, SubEnter, Opened, registry
  <2>4. TablesInv'
    BY <1>2, <1>3, <1>5, <2>1, <2>2 DEF TablesInv, SubEnter, Opened, registry, Top
  <2>5. QED
    BY <2>3, <2>4
<1>6. QED
  BY <1>4, <1>5

LEMMA SubItemTypes ==
  ASSUME TypeOK, TablesInv, NEW i \in Items, SubItem(i)
  PROVE  TypeOK' /\ TablesInv'
<1>1. Key[i] \in Nat
  BY ItemsAssumption DEF Entries
<1>2. current \in Subs /\ current # i
  BY NamesAssumption DEF TablesInv, SubItem, TypeOK
<1>3. CASE Bind(i)
           /\ fields' = [fields EXCEPT ![Top(stack)] = @ \cup {i}]
           /\ UNCHANGED <<stack, globals>>
  <2>1. fields' \in [Entries -> SUBSET Items]
    BY <1>3 DEF TypeOK
  <2>2. status'[current] = status[current]
    BY <1>2, <1>3 DEF Bind, Publish, Linked, IndexWith, TypeOK, Entries
  <2>3. TypeOK'
    BY <1>1, <1>3, <2>1, PublishTypes DEF TypeOK, SubItem, registry, Bind
  <2>4. TablesInv'
    BY <1>3, <2>2 DEF TablesInv, SubItem, registry, Top
  <2>5. QED
    BY <2>3, <2>4
<1>4. CASE Fail(i)
  <2>1. i \in Values /\ i \in Entries
    BY DEF Values, Entries
  <2>2. /\ stack' \in Seq(Values)
        /\ Len(stack') >= Len(stack)
        /\ Top(stack') \in Entries
    <3>1. Len(stack) \in Nat
      BY LenProperties DEF TypeOK
    <3>2. CASE Litter[i]
      BY <1>4, <2>1, <3>1, <3>2, PushLemma DEF TypeOK, Fail
    <3>3. CASE ~Litter[i]
      BY <1>4, <3>1, <3>3 DEF TypeOK, Fail, TablesInv, SubItem
    <3>4. QED
      BY <3>2, <3>3
  <2>3. TypeOK'
    BY <1>1, <1>4, <2>2 DEF TypeOK, SubItem, Fail, registry
  <2>4. Len(stack) \in Nat /\ Len(stack') \in Nat
    BY <2>2, LenProperties DEF TypeOK
  <2>5. TablesInv'
    BY <1>4, <2>2, <2>4 DEF TablesInv, SubItem, Fail, registry, Top
  <2>6. QED
    BY <2>3, <2>5
<1>5. QED
  BY <1>3, <1>4 DEF SubItem

LEMMA SubLeaveFirstTypes ==
  ASSUME TypeOK, TablesInv, SubLeaveFirst
  PROVE  TypeOK' /\ TablesInv'
<1>1. Top(stack) \in Entries /\ Top(stack) \in Values
  BY DEF TablesInv, SubLeaveFirst, Entered, Values
<1>2. TypeOK'
  BY <1>1 DEF TypeOK, SubLeaveFirst, Entered, registry
<1>3. TablesInv'
  BY <1>1 DEF TypeOK, TablesInv, SubLeaveFirst, Entered, registry
<1>4. QED
  BY <1>2, <1>3

LEMMA SubLeaveAgainTypes ==
  ASSUME TypeOK, TablesInv, SubLeaveAgain
  PROVE  TypeOK' /\ TablesInv'
<1> DEFINE rest == SubSeq(stack, 1, Len(stack) - 2)
<1>1. rest \in Seq(Values)
  BY PopLemma DEF TypeOK, TablesInv, SubLeaveAgain
<1>2. /\ stack' \in Seq(Values)
      /\ globals' \in [Entries -> Values \cup {Nil}]
      /\ underflow' \in BOOLEAN
  <2>1. CASE rest = << >>
    BY <2>1 DEF TypeOK, SubLeaveAgain
  <2>2. CASE rest # << >>
    <3>1. Top(rest) \in Values /\ Len(rest) \in Nat /\ Len(rest) >= 1
      BY <1>1, <2>2, TopLemma
    <3>2. SubSeq(rest, 1, Len(rest) - 1) \in Seq(Values)
      BY <1>1, <3>1, PopLemma
    <3>3. QED
      BY <2>2, <3>1, <3>2 DEF TypeOK, SubLeaveAgain
  <2>3. QED
    BY <2>1, <2>2
<1>3. status' \in [Entries -> BOOLEAN]
  BY DEF TypeOK, SubLeaveAgain
<1>4. TypeOK'
  BY <1>2, <1>3 DEF TypeOK, SubLeaveAgain, registry
<1>5. TablesInv'
  BY DEF TablesInv, SubLeaveAgain, registry
<1>6. QED
  BY <1>4, <1>5

LEMMA EndWalkTypes ==
  ASSUME TypeOK, TablesInv, EndWalk
  PROVE  TypeOK' /\ TablesInv'
<1>1. NeedToBind \subseteq Entries
  BY DEF TypeOK, NeedToBind, Entries
<1>2. TypeOK'
  BY <1>1 DEF TypeOK, EndWalk, GoesOn, registry, lua
<1>3. TablesInv'
  BY DEF TablesInv, EndWalk, GoesOn, registry, lua
<1>4. QED
  BY <1>2, <1>3

LEMMA PanicTypes ==
  ASSUME TypeOK, TablesInv, NEW i \in Items, Panic(i)
  PROVE  TypeOK' /\ TablesInv'
BY DEF Panic, TypeOK, TablesInv, registry, lua

LEMMA NextTypes == TypeOK /\ TablesInv /\ [Next]_vars => TypeOK' /\ TablesInv'
<1> SUFFICES ASSUME TypeOK, TablesInv, [Next]_vars
             PROVE  TypeOK' /\ TablesInv'
  OBVIOUS
<1>1. CASE \E i \in Items : Make(i)
  BY <1>1, MakeTypes
<1>2. CASE Start
  BY <1>2, StartTypes
<1>3. CASE \E i \in Items : RootItem(i)
  BY <1>3, RootItemTypes
<1>4. CASE \E i \in Items : SubItem(i)
  BY <1>4, SubItemTypes
<1>5. CASE \E s \in Subs : SubEnter(s)
  BY <1>5, SubEnterTypes
<1>6. CASE SubLeaveFirst
  BY <1>6, SubLeaveFirstTypes
<1>7. CASE SubLeaveAgain
  BY <1>7, SubLeaveAgainTypes
<1>8. CASE EndWalk
  BY <1>8, EndWalkTypes
<1>9. CASE \E i \in Items : Panic(i)
  BY <1>9, PanicTypes
<1>10. CASE UNCHANGED vars
  BY <1>10 DEF vars, registry, lua, loop, TypeOK, TablesInv, Top
<1>11. QED
  BY <1>1, <1>2, <1>3, <1>4, <1>5, <1>6, <1>7, <1>8, <1>9, <1>10
  DEF Next, BindStep

(* TypeOK holds for every program: whatever the names, the stack never     *)
(* holds anything but tables and values that were pushed on it.            *)
THEOREM TypeCorrect == Spec => []TypeOK
<1>1. Spec => [](TypeOK /\ TablesInv)
  BY InitTypes, NextTypes, PTL DEF Spec
<1>2. QED
  BY <1>1, PTL

(***************************************************************************)
(* Filing, the lookup and the links between classes.                       *)
(***************************************************************************)

ItemsInv == FilingInv /\ LookupExact /\ ClassesLinked

\* A bindable that is next in a map is filed there and not bound.
LEMMA NextItemLemma ==
  ASSUME TypeOK, NEW m, NEW p, NEW i \in Items, IsNext(i, m, p)
  PROVE  /\ i \in held /\ Module[i] = m /\ ~status[i] /\ Key[i] > p
         /\ i \in NeedToBind
<1>1. i \in Left(m, p)
  BY DEF IsNext
<1>2. i \notin subs
  BY NamesAssumption DEF TypeOK
<1>3. i \in held /\ Module[i] = m
  BY <1>1, <1>2 DEF Left, EntriesOf
<1>4. QED
  BY <1>1, <1>3 DEF Left, NeedToBind

\* Steps that touch no bindable keep what is said about bindables.
LEMMA ItemsFrameLemma ==
  ASSUME ItemsInv,
         UNCHANGED <<made, held, lookup, links>>,
         \A i \in Items : status'[i] = status[i],
         TypeOK
  PROVE  ItemsInv'
<1>1. FilingInv'
  BY DEF ItemsInv, FilingInv
<1>2. LookupExact'
  BY DEF ItemsInv, LookupExact, Dropped, TypeOK
<1>3. ClassesLinked'
  BY DEF ItemsInv, ClassesLinked, Dropped
<1>4. QED
  BY <1>1, <1>2, <1>3 DEF ItemsInv

LEMMA MakeItems ==
  ASSUME TypeOK, ItemsInv, NEW i \in Items, Make(i)
  PROVE  ItemsInv'
<1>1. i \notin held /\ ~status[i]
  BY DEF TypeOK, ItemsInv, FilingInv, Make, StatusAfterMake, SubsAfterMake
<1>2. \A j \in Items : status'[j] = status[j]
  <2>1. CASE Module[i] = Root
    BY <2>1 DEF Make, StatusAfterMake, SubsAfterMake
  <2>2. CASE Module[i] # Root
    <3>1. Module[i] \notin Items
      BY <2>2, NamesAssumption, ItemsAssumption
    <3>2. status' = [status EXCEPT ![Module[i]] = FALSE]
      BY <2>2 DEF Make, StatusAfterMake, SubsAfterMake
    <3>3. QED
      BY <3>1, <3>2 DEF TypeOK, Entries
  <2>3. QED
    BY <2>1, <2>2
<1>3. \A t : Dropped(t) => Dropped(t)'
  BY DEF Dropped, Make, StatusAfterMake, SubsAfterMake, Kept, TypeOK
<1>4. ~Kept(i) => Dropped(Provides[i])'
  BY <1>1 DEF Dropped, Make, StatusAfterMake, SubsAfterMake
<1>5. FilingInv'
  <2>1. \A j \in Items : status'[j] => j \in held'
    BY <1>2 DEF ItemsInv, FilingInv, Make, StatusAfterMake, SubsAfterMake
  <2>2. \A j, k \in held' : Module[j] = Module[k] /\ Key[j] = Key[k] => j = k
    BY DEF ItemsInv, FilingInv, Make, StatusAfterMake, SubsAfterMake, Kept
  <2>3. QED
    BY <2>1, <2>2 DEF FilingInv
<1>6. LookupExact'
  <2>1. \A t \in lookup' : \E j \in held' : Provides[j] = t
    BY DEF ItemsInv, LookupExact, Make, StatusAfterMake, SubsAfterMake, LookupAfterMake
  <2>2. ASSUME NEW j \in held', Kind[j] # "value", Provides[j] \in lookup'
        PROVE  Kind[j] = "enum" \/ status'[j]
    <3>1. CASE j = i
      <4>1. Kept(i)
        BY <1>1, <2>2, <3>1 DEF Make, StatusAfterMake, SubsAfterMake
      <4>2. SUFFICES ASSUME Kind[i] # "enum"
                     PROVE  FALSE
        BY <3>1
      <4>3. Provides[i] \in lookup
        BY <2>2, <3>1, <4>1, <4>2
          DEF Make, StatusAfterMake, SubsAfterMake, LookupAfterMake
      <4>4. PICK k \in held : Provides[k] = Provides[i]
        BY <4>3 DEF ItemsInv, LookupExact
      <4>5. k \in Items
        BY DEF TypeOK
      <4>6. Module[k] = Module[i] /\ Key[k] = Key[i]
        BY <2>2, <3>1, <4>4, <4>5, ProgramAssumption
      <4>7. QED
        BY <4>1, <4>4, <4>6 DEF Kept
    <3>2. CASE j # i
      <4>1. j \in held /\ j \in Items
        BY <3>2 DEF Make, StatusAfterMake, SubsAfterMake, TypeOK
      <4>2. CASE Provides[j] \in lookup
        BY <1>2, <2>2, <4>1, <4>2 DEF ItemsInv, LookupExact
      <4>3. CASE Provides[j] \notin lookup
        <5>1. Kind[i] = "enum" /\ Provides[i] = Provides[j] /\ Kept(i)
          BY <2>2, <4>3 DEF Make, StatusAfterMake, SubsAfterMake, LookupAfterMake
        <5>2. QED
          BY <2>2, <4>1, <5>1, ProgramAssumption
      <4>4. QED
        BY <4>2, <4>3
    <3>3. QED
      BY <3>1, <3>2
  <2>3. ASSUME NEW j \in held', Kind[j] # "value",
               Kind[j] = "enum" \/ status'[j]
        PROVE  Provides[j] \in lookup' \/ Dropped(Provides[j])'
    <3>1. CASE j = i
      <4>1. Kept(i)
        BY <1>1, <2>3, <3>1 DEF Make, StatusAfterMake, SubsAfterMake
      <4>2. QED
        BY <1>1, <1>2, <2>3, <3>1, <4>1
          DEF Make, StatusAfterMake, SubsAfterMake, LookupAfterMake
    <3>2. CASE j # i
      <4>1. j \in held /\ j \in Items
        BY <3>2 DEF Make, StatusAfterMake, SubsAfterMake, TypeOK
      <4>2. Provides[j] \in lookup \/ Dropped(Provides[j])
        BY <1>2, <2>3, <4>1 DEF ItemsInv, LookupExact
      <4>3. QED
        BY <1>3, <1>4, <4>2 DEF Make, StatusAfterMake, SubsAfterMake, LookupAfterMake
    <3>3. QED
      BY <3>1, <3>2
  <2>4. QED
    BY <2>1, <2>2, <2>3 DEF LookupExact
<1>7. ClassesLinked'
  <2>1. ASSUME NEW d \in Items, Kind[d] = "class", NEW t \in Types
        PROVE  links'[<<t, d>>] = IF status'[d] /\ t \in Needs[d] THEN 1 ELSE 0
    BY <1>2, <2>1 DEF ItemsInv, ClassesLinked, Make, StatusAfterMake, SubsAfterMake
  <2>2. ASSUME NEW d \in Items, Kind[d] = "class", NEW t \in Types,
               status'[d], t \in Needs[d]
        PROVE  t \in lookup' \/ Dropped(t)'
    <3>1. t \in lookup \/ Dropped(t)
      BY <1>2, <2>2 DEF ItemsInv, ClassesLinked
    <3>2. QED
      BY <1>3, <1>4, <3>1 DEF Make, StatusAfterMake, SubsAfterMake, LookupAfterMake
  <2>3. QED
    BY <2>1, <2>2 DEF ClassesLinked
<1>8. QED
  BY <1>5, <1>6, <1>7 DEF ItemsInv

\* Binding an entry whose dependencies are known.
LEMMA PublishItems ==
  ASSUME TypeOK, ItemsInv, NEW i \in held, ~status[i], CheckDependency(i),
         Publish(i), UNCHANGED <<made, held>>
  PROVE  ItemsInv'
<1>1. i \in Items
  BY DEF TypeOK
<1>2. status'[i] /\ \A j \in Items \ {i} : status'[j] = status[j]
  BY <1>1 DEF TypeOK, Publish, Linked, IndexWith, Entries
<1>3. \A t : Dropped(t) <=> Dropped(t)'
  BY DEF Dropped
<1>4. lookup \subseteq lookup'
  BY DEF Publish, Linked, IndexWith
<1>5. FilingInv'
  BY <1>2 DEF ItemsInv, FilingInv
<1>6. LookupExact'
  <2>1. \A t \in lookup' : \E j \in held' : Provides[j] = t
    BY DEF ItemsInv, LookupExact, Publish, Linked, IndexWith
  <2>2. ASSUME NEW j \in held', Kind[j] # "value", Provides[j] \in lookup'
        PROVE  Kind[j] = "enum" \/ status'[j]
    <3>1. j \in Items /\ j \in held
      BY DEF TypeOK
    <3>2. CASE Provides[j] \in lookup
      BY <1>2, <2>2, <3>1, <3>2 DEF ItemsInv, LookupExact
    <3>3. CASE Provides[j] \notin lookup
      <4>1. Provides[j] = Provides[i]
        BY <2>2, <3>3 DEF Publish, Linked, IndexWith
      <4>2. Module[j] = Module[i] /\ Key[j] = Key[i]
        BY <1>1, <2>2, <3>1, <4>1, ProgramAssumption
      <4>3. j = i
        BY <3>1, <4>2 DEF ItemsInv, FilingInv
      <4>4. QED
        BY <1>2, <4>3
    <3>4. QED
      BY <3>2, <3>3
  <2>3. ASSUME NEW j \in held', Kind[j] # "value",
               Kind[j] = "enum" \/ status'[j]
        PROVE  Provides[j] \in lookup' \/ Dropped(Provides[j])'
    <3>1. j \in Items /\ j \in held
      BY DEF TypeOK
    <3>2. CASE j = i /\ Kind[i] = "class"
      BY <3>2 DEF Publish, Linked, IndexWith
    <3>3. CASE j # i \/ Kind[i] # "class"
      <4>1. Kind[j] = "enum" \/ status[j]
        BY <1>1, <1>2, <2>3, <3>1, <3>3, ItemsAssumption
      <4>2. QED
        BY <1>3, <1>4, <2>3, <3>1, <4>1 DEF ItemsInv, LookupExact
    <3>4. QED
      BY <3>2, <3>3
  <2>4. QED
    BY <2>1, <2>2, <2>3 DEF LookupExact
<1>7. ClassesLinked'
  <2>1. ASSUME NEW d \in Items, Kind[d] = "class", NEW t \in Types
        PROVE  links'[<<t, d>>] = IF status'[d] /\ t \in Needs[d] THEN 1 ELSE 0
    <3>1. links[<<t, d>>] = IF status[d] /\ t \in Needs[d] THEN 1 ELSE 0
      BY <2>1 DEF ItemsInv, ClassesLinked
    <3>2. <<t, d>> \in Types \X Items /\ <<t, d>>[1] = t /\ <<t, d>>[2] = d
      OBVIOUS
    <3>3. links'[<<t, d>>] = IF Kind[i] = "class" /\ d = i /\ t \in Needs[i]
                             THEN links[<<t, d>>] + 1 ELSE links[<<t, d>>]
      BY <3>2 DEF Publish, Linked, IndexWith
    <3>4. CASE d = i
      BY <1>2, <2>1, <3>1, <3>3, <3>4
    <3>5. CASE d # i
      BY <1>2, <3>1, <3>3, <3>5
    <3>6. QED
      BY <3>4, <3>5
  <2>2. ASSUME NEW d \in Items, Kind[d] = "class", NEW t \in Types,
               status'[d], t \in Needs[d]
        PROVE  t \in lookup' \/ Dropped(t)'
    <3>1. CASE d = i
      BY <1>4, <2>2, <3>1 DEF CheckDependency
    <3>2. CASE d # i
      BY <1>2, <1>3, <1>4, <2>2, <3>2 DEF ItemsInv, ClassesLinked
    <3>3. QED
      BY <3>1, <3>2
  <2>3. QED
    BY <2>1, <2>2 DEF ClassesLinked
<1>8. QED
  BY <1>5, <1>6, <1>7 DEF ItemsInv

LEMMA NextItems == TypeOK /\ TablesInv /\ ItemsInv /\ [Next]_vars => ItemsInv'
<1> SUFFICES ASSUME TypeOK, TablesInv, ItemsInv, [Next]_vars
             PROVE  ItemsInv'
  OBVIOUS
<1>1. CASE \E i \in Items : Make(i)
  BY <1>1, MakeItems
<1>2. CASE \/ Start \/ EndWalk
           \/ (\E s \in Subs : SubEnter(s)) \/ (\E i \in Items : Panic(i))
  BY <1>2, ItemsFrameLemma DEF Start, SubEnter, Opened, EndWalk, GoesOn, Panic, registry
<1>3. ASSUME NEW i \in Items, RootItem(i) \/ SubItem(i)
      PROVE  ItemsInv'
  <2>1. i \in held /\ ~status[i]
    BY <1>3, NextItemLemma DEF RootItem, SubItem
  <2>2. UNCHANGED <<made, held>>
    BY <1>3 DEF RootItem, SubItem, registry
  <2>3. CASE Bind(i)
    BY <2>1, <2>2, <2>3, PublishItems DEF Bind
  <2>4. CASE Fail(i)
    BY <2>2, <2>4, ItemsFrameLemma DEF Fail
  <2>5. QED
    BY <1>3, <2>3, <2>4 DEF RootItem, SubItem
<1>4. CASE SubLeaveFirst \/ SubLeaveAgain
  <2>1. current \in Subs /\ current \notin Items
    BY <1>4, NamesAssumption
    DEF SubLeaveFirst, Entered, SubLeaveAgain, TablesInv, TypeOK
  <2>2. status' = [status EXCEPT ![current] = TRUE]
    BY <1>4 DEF SubLeaveFirst, Entered, SubLeaveAgain
  <2>3. \A i \in Items : status'[i] = status[i]
    BY <2>1, <2>2 DEF TypeOK, Entries
  <2>4. QED
    BY <1>4, <2>3, ItemsFrameLemma DEF SubLeaveFirst, Entered, SubLeaveAgain, registry
<1>5. CASE UNCHANGED vars
  BY <1>5, ItemsFrameLemma DEF vars, registry
<1>6. QED
  BY <1>1, <1>2, <1>3, <1>4, <1>5 DEF Next, BindStep

(***************************************************************************)
(* The walks of engine.bind().                                             *)
(***************************************************************************)

\* A success shrinks need_to_bind(), so it no longer equals before_binding.
LEMMA ProgressLemma ==
  ASSUME NeedToBind \subseteq before, before' = before,
         NEW e \in NeedToBind, NeedToBind' = NeedToBind \ {e}
  PROVE  NeedToBind' \subseteq before' /\ NeedToBind' # before'
OBVIOUS

LEMMA RootItemWalk ==
  ASSUME TypeOK, ItemsInv, WalkInv, NEW i \in Items, RootItem(i)
  PROVE  WalkInv'
<1>1. /\ i \in held /\ Module[i] = Root /\ ~status[i] /\ Key[i] > position
      /\ i \in NeedToBind /\ i \in Left(Root, position)
  BY NextItemLemma DEF RootItem, IsNext
<1>2. /\ before # {} /\ NeedToBind \subseteq before
      /\ \A s \in subs : ~status[s] => Key[s] > position
  <2>1. \A s \in subs : Key[s] \in Nat
    BY ItemsAssumption DEF TypeOK, Entries
  <2>2. QED
    BY <2>1 DEF WalkInv, RootItem, TypeOK
<1>3. \A e \in Left(Root, position) : Key[i] <= Key[e]
  BY DEF RootItem, IsNext
<1>4. \A s \in subs : Key[s] # Key[i]
  BY <1>1, ProgramAssumption, NamesAssumption DEF TypeOK, Entries
<1>5. UNCHANGED <<held, subs, before, pc>> /\ pc = "root" /\ position' = Key[i]
  BY DEF RootItem, registry
<1>6. \A s \in subs : status'[s] = status[s]
  <2>1. status' = status \/ status' = [status EXCEPT ![i] = TRUE]
    BY DEF RootItem, Fail, Bind, Publish, Linked, IndexWith
  <2>2. \A s \in subs : s # i /\ s \in Entries
    BY NamesAssumption DEF TypeOK, Entries
  <2>3. QED
    BY <2>1, <2>2 DEF TypeOK
<1>7. \A s \in subs : ~status'[s] => ~(Key[s] <= Key[i])
  <2>1. SUFFICES ASSUME NEW s \in subs, ~status[s]
                 PROVE  ~(Key[s] <= Key[i])
    BY <1>6
  <2>2. s \in Left(Root, position)
    BY <1>2, <2>1 DEF Left, EntriesOf
  <2>3. Key[s] \in Nat /\ Key[i] \in Nat
    BY ItemsAssumption DEF TypeOK, Entries
  <2>4. QED
    BY <1>3, <1>4, <2>2, <2>3
<1>8. CASE Bind(i)
  <2>1. NeedToBind' = NeedToBind \ {i}
    BY <1>5, <1>8 DEF NeedToBind, Bind, Publish, Linked, IndexWith, TypeOK, Entries
  <2>2. NeedToBind' \subseteq before' /\ NeedToBind' # before'
    BY <1>1, <1>2, <1>5, <2>1, ProgressLemma
  <2>3. QED
    BY <1>2, <1>5, <1>7, <2>2 DEF WalkInv
<1>9. CASE Fail(i)
  <2>1. UNCHANGED <<status, lookup>> /\ ~CheckDependency(i)
    BY <1>9 DEF Fail
  <2>2. NeedToBind' = NeedToBind
    BY <1>5, <2>1 DEF NeedToBind
  <2>3. ASSUME NeedToBind' = before', NEW j \in EntriesOf(Root)' \cap Items,
               ~status'[j], Key[j] <= position'
        PROVE  ~CheckDependency(j)'
    <3>1. j \in held /\ Module[j] = Root /\ j \in EntriesOf(Root) \cap Items
      BY <1>5, <2>3, NamesAssumption DEF EntriesOf, TypeOK
    <3>2. CASE Key[j] <= position
      BY <1>5, <2>1, <2>2, <2>3, <3>1, <3>2 DEF WalkInv, CheckDependency
    <3>3. CASE ~(Key[j] <= position)
      <4>1. Key[j] \in Nat /\ Key[i] \in Nat /\ position \in Nat
        BY <3>1, ItemsAssumption DEF TypeOK, Entries
      <4>2. j \in Left(Root, position)
        BY <2>1, <2>3, <3>1, <3>3, <4>1 DEF Left
      <4>3. Key[j] = Key[i]
        BY <1>3, <1>5, <2>3, <4>1, <4>2
      <4>4. j = i
        BY <1>1, <3>1, <4>3 DEF ItemsInv, FilingInv
      <4>5. QED
        BY <2>1, <4>4 DEF CheckDependency
    <3>4. QED
      BY <3>2, <3>3
  <2>4. QED
    BY <1>2, <1>5, <1>7, <2>2, <2>3 DEF WalkInv
<1>10. QED
  BY <1>8, <1>9 DEF RootItem

LEMMA StartWalk ==
  ASSUME TypeOK, Start
  PROVE  WalkInv'
<1>1. CASE NeedToBind = {}
  BY <1>1 DEF Start, WalkInv
<1>2. CASE NeedToBind # {}
  <2>1. before' = NeedToBind /\ NeedToBind' = NeedToBind /\ position' = 0
    BY DEF Start, NeedToBind, registry
  <2>2. \A e \in Entries : ~(Key[e] <= 0)
    BY ItemsAssumption
  <2>3. subs' \subseteq Entries /\ EntriesOf(Root)' \cap Items \subseteq Entries
    BY DEF TypeOK, Start, registry, Entries
  <2>4. QED
    BY <1>2, <2>1, <2>2, <2>3 DEF WalkInv
<1>3. QED
  BY <1>1, <1>2

LEMMA SubEnterWalk ==
  ASSUME TypeOK, WalkInv, NEW s \in Subs, SubEnter(s)
  PROVE  WalkInv'
<1>1. UNCHANGED <<made, held, subs, status, lookup, before>>
  BY DEF SubEnter, Opened, registry
<1>2. /\ pc = "root" /\ pc' = "sub" /\ current' = s /\ position' = Key[s]
      /\ \A e \in Left(Root, position) : Key[s] <= Key[e]
  BY DEF SubEnter, Opened, IsNext
<1>3. \A e \in Entries : Key[e] \in Nat
  BY ItemsAssumption
<1>4. position \in Nat /\ s \in Entries
  BY DEF TypeOK, Entries
<1>5. NeedToBind' = NeedToBind
  BY <1>1 DEF NeedToBind
<1>6. ASSUME NEW t \in subs', ~status'[t], Key[t] <= position'
      PROVE  t = current'
  <2>1. t \in subs /\ t \in Entries /\ t \in Subs /\ ~status[t]
    BY <1>1, <1>6 DEF TypeOK, Entries
  <2>2. Key[t] > position
    BY <1>2, <1>3, <1>4, <2>1 DEF WalkInv
  <2>3. t \in Left(Root, position)
    BY <2>1, <2>2 DEF Left, EntriesOf
  <2>4. Key[t] = Key[s]
    BY <1>2, <1>3, <1>4, <1>6, <2>1, <2>3
  <2>5. QED
    BY <1>2, <1>4, <2>1, <2>4, ProgramAssumption
<1>7. ASSUME NeedToBind' = before', NEW i \in EntriesOf(Root)' \cap Items,
             ~status'[i], Key[i] <= position'
      PROVE  ~CheckDependency(i)'
  <2>1. /\ i \in EntriesOf(Root) \cap Items /\ ~status[i] /\ i \in Entries
        /\ Module[i] = Root
    BY <1>1, <1>7, NamesAssumption DEF EntriesOf, Entries, TypeOK
  <2>2. Key[i] # Key[s]
    BY <1>4, <2>1, ProgramAssumption, NamesAssumption
  <2>3. Key[i] <= position
    <3>1. SUFFICES ASSUME Key[i] > position
                   PROVE  FALSE
      BY <1>3, <1>4, <2>1
    <3>2. i \in Left(Root, position)
      BY <2>1, <3>1 DEF Left
    <3>3. QED
      BY <1>2, <1>3, <1>4, <1>7, <2>1, <2>2, <3>2
  <2>4. QED
    BY <1>1, <1>2, <1>5, <1>7, <2>1, <2>3 DEF WalkInv, CheckDependency
<1>8. QED
  BY <1>1, <1>2, <1>5, <1>6, <1>7 DEF WalkInv

LEMMA SubItemWalk ==
  ASSUME TypeOK, TablesInv, WalkInv, NEW i \in Items, SubItem(i)
  PROVE  WalkInv'
<1>1. i \in held /\ Module[i] = current /\ ~status[i] /\ i \in NeedToBind
  BY NextItemLemma DEF SubItem
<1>2. UNCHANGED <<made, held, subs, pc, position, current, before>> /\ pc = "sub"
  BY DEF SubItem, registry
<1>3. CASE Bind(i)
  <2>1. NeedToBind' = NeedToBind \ {i}
    BY <1>2, <1>3 DEF NeedToBind, Bind, Publish, Linked, IndexWith, TypeOK, Entries
  <2>2. NeedToBind' \subseteq before' /\ NeedToBind' # before'
    BY <1>1, <1>2, <2>1, ProgressLemma DEF WalkInv
  <2>3. \A s \in subs : status'[s] = status[s]
    BY <1>3, NamesAssumption DEF TypeOK, Bind, Publish, Linked, IndexWith, Entries
  <2>4. QED
    BY <1>2, <2>2, <2>3 DEF WalkInv
<1>4. CASE Fail(i)
  <2>1. UNCHANGED <<status, lookup>>
    BY <1>4 DEF Fail
  <2>2. NeedToBind' = NeedToBind /\ EntriesOf(Root)' = EntriesOf(Root)
    BY <1>2, <2>1 DEF NeedToBind, EntriesOf
  <2>3. QED
    BY <1>2, <2>1, <2>2 DEF WalkInv, CheckDependency
<1>5. QED
  BY <1>3, <1>4 DEF SubItem

LEMMA SubLeaveWalk ==
  ASSUME TypeOK, TablesInv, WalkInv, SubLeaveFirst \/ SubLeaveAgain
  PROVE  WalkInv'
<1>1. /\ current \in subs /\ current \in Entries /\ ~status[current]
      /\ pc = "sub" /\ pc' = "root"
      /\ UNCHANGED <<made, held, subs, position, current, before>>
      /\ status' = [status EXCEPT ![current] = TRUE]
  BY DEF SubLeaveFirst, Entered, SubLeaveAgain, TablesInv, TypeOK, Entries, registry
<1>2. NeedToBind' = NeedToBind \ {current} /\ current \in NeedToBind
  BY <1>1 DEF NeedToBind, TypeOK, Entries
<1>3. NeedToBind' \subseteq before' /\ NeedToBind' # before' /\ before' # {}
  BY <1>1, <1>2, ProgressLemma DEF WalkInv
<1>4. ASSUME NEW s \in subs', ~status'[s], Key[s] <= position'
      PROVE  FALSE
  <2>1. s \in subs /\ s \in Entries
    BY <1>1 DEF TypeOK, Entries
  <2>2. s # current /\ ~status[s]
    BY <1>1, <1>4, <2>1 DEF TypeOK
  <2>3. QED
    BY <1>1, <1>4, <2>1, <2>2 DEF WalkInv
<1>5. QED
  BY <1>3, <1>4 DEF WalkInv

LEMMA EndWalkWalk ==
  ASSUME TypeOK, EndWalk
  PROVE  WalkInv'
<1>1. CASE GoesOn
  <2>1. before' = NeedToBind /\ NeedToBind' = NeedToBind /\ position' = 0
    BY DEF EndWalk, NeedToBind, registry
  <2>2. \A e \in Entries : ~(Key[e] <= 0)
    BY ItemsAssumption
  <2>3. subs' \subseteq Entries /\ EntriesOf(Root)' \cap Items \subseteq Entries
    BY DEF TypeOK, EndWalk, GoesOn, registry, Entries
  <2>4. QED
    BY <1>1, <2>1, <2>2, <2>3 DEF WalkInv, GoesOn
<1>2. CASE ~GoesOn
  BY <1>2 DEF EndWalk, GoesOn, WalkInv
<1>3. QED
  BY <1>1, <1>2

LEMMA NextWalk ==
  TypeOK /\ TablesInv /\ ItemsInv /\ WalkInv /\ [Next]_vars => WalkInv'
<1> SUFFICES ASSUME TypeOK, TablesInv, ItemsInv, WalkInv, [Next]_vars
             PROVE  WalkInv'
  OBVIOUS
<1>1. CASE \E i \in Items : Make(i)
  BY <1>1 DEF Make, StatusAfterMake, SubsAfterMake, WalkInv, loop
<1>2. CASE Start
  BY <1>2, StartWalk
<1>3. CASE \E i \in Items : RootItem(i)
  BY <1>3, RootItemWalk
<1>4. CASE \E i \in Items : SubItem(i)
  BY <1>4, SubItemWalk
<1>5. CASE \E s \in Subs : SubEnter(s)
  BY <1>5, SubEnterWalk
<1>6. CASE SubLeaveFirst \/ SubLeaveAgain
  BY <1>6, SubLeaveWalk
<1>7. CASE EndWalk
  BY <1>7, EndWalkWalk
<1>8. CASE \E i \in Items : Panic(i)
  BY <1>8 DEF Panic, WalkInv
<1>9. CASE UNCHANGED vars
  BY <1>9 DEF vars, registry, lua, loop, WalkInv, NeedToBind, EntriesOf,
              CheckDependency
<1>10. QED
  BY <1>1, <1>2, <1>3, <1>4, <1>5, <1>6, <1>7, <1>8, <1>9 DEF Next, BindStep

LEMMA InitItems == Init => ItemsInv /\ WalkInv
<1> SUFFICES ASSUME Init
             PROVE  ItemsInv /\ WalkInv
  OBVIOUS
<1>1. \A e \in Entries : ~status[e]
  BY DEF Init
<1>2. FilingInv
  BY <1>1 DEF Init, FilingInv, Entries
<1>3. LookupExact
  BY DEF Init, LookupExact
<1>4. ClassesLinked
  BY <1>1 DEF Init, ClassesLinked, Entries
<1>5. WalkInv
  BY DEF Init, WalkInv
<1>6. QED
  BY <1>2, <1>3, <1>4, <1>5 DEF ItemsInv

\* The inductive invariant: each conjunct is needed to keep another one.
AllInv == TypeOK /\ TablesInv /\ ItemsInv /\ WalkInv

(* The inductive invariant holds of every reachable state: what the maps,   *)
(* the stack and the loops of bind() maintain together.                     *)
THEOREM InvariantHolds == Spec => []AllInv
<1>1. Init => AllInv
  BY InitTypes, InitItems DEF AllInv
<1>2. AllInv /\ [Next]_vars => AllInv'
  BY NextTypes, NextItems, NextWalk DEF AllInv
<1>3. QED
  BY <1>1, <1>2, PTL DEF Spec

(***************************************************************************)
(* What the invariant gives: the properties of Binding that a program can  *)
(* rely on, and that Binding implements Registry.                          *)
(***************************************************************************)

(* A class that Lua can see is linked once to each of its bases, and each  *)
(* base is known, however often bind() ran and in whatever order.          *)
THEOREM ClassesAreLinked == Spec => []ClassesLinked
<1>1. AllInv => ClassesLinked
  BY DEF AllInv, ItemsInv
<1>2. QED
  BY <1>1, InvariantHolds, PTL

(* lookup_type knows a type exactly while its bindable is ready, so the    *)
(* assertion in wrapper_class::bind cannot fail.                           *)
THEOREM LookupIsExact == Spec => []LookupExact
<1>1. AllInv => LookupExact
  BY DEF AllInv, ItemsInv
<1>2. QED
  BY <1>1, InvariantHolds, PTL

(***************************************************************************)
(* Where bind() may die.                                                   *)
(***************************************************************************)

LEMMA InitInside == Init => InsideInv
BY DEF Init, InsideInv

LEMMA NextInside == AllInv /\ InsideInv /\ [Next]_vars => InsideInv'
<1> SUFFICES ASSUME AllInv, InsideInv, [Next]_vars
             PROVE  InsideInv'
  OBVIOUS
<1>1. ASSUME NEW i \in Items, Make(i)
      PROVE  InsideInv'
  <2>1. held \subseteq Items /\ (i \notin held => ~status[i])
    BY DEF AllInv, TypeOK, ItemsInv, FilingInv
  <2>2. \A j \in Items : status'[j] => status[j]
    BY <1>1 DEF Make, StatusAfterMake, SubsAfterMake, AllInv, TypeOK, Entries
  <2>3. held' \subseteq held \cup {i} /\ UNCHANGED <<binded, pc, current>>
    BY <1>1 DEF Make, StatusAfterMake, SubsAfterMake, loop
  <2>4. QED
    BY <2>1, <2>2, <2>3 DEF InsideInv
<1>2. CASE Start \/ EndWalk \/ (\E s \in Subs : SubEnter(s))
  BY <1>2 DEF Start, EndWalk, GoesOn, SubEnter, Opened, registry, InsideInv
<1>3. ASSUME NEW i \in Items, RootItem(i)
      PROVE  InsideInv'
  <2>1. Module[i] = Root
    BY <1>3, NextItemLemma DEF RootItem, AllInv
  <2>2. \A j \in Items : status'[j] => status[j] \/ j = i
    BY <1>3 DEF RootItem, Bind, Publish, Linked, IndexWith, Fail, AllInv, TypeOK, Entries
  <2>3. UNCHANGED <<held, binded, pc, current>> /\ held \subseteq Items
    BY <1>3 DEF RootItem, registry, AllInv, TypeOK
  <2>4. QED
    BY <2>1, <2>2, <2>3 DEF InsideInv
<1>4. ASSUME NEW i \in Items, SubItem(i)
      PROVE  InsideInv'
  <2>1. Module[i] = current /\ pc = "sub"
    BY <1>4, NextItemLemma DEF SubItem, AllInv
  <2>2. \A j \in Items : status'[j] => status[j] \/ j = i
    BY <1>4 DEF SubItem, Bind, Publish, Linked, IndexWith, Fail, AllInv, TypeOK, Entries
  <2>3. UNCHANGED <<held, binded, pc, current>> /\ held \subseteq Items
    BY <1>4 DEF SubItem, registry, AllInv, TypeOK
  <2>4. QED
    BY <2>1, <2>2, <2>3 DEF InsideInv
<1>5. ASSUME NEW i \in Items, Panic(i)
      PROVE  InsideInv'
  BY <1>5 DEF Panic, registry, InsideInv
<1>6. CASE SubLeaveFirst \/ SubLeaveAgain
  <2>1. /\ UNCHANGED <<held, current>> /\ held \subseteq Items
        /\ current \in Subs /\ current \notin Items
        /\ status' = [status EXCEPT ![current] = TRUE]
    BY <1>6, NamesAssumption
    DEF SubLeaveFirst, Entered, SubLeaveAgain, registry, AllInv, TypeOK, TablesInv
  <2>2. /\ \A s \in Subs : binded[s] => binded'[s]
        /\ binded'[current]
    BY <1>6, <2>1 DEF SubLeaveFirst, Entered, SubLeaveAgain, AllInv, TypeOK
  <2>3. \A j \in held : status'[j] = status[j]
    BY <2>1 DEF AllInv, TypeOK, Entries
  <2>4. \A j \in held : Module[j] # Root => Module[j] \in Subs
    BY <2>1, ItemsAssumption
  <2>5. QED
    BY <2>1, <2>2, <2>3, <2>4 DEF InsideInv
<1>7. CASE UNCHANGED vars
  BY <1>7 DEF vars, registry, loop, InsideInv
<1>8. QED
  BY <1>1, <1>2, <1>3, <1>4, <1>5, <1>6, <1>7 DEF Next, BindStep

(* What is bound in a sub-module that was never completed is in the one     *)
(* bind() is working on: no walk abandons a half-bound sub-module.          *)
THEOREM InsideHolds == Spec => []InsideInv
BY InitInside, NextInside, InvariantHolds, PTL DEF Spec

(* What the loops of bind() maintain.                                      *)
THEOREM LoopIsSound == Spec => []LoopInv
<1>1. AllInv /\ InsideInv => LoopInv
  BY DEF AllInv, ItemsInv, LoopInv
<1>2. QED
  BY <1>1, InvariantHolds, InsideHolds, PTL

LEMMA PanicInside ==
  ASSUME AllInv, InsideInv, NEW i \in Items, Panic(i)
  PROVE  \E b \in held, t \in Types :
           /\ SingleBase(i, t) /\ Provides[b] = t
           /\ Module[b] = Module[i] /\ Module[i] # Root /\ i \in held
<1>1. PICK t \in Types, b \in held :
        /\ SingleBase(i, t) /\ Provides[b] = t
        /\ Module[b] # Root /\ loaded[Module[b]] = Nil
  BY DEF Panic, Readable
<1>2. b \in Items /\ Module[b] \in Subs
  BY <1>1, ItemsAssumption DEF AllInv, TypeOK
<1>3. ~binded[Module[b]]
  BY <1>1, <1>2, NamesAssumption DEF AllInv, TablesInv
<1>4. Kind[b] = "class"
  BY <1>1, <1>2, ItemsAssumption DEF SingleBase
<1>5. status[b]
  BY <1>1, <1>4 DEF Panic, CheckDependency, SingleBase, AllInv, ItemsInv, LookupExact
<1>6. pc \in {"sub", "aborted"} /\ current = Module[b]
  BY <1>1, <1>3, <1>5 DEF InsideInv
<1>7. IsNext(i, current, inner)
  BY <1>6 DEF Panic
<1>8. Module[i] = current /\ i \in held
  BY <1>7, NextItemLemma DEF AllInv
<1>9. QED
  BY <1>1, <1>6, <1>8

(* bind() can die only on a class that shares a sub-module with its base.  *)
THEOREM AbortsOnlyInsideHolds == Spec => []AbortsOnlyInside
<1>1. Init => AbortsOnlyInside
  BY DEF Init, AbortsOnlyInside
<1>2. ASSUME AllInv, InsideInv, AbortsOnlyInside, [Next]_vars
      PROVE  AbortsOnlyInside'
  <2>1. CASE \E i \in Items : Panic(i)
    <3>1. held' = held
      BY <2>1 DEF Panic, registry
    <3>2. QED
      BY <1>2, <2>1, <3>1, PanicInside DEF AbortsOnlyInside
  <2>2. CASE ~\E i \in Items : Panic(i)
    <3>1. pc' # "aborted" \/ (UNCHANGED <<pc, held>>)
      BY <1>2, <2>2
        DEF Next, BindStep, Make, StatusAfterMake, SubsAfterMake, Start, RootItem, SubItem, SubEnter, Opened,
                        SubLeaveFirst, Entered, SubLeaveAgain, EndWalk, GoesOn, vars, registry, loop
    <3>2. QED
      BY <1>2, <3>1 DEF AbortsOnlyInside
  <2>3. QED
    BY <2>1, <2>2
<1>3. QED
  BY <1>1, <1>2, InvariantHolds, InsideHolds, PTL DEF Spec

(* So a program that keeps no class next to its only base in a sub-module  *)
(* is safe.                                                                *)
THEOREM ApartNeverAborts ==
  ASSUME \A b, d \in Items, t \in Types :
           SingleBase(d, t) /\ Provides[b] = t /\ Module[d] # Root
             => Module[b] # Module[d]
  PROVE  Spec => []NeverAborts
<1>1. TypeOK /\ AbortsOnlyInside => NeverAborts
  BY DEF TypeOK, AbortsOnlyInside, NeverAborts
<1>2. QED
  BY <1>1, TypeCorrect, AbortsOnlyInsideHolds, PTL

(***************************************************************************)
(* The ends of bind().                                                     *)
(***************************************************************************)

\* Only two kinds of step return from bind().
LEMMA ReturnsLemma ==
  ASSUME TypeOK, [Next]_vars, Returns
  PROVE  \/ Start /\ NeedToBind = {}
         \/ EndWalk /\ ~GoesOn
<1>1. CASE \E i \in Items : Make(i)
  BY <1>1 DEF Make, StatusAfterMake, SubsAfterMake, Returns, loop
<1>2. CASE Start
  BY <1>2 DEF Start, Returns
<1>3. CASE \E i \in Items : RootItem(i) \/ SubItem(i) \/ Panic(i)
  BY <1>3 DEF RootItem, SubItem, Panic, Returns
<1>4. CASE \E s \in Subs : SubEnter(s)
  BY <1>4 DEF SubEnter, Opened, Returns
<1>5. CASE SubLeaveFirst \/ SubLeaveAgain
  BY <1>5 DEF SubLeaveFirst, Entered, SubLeaveAgain, Returns
<1>6. CASE EndWalk
  BY <1>6 DEF EndWalk, GoesOn, Returns
<1>7. CASE UNCHANGED vars
  BY <1>7 DEF vars, loop, Returns
<1>8. QED
  BY <1>1, <1>2, <1>3, <1>4, <1>5, <1>6, <1>7 DEF Next, BindStep

\* At the end of a walk that ends bind(), either nothing is left or the
\* walk achieved nothing and has seen every name.
LEMMA LastWalkLemma ==
  ASSUME AllInv, EndWalk, ~GoesOn
  PROVE  /\ result' = (NeedToBind = {})
         /\ \A s \in subs : status[s]
         /\ \A i \in held : Module[i] = Root /\ ~status[i]
                              => ~CheckDependency(i)
<1>1. pc = "root" /\ Left(Root, position) = {} /\ result' = (NeedToBind # before)
  BY DEF EndWalk, GoesOn
<1>2. before # {} /\ \A s \in subs : ~status[s] => ~(Key[s] <= position)
  BY <1>1 DEF AllInv, WalkInv
<1>3. \A e \in Entries : Key[e] \in Nat
  BY ItemsAssumption
<1>4. position \in Nat /\ held \subseteq Items /\ subs \subseteq Subs
  BY DEF AllInv, TypeOK
<1>5. ASSUME NEW s \in subs
      PROVE  status[s]
  <2>1. SUFFICES ASSUME ~status[s]
                 PROVE  FALSE
    OBVIOUS
  <2>2. Key[s] > position
    BY <1>2, <1>3, <1>4, <2>1 DEF Entries
  <2>3. s \in Left(Root, position)
    BY <2>1, <2>2 DEF Left, EntriesOf
  <2>4. QED
    BY <1>1, <2>3
<1>6. ASSUME NEW i \in held, Module[i] = Root, ~status[i]
      PROVE  ~CheckDependency(i)
  <2>1. i \in NeedToBind /\ i \in EntriesOf(Root) \cap Items
    BY <1>4, <1>6 DEF NeedToBind, EntriesOf
  <2>2. NeedToBind = before
    BY <2>1 DEF GoesOn
  <2>3. i \notin Left(Root, position)
    BY <1>1
  <2>4. ~(Key[i] > position)
    BY <1>6, <2>1, <2>3 DEF Left
  <2>5. Key[i] <= position
    BY <1>3, <1>4, <2>4 DEF Entries
  <2>6. QED
    BY <1>1, <1>6, <2>1, <2>2, <2>5 DEF AllInv, WalkInv
<1>7. result' = (NeedToBind = {})
  BY <1>1, <1>2 DEF GoesOn
<1>8. QED
  BY <1>5, <1>6, <1>7

(* bind() answers true exactly when need_to_bind() is empty.               *)
THEOREM ResultIsExact == Spec => ResultExact
<1>1. AllInv /\ [Next]_vars => [Returns => (result' <=> NeedToBind' = {})]_vars
  <2>1. SUFFICES ASSUME AllInv, [Next]_vars, Returns
                 PROVE  result' <=> NeedToBind' = {}
    OBVIOUS
  <2>2. CASE Start /\ NeedToBind = {}
    BY <2>2 DEF Start, NeedToBind, registry
  <2>3. CASE EndWalk /\ ~GoesOn
    <3>1. NeedToBind' = NeedToBind
      BY <2>3 DEF EndWalk, GoesOn, NeedToBind, registry
    <3>2. QED
      BY <2>1, <2>3, <3>1, LastWalkLemma
  <2>4. QED
    BY <2>1, <2>2, <2>3, ReturnsLemma DEF AllInv
<1>2. QED
  BY <1>1, InvariantHolds, PTL DEF Spec, ResultExact

(* bind() never gives up on a bindable of the root module it could bind.   *)
THEOREM RootIsComplete == Spec => RootComplete
<1>1. AllInv /\ [Next]_vars =>
        [Returns => \A i \in held :
           (Module[i] = Root /\ ~status[i])' => ~CheckDependency(i)']_vars
  <2>1. SUFFICES ASSUME AllInv, [Next]_vars, Returns, NEW i \in held,
                        Module[i] = Root, ~status'[i]
                 PROVE  ~CheckDependency(i)'
    OBVIOUS
  <2>2. CASE Start /\ NeedToBind = {}
    BY <2>1, <2>2 DEF Start, NeedToBind
  <2>3. CASE EndWalk /\ ~GoesOn
    <3>1. ~status[i] /\ lookup' = lookup
      BY <2>1, <2>3 DEF EndWalk, GoesOn
    <3>2. QED
      BY <2>1, <2>3, <3>1, LastWalkLemma DEF CheckDependency
  <2>4. QED
    BY <2>1, <2>2, <2>3, ReturnsLemma DEF AllInv
<1>2. QED
  BY <1>1, InvariantHolds, PTL DEF Spec, RootComplete

(***************************************************************************)
(* Progress inside bind(), and the refinement.                             *)
(***************************************************************************)

\* What a step of either loop on a bindable does.
LEMMA AttachLemma ==
  ASSUME AllInv, NEW i \in Items, RootItem(i) \/ SubItem(i)
  PROVE  /\ i \in held /\ ~status[i]
         /\ UNCHANGED <<made, held, subs, result>>
         /\ \/ CheckDependency(i) /\ Publish(i)
            \/ UNCHANGED <<status, lookup>>
BY NextItemLemma DEF AllInv, RootItem, SubItem, Bind, Fail, registry

(* Inside bind() nothing bound is lost and no type is forgotten.           *)
THEOREM BindOnlyAddsHolds == Spec => BindOnlyAdds
<1>1. AllInv /\ [Next]_vars =>
        [pc # "idle" => NeedToBind' \subseteq NeedToBind
                          /\ lookup \subseteq lookup']_vars
  <2>1. SUFFICES ASSUME AllInv, Next, pc # "idle"
                 PROVE  NeedToBind' \subseteq NeedToBind /\ lookup \subseteq lookup'
    OBVIOUS
  <2>2. CASE \E i \in Items : RootItem(i) \/ SubItem(i)
    <3>1. PICK i \in Items : RootItem(i) \/ SubItem(i)
      BY <2>2
    <3>2. QED
      BY <2>1, <3>1, AttachLemma
      DEF Publish, Linked, IndexWith, NeedToBind, AllInv, TypeOK, Entries
  <2>3. CASE (\E s \in Subs : SubEnter(s)) \/ (\E i \in Items : Panic(i)) \/ EndWalk
    BY <2>3 DEF SubEnter, Opened, Panic, EndWalk, GoesOn, NeedToBind, registry
  <2>4. CASE SubLeaveFirst \/ SubLeaveAgain
    BY <2>1, <2>4
      DEF SubLeaveFirst, Entered, SubLeaveAgain, NeedToBind, registry, AllInv, TypeOK, Entries
  <2>5. QED
    BY <2>1, <2>2, <2>3, <2>4
      DEF Next, BindStep, Make, StatusAfterMake, SubsAfterMake, Start
<1>2. QED
  BY <1>1, InvariantHolds, PTL DEF Spec, BindOnlyAdds

\* A walk goes on when the one before it has bound something; within a walk
\* the loops move to a later entry of their map, or out of the sub-module.
Advances ==
  {pc, pc'} \subseteq {"root", "sub"} =>
    \/ before' # before /\ before' \subseteq before
    \/ /\ before' = before /\ position' > position
       /\ \E e \in EntriesOf(Root) : position' = Key[e]
    \/ /\ UNCHANGED <<before, position, current>> /\ pc = "sub"
       /\ \/ pc' = "root"
          \/ inner' > inner /\ \E i \in EntriesOf(current) : inner' = Key[i]

(* Every step of bind() uses up something that is finite: names that are   *)
(* not bound when a walk starts, entries of the root module that lie ahead *)
(* of the walk, entries of the sub-module it is in.  So need_to_bind(),    *)
(* whose size the loop of bind() compares, cannot keep it going for ever.  *)
THEOREM BindAdvances == Spec => [][Advances]_vars
<1>1. AllInv /\ [Next]_vars => [Advances]_vars
  <2>1. SUFFICES ASSUME AllInv, Next, pc \in {"root", "sub"}, pc' \in {"root", "sub"}
                 PROVE  Advances
    BY DEF Advances
  <2>2. ASSUME NEW i \in Items, RootItem(i) PROVE Advances
    <3>1. i \in Left(Root, position) /\ position' = Key[i] /\ before' = before
      BY <2>2 DEF RootItem, IsNext
    <3>2. QED
      BY <3>1 DEF Left, Advances
  <2>3. ASSUME NEW s \in Subs, SubEnter(s) PROVE Advances
    <3>1. s \in Left(Root, position) /\ position' = Key[s] /\ before' = before
      BY <2>3 DEF SubEnter, IsNext
    <3>2. QED
      BY <3>1 DEF Left, Advances
  <2>4. ASSUME NEW i \in Items, SubItem(i) PROVE Advances
    <3>1. i \in Left(current, inner) /\ inner' = Key[i] /\ pc = "sub"
          /\ UNCHANGED <<before, position, current>>
      BY <2>4 DEF SubItem, IsNext
    <3>2. QED
      BY <3>1 DEF Left, Advances
  <2>5. ASSUME SubLeaveFirst \/ SubLeaveAgain PROVE Advances
    BY <2>5 DEF SubLeaveFirst, SubLeaveAgain, Advances
  <2>6. ASSUME EndWalk PROVE Advances
    <3>1. before' = NeedToBind /\ GoesOn
      BY <2>1, <2>6 DEF EndWalk
    <3>2. NeedToBind # before /\ NeedToBind \subseteq before
      BY <2>1, <3>1 DEF GoesOn, AllInv, WalkInv
    <3>3. QED
      BY <3>1, <3>2 DEF Advances
  <2>7. ASSUME NEW i \in Items, Make(i) \/ Panic(i) PROVE FALSE
    BY <2>1, <2>7 DEF Make, Panic
  <2>8. ~Start
    BY <2>1 DEF Start
  <2>9. QED
    BY <2>1, <2>2, <2>3, <2>4, <2>5, <2>6, <2>7, <2>8 DEF Next, BindStep
<1>2. QED
  BY <1>1, InvariantHolds, PTL DEF Spec

LEMMA InitPromise == Init => Promise!Init
BY DEF Init, Promise!Init, Bound

LEMMA MakePromise ==
  ASSUME AllInv, NEW i \in Items, Make(i)
  PROVE  Promise!File(i) \/ Promise!Refuse(i)
<1>1. i \notin made /\ i \notin held /\ held \subseteq Items /\ result' = result
  BY DEF AllInv, TypeOK, Make, StatusAfterMake, SubsAfterMake, loop
<1>2. \A j \in Items : status'[j] = status[j]
  <2>1. CASE Module[i] = Root
    BY <2>1 DEF Make, StatusAfterMake, SubsAfterMake
  <2>2. CASE Module[i] # Root
    <3>1. Module[i] \notin Items
      BY <2>2, NamesAssumption, ItemsAssumption
    <3>2. QED
      BY <2>2, <3>1 DEF Make, StatusAfterMake, SubsAfterMake, AllInv, TypeOK, Entries
  <2>3. QED
    BY <2>1, <2>2
<1>3. ~status[i]
  BY <1>1 DEF AllInv, ItemsInv, FilingInv
<1>4. Bound' = Bound
  BY <1>1, <1>2, <1>3 DEF Bound, Make, StatusAfterMake, SubsAfterMake
<1> DEFINE Slot == [j \in Items |-> <<Module[j], Key[j]>>]
<1>5. \A j \in held : (Slot[j] = Slot[i]) <=> Module[j] = Module[i] /\ Key[j] = Key[i]
  BY <1>1
<1>6. CASE Kept(i)
  <2>1. \A j \in held : Slot[j] # Slot[i]
    BY <1>5, <1>6 DEF Kept
  <2>2. lookup' = IF i \in {k \in Items : Kind[k] = "enum"}
                  THEN lookup \cup {Provides[i]} ELSE lookup
    BY <1>6 DEF Make, StatusAfterMake, SubsAfterMake, LookupAfterMake
  <2>3. QED
    BY <1>1, <1>4, <1>6, <2>1, <2>2 DEF Promise!File, Make, StatusAfterMake, SubsAfterMake
<1>7. CASE ~Kept(i)
  <2>1. \E j \in held : Slot[j] = Slot[i]
    BY <1>5, <1>7 DEF Kept
  <2>2. QED
    BY <1>1, <1>4, <1>7, <2>1
      DEF Promise!Refuse, Make, StatusAfterMake, SubsAfterMake, LookupAfterMake
<1>8. QED
  BY <1>6, <1>7

LEMMA AttachPromise ==
  ASSUME AllInv, NEW i \in Items, RootItem(i) \/ SubItem(i)
  PROVE  Promise!Attach(i) \/ UNCHANGED Promise!vars
<1>1. i \in held /\ ~status[i] /\ UNCHANGED <<made, held, result>>
  BY AttachLemma
<1>2. CASE CheckDependency(i) /\ Publish(i)
  <2>1. Bound' = Bound \cup {i} /\ i \notin Bound
    BY <1>1, <1>2 DEF Bound, Publish, Linked, IndexWith, AllInv, TypeOK, Entries
  <2>2. QED
    BY <1>1, <1>2, <2>1 DEF Promise!Attach, CheckDependency, Publish, Linked, IndexWith
<1>3. CASE UNCHANGED <<status, lookup>>
  BY <1>1, <1>3 DEF Promise!vars, Bound
<1>4. QED
  BY <1>2, <1>3, AttachLemma

LEMMA AnswerPromise ==
  ASSUME AllInv, Start \/ EndWalk
  PROVE  Promise!Answer \/ UNCHANGED Promise!vars
<1>1. UNCHANGED <<made, held, lookup, status>> /\ Bound' = Bound
  BY DEF Start, EndWalk, GoesOn, registry, Bound
<1>2. CASE result' = result
  BY <1>1, <1>2 DEF Promise!vars
<1>3. CASE Start /\ NeedToBind = {}
  <2>1. Bound = held /\ result' = TRUE
    BY <1>3 DEF Start, Bound, NeedToBind
  <2>2. QED
    BY <1>1, <2>1 DEF Promise!Answer
<1>4. CASE EndWalk /\ ~GoesOn
  <2>1. NeedToBind = {} <=> Bound = held
    BY <1>4, LastWalkLemma DEF NeedToBind, Bound
  <2>2. result' = (Bound = held)
    BY <1>4, <2>1, LastWalkLemma
  <2>3. \A i \in (held \ Bound) \cap {j \in Items : Module[j] = Root} :
          ~(Needs[i] \subseteq lookup)
    BY <1>4, LastWalkLemma DEF Bound, CheckDependency
  <2>4. QED
    BY <1>1, <2>2, <2>3 DEF Promise!Answer
<1>5. QED
  BY <1>2, <1>3, <1>4 DEF Start, EndWalk, GoesOn

LEMMA StepPromise == AllInv /\ [Next]_vars => [Promise!Next]_(Promise!vars)
<1> SUFFICES ASSUME AllInv, [Next]_vars
             PROVE  Promise!Next \/ UNCHANGED Promise!vars
  OBVIOUS
<1>1. CASE \E i \in Items : Make(i)
  BY <1>1, MakePromise DEF Promise!Next
<1>2. CASE Start \/ EndWalk
  BY <1>2, AnswerPromise DEF Promise!Next
<1>3. CASE \E i \in Items : RootItem(i) \/ SubItem(i)
  BY <1>3, AttachPromise DEF Promise!Next
<1>4. CASE (\E s \in Subs : SubEnter(s)) \/ (\E i \in Items : Panic(i))
  BY <1>4 DEF SubEnter, Opened, Panic, registry, Bound, Promise!vars
<1>5. CASE SubLeaveFirst \/ SubLeaveAgain
  <2>1. current \in Subs /\ current \notin Items /\ held \subseteq Items
    BY <1>5, NamesAssumption
    DEF SubLeaveFirst, Entered, SubLeaveAgain, AllInv, TablesInv, TypeOK
  <2>2. UNCHANGED <<made, held, lookup, result>>
        /\ status' = [status EXCEPT ![current] = TRUE]
    BY <1>5 DEF SubLeaveFirst, Entered, SubLeaveAgain, registry
  <2>3. Bound' = Bound
    BY <2>1, <2>2 DEF Bound, AllInv, TypeOK, Entries
  <2>4. QED
    BY <2>2, <2>3 DEF Promise!vars
<1>6. CASE UNCHANGED vars
  BY <1>6 DEF vars, registry, loop, Bound, Promise!vars
<1>7. QED
  BY <1>1, <1>2, <1>3, <1>4, <1>5, <1>6 DEF Next, BindStep

(* The modules, the walks and the Lua stack of Binding implement the       *)
(* promise of Registry.                                                    *)
THEOREM BindingKeepsPromise == Spec => KeepsPromise
<1>1. Spec => Promise!Spec
  BY InitPromise, StepPromise, InvariantHolds, PTL DEF Spec, Promise!Spec
<1>2. QED
  BY <1>1 DEF KeepsPromise

(***************************************************************************)
(* What Lua finds under the names.                                         *)
(***************************************************************************)

\* No bindable of a sub-module leaves a table when it cannot be bound.
NoLitterInside == \A i \in Items : Module[i] # Root => ~Litter[i]

FieldsOf(s) == {i \in held : Module[i] = s /\ status[i]}

\* The globals and the tables of the sub-modules at any time, and the table
\* that lua_setfield finds.
SymbolsInv ==
  /\ \A i \in held : Module[i] = Root /\ status[i] => globals[i] = i
  /\ \A s \in Subs :
       fields[s] = FieldsOf(s) /\ loaded[s] = IF binded[s] THEN s ELSE Nil
  /\ pc = "sub" => Top(stack) = current

LEMMA InitSymbols == Init => SymbolsInv /\ IndexReadsBase
BY DEF Init, SymbolsInv, FieldsOf, IndexReadsBase, Entries

\* What binds no bindable and fills no table.
LEMMA SymbolsFrameLemma ==
  ASSUME TypeOK, SymbolsInv, held' = held, \A i \in Items : status'[i] = status[i],
         UNCHANGED <<loaded, binded, fields>>, \A i \in Items : globals'[i] = globals[i],
         pc' = "sub" => Top(stack') = current'
  PROVE  SymbolsInv'
<1>1. \A s \in Subs : FieldsOf(s)' = FieldsOf(s)
  BY DEF FieldsOf, TypeOK
<1>2. QED
  BY <1>1 DEF SymbolsInv, TypeOK

LEMMA MakeSymbols ==
  ASSUME AllInv, SymbolsInv, NEW i \in Items, Make(i)
  PROVE  SymbolsInv'
<1>1. i \notin held /\ ~status[i]
  BY DEF AllInv, TypeOK, ItemsInv, FilingInv, Make
<1>2. \A j \in Items : status'[j] = status[j]
  <2>1. Module[i] = Root \/ Module[i] \in Subs
    BY ItemsAssumption
  <2>2. QED
    BY <2>1, NamesAssumption DEF AllInv, TypeOK, Make, StatusAfterMake, Entries
<1>3. held \subseteq Items /\ held' \subseteq held \cup {i} /\ held \subseteq held'
  BY DEF AllInv, TypeOK, Make
<1>4. \A s \in Subs : FieldsOf(s)' = FieldsOf(s)
  BY <1>1, <1>2, <1>3 DEF FieldsOf
<1>5. \A j \in held' : status'[j] => j \in held /\ status[j]
  BY <1>1, <1>2, <1>3
<1>6. UNCHANGED <<globals, loaded, binded, fields, pc, stack, current>>
  BY DEF Make, lua, loop
<1>7. QED
  BY <1>4, <1>5, <1>6 DEF SymbolsInv, Top

LEMMA RootItemSymbols ==
  ASSUME AllInv, SymbolsInv, NEW i \in Items, RootItem(i)
  PROVE  SymbolsInv'
<1>1. i \in held /\ Module[i] = Root /\ ~status[i]
  BY NextItemLemma DEF AllInv, RootItem
<1>2. CASE Fail(i)
  BY <1>2, SymbolsFrameLemma DEF AllInv, RootItem, Fail, registry
<1>3. CASE Bind(i) /\ globals' = [globals EXCEPT ![i] = i] /\ UNCHANGED <<stack, fields>>
  <2>1. status' = [status EXCEPT ![i] = TRUE] /\ i \in Entries
    BY <1>3 DEF Bind, Publish, Entries
  <2>2. UNCHANGED <<held, loaded, binded>> /\ pc' = "root"
    BY DEF RootItem, registry
  <2>3. \A s \in Subs : FieldsOf(s)' = FieldsOf(s)
    BY <1>1, <2>1, <2>2, NamesAssumption DEF FieldsOf, AllInv, TypeOK, Entries
  <2>4. \A j \in held' : Module[j] = Root /\ status'[j] => globals'[j] = j
    BY <1>3, <2>1, <2>2 DEF SymbolsInv, AllInv, TypeOK, Entries
  <2>5. QED
    BY <1>3, <2>2, <2>3, <2>4 DEF SymbolsInv
<1>4. QED
  BY <1>2, <1>3 DEF RootItem

LEMMA SubItemSymbols ==
  ASSUME NoLitterInside, AllInv, SymbolsInv, NEW i \in Items, SubItem(i)
  PROVE  SymbolsInv'
<1>1. i \in held /\ Module[i] = current /\ ~status[i]
  BY NextItemLemma DEF AllInv, SubItem
<1>2. current \in Subs /\ current # Root /\ Top(stack) = current
  BY NamesAssumption DEF AllInv, TypeOK, TablesInv, SubItem, SymbolsInv, Entries
<1>3. CASE Fail(i)
  <2>1. stack' = stack
    BY <1>1, <1>2, <1>3 DEF Fail, NoLitterInside
  <2>2. QED
    BY <1>2, <1>3, <2>1, SymbolsFrameLemma DEF AllInv, SubItem, Fail, registry, Top
<1>4. CASE Bind(i) /\ fields' = [fields EXCEPT ![Top(stack)] = @ \cup {i}]
           /\ UNCHANGED <<stack, globals>>
  <2>1. status' = [status EXCEPT ![i] = TRUE] /\ i \in Entries
    BY <1>4 DEF Bind, Publish, Entries
  <2>2. UNCHANGED <<held, loaded, binded, pc, current>>
    BY DEF SubItem, registry
  <2>3. \A s \in Subs : FieldsOf(s)' = IF s = current THEN FieldsOf(s) \cup {i} ELSE FieldsOf(s)
    BY <1>1, <2>1, <2>2 DEF FieldsOf, AllInv, TypeOK, Entries
  <2>4. \A s \in Subs : fields'[s] = FieldsOf(s)'
    BY <1>2, <1>4, <2>3 DEF SymbolsInv, AllInv, TypeOK, Entries
  <2>5. \A j \in held' : Module[j] = Root /\ status'[j] => globals'[j] = j
    BY <1>1, <1>2, <1>4, <2>1, <2>2 DEF SymbolsInv, AllInv, TypeOK, Entries
  <2>6. QED
    BY <1>2, <1>4, <2>2, <2>4, <2>5 DEF SymbolsInv, Top
<1>5. QED
  BY <1>3, <1>4 DEF SubItem

LEMMA SubEnterSymbols ==
  ASSUME AllInv, SymbolsInv, NEW s \in Subs, SubEnter(s)
  PROVE  SymbolsInv'
<1>1. s \in Values /\ LoadedTable \in Values /\ stack \in Seq(Values)
  BY DEF Values, Entries, AllInv, TypeOK
<1>2. Top(stack') = s
  <2>1. CASE binded[s]
    <3>1. stack' = stack \o <<LoadedTable, s>>
      BY <2>1 DEF SubEnter, Opened, SymbolsInv
    <3>2. QED
      BY <1>1, <3>1, PushTwoLemma
  <2>2. CASE ~binded[s]
    <3>1. stack' = stack \o <<s>>
      BY <2>2 DEF SubEnter, Opened
    <3>2. QED
      BY <1>1, <3>1, PushOneLemma
  <2>3. QED
    BY <2>1, <2>2
<1>3. QED
  BY <1>2, SymbolsFrameLemma DEF AllInv, SubEnter, registry

LEMMA SubLeaveSymbols ==
  ASSUME AllInv, SymbolsInv, SubLeaveFirst \/ SubLeaveAgain
  PROVE  SymbolsInv'
<1>1. current \in Subs /\ current \in Entries /\ pc' = "root" /\ Top(stack) = current
  BY DEF AllInv, TablesInv, TypeOK, SubLeaveFirst, SubLeaveAgain, SymbolsInv, Entries
<1>2. \A i \in Items : i # current
  BY <1>1, NamesAssumption
<1>3. \A i \in Items : status'[i] = status[i] /\ globals'[i] = globals[i]
  BY <1>2 DEF AllInv, TypeOK, SubLeaveFirst, SubLeaveAgain, Entries
<1>4. CASE SubLeaveFirst
  <2>1. /\ UNCHANGED <<held, fields>>
        /\ binded' = [binded EXCEPT ![current] = TRUE]
        /\ loaded' = [loaded EXCEPT ![current] = current]
    BY <1>1, <1>4 DEF SubLeaveFirst, Entered, registry
  <2>2. \A s \in Subs : FieldsOf(s)' = FieldsOf(s)
    BY <1>3, <2>1 DEF FieldsOf, AllInv, TypeOK
  <2>3. \A s \in Subs : loaded'[s] = IF binded'[s] THEN s ELSE Nil
    BY <1>1, <2>1 DEF SymbolsInv, AllInv, TypeOK
  <2>4. \A i \in held' : Module[i] = Root /\ status'[i] => globals'[i] = i
    BY <1>3, <2>1 DEF SymbolsInv, AllInv, TypeOK
  <2>5. QED
    BY <1>1, <2>1, <2>2, <2>3, <2>4 DEF SymbolsInv
<1>5. CASE SubLeaveAgain
  BY <1>1, <1>3, <1>5, SymbolsFrameLemma DEF AllInv, SubLeaveAgain, registry
<1>6. QED
  BY <1>4, <1>5

LEMMA NextSymbols ==
  ASSUME NoLitterInside, AllInv, SymbolsInv, [Next]_vars
  PROVE  SymbolsInv'
<1>1. CASE \E i \in Items : Make(i)
  BY <1>1, MakeSymbols
<1>2. CASE \E i \in Items : RootItem(i)
  BY <1>2, RootItemSymbols
<1>3. CASE \E i \in Items : SubItem(i)
  BY <1>3, SubItemSymbols
<1>4. CASE \E s \in Subs : SubEnter(s)
  BY <1>4, SubEnterSymbols
<1>5. CASE SubLeaveFirst \/ SubLeaveAgain
  BY <1>5, SubLeaveSymbols
<1>6. CASE Start
  BY <1>6, SymbolsFrameLemma DEF AllInv, Start, registry, lua
<1>7. CASE EndWalk
  BY <1>7, SymbolsFrameLemma DEF AllInv, EndWalk, GoesOn, registry, lua
<1>8. CASE \E i \in Items : Panic(i)
  BY <1>8, SymbolsFrameLemma DEF AllInv, Panic, registry, lua
<1>9. CASE UNCHANGED vars
  BY <1>9, SymbolsFrameLemma DEF AllInv, SymbolsInv, vars, registry, lua, loop, Top
<1>10. QED
  BY <1>1, <1>2, <1>3, <1>4, <1>5, <1>6, <1>7, <1>8, <1>9 DEF Next, BindStep

\* The table of the only base of a class that is bound.
LEMMA BaseLemma ==
  ASSUME AllInv, SymbolsInv, NEW d \in held, NEW t \in Types, SingleBase(d, t),
         CheckDependency(d), Readable(d), Publish(d)
  PROVE  index'[d] \in Items /\ Provides[index'[d]] = t
<1>1. PICK b \in held : Provides[b] = t
  BY DEF CheckDependency, SingleBase, AllInv, ItemsInv, LookupExact
<1>2. d \in Items /\ b \in Items /\ Needs[d] = {t}
  BY DEF AllInv, TypeOK, SingleBase
<1>3. Kind[b] = "class" /\ t \in lookup
  BY <1>1, <1>2, ItemsAssumption DEF SingleBase, CheckDependency
<1>4. status[b]
  BY <1>1, <1>3 DEF AllInv, ItemsInv, LookupExact
<1>5. \A c \in held : {Provides[c]} = Needs[d] => c = b
  <2> SUFFICES ASSUME NEW c \in held, {Provides[c]} = Needs[d]
               PROVE  c = b
    OBVIOUS
  <2>1. Provides[c] = Provides[b] /\ c \in Items
    BY <1>1, <1>2 DEF AllInv, TypeOK
  <2>2. Module[b] = Module[c] /\ Key[b] = Key[c]
    BY <1>2, <1>3, <2>1, ProgramAssumption
  <2>3. QED
    BY <2>2 DEF AllInv, ItemsInv, FilingInv
<1>6. (CHOOSE c \in held : {Provides[c]} = Needs[d]) = b
  BY <1>1, <1>2, <1>5
<1>7. index' = [index EXCEPT ![d] = Symbol(b)]
  BY <1>1, <1>6 DEF Publish, IndexWith
<1>8. Symbol(b) = b
  <2>1. CASE Module[b] = Root
    BY <1>4, <2>1 DEF Symbol, SymbolsInv
  <2>2. CASE Module[b] # Root
    <3>1. Module[b] \in Subs
      BY <1>2, <2>2, ItemsAssumption
    <3>2. loaded[Module[b]] = Module[b]
      BY <1>1, <2>2, <3>1 DEF Readable, SymbolsInv
    <3>3. b \in fields[Module[b]]
      BY <1>4, <3>1 DEF SymbolsInv, FieldsOf
    <3>4. QED
      BY <2>2, <3>2, <3>3 DEF Symbol
  <2>3. QED
    BY <2>1, <2>2
<1>9. QED
  BY <1>1, <1>2, <1>7, <1>8 DEF AllInv, TypeOK

\* What keeps the metatables of the classes that are bound.
LEMMA IndexFrameLemma ==
  ASSUME IndexReadsBase, index' = index, \A i \in Items : status'[i] = status[i]
  PROVE  IndexReadsBase'
BY DEF IndexReadsBase, SingleBase

LEMMA PublishIndex ==
  ASSUME AllInv, SymbolsInv, IndexReadsBase, NEW i \in held, Bind(i)
  PROVE  IndexReadsBase'
<1>1. i \in Items /\ i \in Entries
  BY DEF AllInv, TypeOK, Entries
<1>2. \A d \in Items \ {i} : status'[d] = status[d] /\ index'[d] = index[d]
  BY <1>1 DEF AllInv, TypeOK, Bind, Publish, IndexWith, Entries
<1>3. ASSUME NEW t \in Types, SingleBase(i, t)
      PROVE  index'[i] \in Items /\ Provides[index'[i]] = t
  BY <1>3, BaseLemma DEF Bind
<1>4. QED
  BY <1>2, <1>3 DEF IndexReadsBase, SingleBase

LEMMA NextIndex ==
  ASSUME AllInv, SymbolsInv, IndexReadsBase, [Next]_vars
  PROVE  IndexReadsBase'
<1>1. ASSUME NEW i \in Items, Make(i) PROVE IndexReadsBase'
  <2>1. Module[i] = Root \/ Module[i] \in Subs
    BY ItemsAssumption
  <2>2. \A j \in Items : status'[j] = status[j]
    BY <1>1, <2>1, NamesAssumption DEF AllInv, TypeOK, Make, StatusAfterMake, Entries
  <2>3. QED
    BY <1>1, <2>2, IndexFrameLemma DEF Make
<1>2. ASSUME NEW i \in Items, RootItem(i) PROVE IndexReadsBase'
  <2>1. i \in held
    BY <1>2, NextItemLemma DEF AllInv, RootItem
  <2>2. QED
    BY <1>2, <2>1, PublishIndex, IndexFrameLemma DEF RootItem, Fail
<1>3. ASSUME NEW i \in Items, SubItem(i) PROVE IndexReadsBase'
  <2>1. i \in held
    BY <1>3, NextItemLemma DEF AllInv, SubItem
  <2>2. QED
    BY <1>3, <2>1, PublishIndex, IndexFrameLemma DEF SubItem, Fail
<1>4. ASSUME SubLeaveFirst \/ SubLeaveAgain PROVE IndexReadsBase'
  <2>1. current \in Subs
    BY <1>4 DEF AllInv, TablesInv, TypeOK, SubLeaveFirst, SubLeaveAgain
  <2>2. \A j \in Items : status'[j] = status[j]
    BY <1>4, <2>1, NamesAssumption DEF AllInv, TypeOK, SubLeaveFirst, SubLeaveAgain, Entries
  <2>3. QED
    BY <1>4, <2>2, IndexFrameLemma DEF SubLeaveFirst, SubLeaveAgain
<1>5. CASE \/ \E s \in Subs : SubEnter(s)
           \/ Start \/ EndWalk \/ (\E i \in Items : Panic(i)) \/ UNCHANGED vars
  BY <1>5, IndexFrameLemma DEF SubEnter, Start, EndWalk, Panic, vars
<1>6. QED
  BY <1>1, <1>2, <1>3, <1>4, <1>5 DEF Next, BindStep

(* What is bound reads back under its name, as get_symbol() and require()  *)
(* ask for it, whatever the order of the names and however often bind()    *)
(* ran, if no bindable of a sub-module leaves its table when it fails.     *)
THEOREM SymbolsAreRead ==
  ASSUME NoLitterInside
  PROVE  Spec => []SymbolsReadBack
<1>1. AllInv /\ SymbolsInv => SymbolsReadBack
  BY DEF AllInv, TypeOK, SymbolsInv, SymbolsReadBack, FieldsOf
<1>2. Init => SymbolsInv
  BY InitSymbols
<1>3. AllInv /\ SymbolsInv /\ [Next]_vars => SymbolsInv'
  BY NextSymbols
<1>4. QED
  BY <1>1, <1>2, <1>3, InvariantHolds, PTL DEF Spec

(* A class with one base inherits its static methods: the metatable of its *)
(* instances reads on in the table of that very base, in whichever module  *)
(* the base is filed, since inheritance_index finds it bound by its name.  *)
THEOREM StaticsAreInherited ==
  ASSUME NoLitterInside
  PROVE  Spec => []IndexReadsBase
<1>1. Init => SymbolsInv /\ IndexReadsBase
  BY InitSymbols
<1>2. AllInv /\ SymbolsInv /\ IndexReadsBase /\ [Next]_vars => SymbolsInv' /\ IndexReadsBase'
  BY NextSymbols, NextIndex
<1>3. QED
  BY <1>1, <1>2, InvariantHolds, PTL DEF Spec

===============================================================================
