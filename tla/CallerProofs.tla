------------------------------- MODULE CallerProofs -------------------------------
(***************************************************************************)
(* Proofs about Caller: the results of a call are found on the stack by    *)
(* their distance from the top.                                            *)
(***************************************************************************)
EXTENDS Caller, FiniteSetTheorems, SequenceTheorems, TLAPS

(***************************************************************************)
(* The inductive invariant.                                                *)
(***************************************************************************)

\* The objects among the first n values to read.
ObjectsRead(c, n) == Cardinality({k \in 1..n : ToRead(c)[k] = "object"})

\* The results that were read, those above the objects, and how many there are.
ReadInv(l) ==
  LET n == Len(l.got)
      d == l.count - n
  IN  /\ n <= l.count
      /\ Len(l.stack) = l.base + ObjectsRead(l.caller, n) + d
      /\ \A j \in 1..d : l.stack[Len(l.stack) - d + j] = TheResult(n + j)
      /\ \A k \in 1..n : l.got[k] = TheResult(k)

LevelInv(l) ==
  /\ l.phase = "idle" => l.base = Len(l.stack)
  /\ l.phase # "idle" => l.caller \in Callers /\ l.count = Wanted(l.caller)
  /\ l.phase = "lua" => l.base = Len(l.stack) /\ l.got = << >>
  /\ l.phase = "read" /\ OwnCounter(l) => ReadInv(l)

LevelsInv == \A k \in 1..Len(levels) : LevelInv(levels[k])

\* The counter of a caller that was not invoked again.
Counts(l, counters) ==
  l.phase # "idle" /\ OwnCounter(l) /\ ~Local[l.caller] =>
    counters[l.caller] = l.count - Len(l.got)

CountersInv == \A k \in 1..Len(levels) : Counts(levels[k], nbOutput)

\* Who was invoked again is known.
AgainInv ==
  \A k, m \in 1..Len(levels) :
    k < m /\ levels[m].phase # "idle" /\ levels[k].caller = levels[m].caller =>
      levels[k].again

IInv ==
  /\ TypeOK /\ LevelsInv /\ CountersInv /\ AgainInv
  /\ ResultsInOrder /\ LeftExact

\* A step of NothingTaken.
Keeps ==
  \A k \in 1..Len(levels) :
    k <= Len(levels') /\ (levels[k].phase = "idle" \/ OwnCounter(levels[k])) =>
      Len(levels'[k].stack) >= levels[k].base

(***************************************************************************)
(* What is counted.                                                        *)
(***************************************************************************)

LEMMA CountedLemma ==
  ASSUME NEW c \in Callers, NEW n \in 0..Len(Params[c])
  PROVE  Counted(c, n) \in Nat /\ Inputs(c, n) \in Nat
<1>1. n \in Nat
  BY CallerAssumption
<1>2. IsFiniteSet(1..n)
  BY <1>1, FS_Interval
<1>3. /\ IsFiniteSet({i \in 1..n : ~Params[c][i].input})
      /\ IsFiniteSet({i \in 1..n : Params[c][i].input})
  BY <1>2, FS_Subset
<1>4. /\ Cardinality({i \in 1..n : ~Params[c][i].input}) \in Nat
      /\ Cardinality({i \in 1..n : Params[c][i].input}) \in Nat
  BY <1>3, FS_CardinalityType
<1> QED
  BY <1>4 DEF Counted, Inputs

\* As much is read as was asked for.
LEMMA ToReadLemma ==
  ASSUME NEW c \in Callers
  PROVE  Len(ToRead(c)) \in Nat /\ (OneWay(c) => Len(ToRead(c)) = Wanted(c))
<1> DEFINE n == Len(Params[c])
           own == IF Result[c] = "none" THEN << >> ELSE <<Result[c]>>
           m == Cardinality(Outputs(c))
           S == {Params[c][TheOutput(c, k)].kind : k \in 1..m}
           outs == [k \in 1..m |-> Params[c][TheOutput(c, k)].kind]
           T == S \cup {Result[c]}
<1>1. n \in Nat /\ IsFiniteSet(1..n)
  BY CallerAssumption, FS_Interval
<1>2. m \in Nat
  BY <1>1, FS_Subset, FS_CardinalityType DEF Outputs
<1>3. own \in Seq(T) /\ Len(own) = IF Result[c] = "none" THEN 0 ELSE 1
  OBVIOUS
<1>4. outs \in Seq(T) /\ Len(outs) = m
  <2> HIDE DEF m
  <2>1. \A k \in 1..m : Params[c][TheOutput(c, k)].kind \in T
    OBVIOUS
  <2> HIDE DEF T, S
  <2>2. outs \in [1..m -> T]
    BY <2>1
  <2> QED
    BY <1>2, <2>2
<1>5. ToRead(c) = own \o outs
  BY DEF ToRead
<1> HIDE DEF own, outs, T, S, m
<1>6. Len(ToRead(c)) = Len(own) + m
  BY <1>3, <1>4, <1>5, ConcatProperties
<1>7. OneWay(c) => Outputs(c) = {i \in 1..n : ~Params[c][i].input}
  BY CallerAssumption DEF OneWay, Outputs
<1>8. Len(own) \in Nat /\ Len(ToRead(c)) \in Nat
  BY <1>2, <1>3, <1>6
<1> QED
  BY <1>3, <1>6, <1>7, <1>8 DEF Wanted, Counted, m

LEMMA ObjectsReadLemma ==
  ASSUME NEW c, NEW n \in Nat
  PROVE  /\ ObjectsRead(c, n) \in Nat /\ ObjectsRead(c, 0) = 0
         /\ ObjectsRead(c, n + 1) =
              ObjectsRead(c, n) + IF ToRead(c)[n + 1] = "object" THEN 1 ELSE 0
<1> DEFINE O(m) == {k \in 1..m : ToRead(c)[k] = "object"}
<1>1. IsFiniteSet(1..n)
  BY FS_Interval
<1>2. IsFiniteSet(O(n)) /\ Cardinality(O(n)) \in Nat
  BY <1>1, FS_Subset, FS_CardinalityType
<1>3. O(0) = {}
  OBVIOUS
<1>4. Cardinality(O(0)) = 0
  BY <1>3, FS_EmptySet
<1>5. \A k \in 1..(n + 1) : k \in 1..n \/ k = n + 1
  OBVIOUS
<1>6. n + 1 \notin O(n) /\ \A k \in 1..n : k \in 1..(n + 1)
  OBVIOUS
<1>7. O(n + 1) = IF ToRead(c)[n + 1] = "object" THEN O(n) \cup {n + 1} ELSE O(n)
  BY <1>5, <1>6
<1>8. Cardinality(O(n) \cup {n + 1}) = Cardinality(O(n)) + 1
  BY <1>2, <1>6, FS_AddElement
<1> QED
  BY <1>2, <1>4, <1>7, <1>8 DEF ObjectsRead

(***************************************************************************)
(* Levels.                                                                 *)
(***************************************************************************)

LEMMA InitInv == Init => IInv
<1> SUFFICES ASSUME Init PROVE IInv
  OBVIOUS
<1> DEFINE idle == Idle(<< >>)
<1>1. /\ idle \in Level /\ idle.phase = "idle" /\ idle.caller = "none"
      /\ idle.base = Len(idle.stack)
  BY DEF Idle, Level
<1> HIDE DEF idle
<1>2. levels \in Seq(Level) /\ Len(levels) = 1 /\ levels[1] = idle
  BY <1>1 DEF Init, idle
<1>3. \A k \in 1..1 : k = 1
  OBVIOUS
<1>4. TypeOK
  BY <1>1, <1>2, <1>3 DEF Init, TypeOK
<1>5. LevelsInv /\ CountersInv
  BY <1>1, <1>2, <1>3 DEF LevelsInv, LevelInv, CountersInv, Counts
<1>6. AgainInv
  BY <1>1, <1>2, <1>3 DEF AgainInv
<1>7. ResultsInOrder /\ LeftExact
  BY DEF Init, NoAnswer, ResultsInOrder, LeftExact
<1> QED
  BY <1>4, <1>5, <1>6, <1>7 DEF IInv

LEMMA InnerLemma ==
  ASSUME IInv, levels # << >>
  PROVE  /\ Len(levels) \in Nat \ {0} /\ Inner = levels[Len(levels)] /\ Inner \in Level
         /\ Inner.phase = "idle" <=> Inner.caller = "none"
         /\ LevelInv(Inner) /\ Counts(Inner, nbOutput)
         /\ Inner.stack \in Seq(Values) /\ Inner.got \in Seq(Values)
         /\ Inner.base \in Nat /\ Inner.count \in Nat /\ Inner.again \in BOOLEAN
<1>1. levels \in Seq(Level) /\ Len(levels) \in Nat \ {0} /\ Inner = levels[Len(levels)]
  BY DEF IInv, TypeOK, Inner
<1>2. Len(levels) \in 1..Len(levels)
  BY <1>1
<1>3. Inner \in Level
  BY <1>1, <1>2
<1> QED
  BY <1>1, <1>2, <1>3 DEF IInv, TypeOK, LevelsInv, CountersInv, Level

\* The levels below the innermost one wait for Lua.
LEMMA BelowLemma ==
  ASSUME IInv, NEW k \in 1..Len(levels), k # Len(levels)
  PROVE  /\ k < Len(levels) /\ levels[k] \in Level /\ levels[k].phase = "lua"
         /\ levels[k].base = Len(levels[k].stack) /\ levels[k].base \in Nat
         /\ levels[k].caller \in Callers /\ levels[k].again \in BOOLEAN
<1>1. k < Len(levels) /\ levels[k] \in Level
  BY DEF IInv, TypeOK
<1> QED
  BY <1>1 DEF IInv, TypeOK, LevelsInv, LevelInv, Level

\* The innermost level becomes l.
LEMMA SetStep ==
  ASSUME IInv, levels # << >>, NEW l \in Level, Set(l), LevelInv(l), Counts(l, nbOutput'),
         l.phase = "idle" <=> l.caller = "none",
         l.phase # "idle" =>
           Inner.phase # "idle" /\ l.caller = Inner.caller /\ l.again = Inner.again,
         l.phase # "idle" /\ OwnCounter(l) => l.base <= Len(l.stack),
         nbOutput' \in [Callers -> Int],
         \A d \in Callers : nbOutput'[d] # nbOutput[d] => Inner.phase # "idle" /\ d = Inner.caller,
         ResultsInOrder', LeftExact',
         Inner.phase = "idle" \/ OwnCounter(Inner) => Len(l.stack) >= Inner.base
  PROVE  IInv' /\ Keeps
<1> DEFINE n == Len(levels)
<1>1. n \in Nat \ {0} /\ Inner = levels[n] /\ levels \in Seq(Level)
  BY InnerLemma DEF IInv, TypeOK
<1>2. /\ levels' \in Seq(Level) /\ Len(levels') = n /\ levels'[n] = l
      /\ \A k \in 1..n : k # n => levels'[k] = levels[k]
  BY <1>1 DEF Set
<1>3. \A k \in 1..n : k # n => k < n /\ levels[k].phase = "lua"
  BY BelowLemma
<1> HIDE DEF n
<1>4. TypeOK'
  <2>1. ASSUME NEW k \in 1..n
        PROVE  /\ levels'[k].phase # "idle" /\ OwnCounter(levels'[k]) =>
                    levels'[k].base <= Len(levels'[k].stack)
               /\ levels'[k].phase = "idle" <=> levels'[k].caller = "none"
               /\ k < n => levels'[k].phase = "lua"
    <3>1. CASE k = n
      BY <1>1, <1>2, <3>1
    <3>2. CASE k # n
      BY <1>2, <1>3, <3>2 DEF IInv, TypeOK, n
    <3> QED
      BY <3>1, <3>2
  <2> QED
    BY <1>2, <2>1 DEF TypeOK
<1>5. LevelsInv'
  BY <1>2 DEF IInv, LevelsInv, n
<1>6. CountersInv'
  <2>1. ASSUME NEW k \in 1..n, k # n PROVE Counts(levels[k], nbOutput')
    <3>1. /\ levels[k].caller \in Callers
          /\ Counts(levels[k], nbOutput)
          /\ Inner.phase # "idle" /\ levels[k].caller = Inner.caller => levels[k].again
      BY <1>1, <1>3, <2>1, BelowLemma DEF IInv, CountersInv, AgainInv, n
    <3> QED
      BY <3>1 DEF Counts, OwnCounter
  <2> QED
    BY <1>2, <2>1 DEF CountersInv
<1>7. AgainInv'
  <2>1. ASSUME NEW k \in 1..n, NEW m \in 1..n, k < m, levels'[m].phase # "idle",
               levels'[k].caller = levels'[m].caller
        PROVE  levels'[k].again
    <3>1. k # n
      BY <1>1, <2>1
    <3>2. levels[m].phase # "idle" /\ levels[k].caller = levels[m].caller
      BY <1>1, <1>2, <2>1, <3>1
    <3> QED
      BY <1>2, <2>1, <3>1, <3>2 DEF IInv, AgainInv, n
  <2> QED
    BY <1>2, <2>1 DEF AgainInv
<1>8. Keeps
  <2>1. ASSUME NEW k \in 1..n, levels[k].phase = "idle" \/ OwnCounter(levels[k])
        PROVE  Len(levels'[k].stack) >= levels[k].base
    <3>1. CASE k = n
      BY <1>1, <1>2, <2>1, <3>1
    <3>2. CASE k # n
      BY <1>2, <3>2, BelowLemma DEF n
    <3> QED
      BY <3>1, <3>2
  <2> QED
    BY <1>2, <2>1 DEF Keeps, n
<1> QED
  BY <1>4, <1>5, <1>6, <1>7, <1>8 DEF IInv

\* The innermost level is left.
LEMMA FrontStep ==
  ASSUME IInv, levels # << >>, levels' = Front(levels), nbOutput' = nbOutput,
         ResultsInOrder', LeftExact'
  PROVE  IInv' /\ Keeps
<1> DEFINE n == Len(levels)
           m == n - 1
<1>1. n \in Nat \ {0} /\ m \in Nat /\ n = m + 1 /\ levels \in Seq(Level)
  BY InnerLemma DEF IInv, TypeOK
<1>2. /\ levels' \in Seq(Level) /\ Len(levels') = m
      /\ \A k \in 1..m : levels'[k] = levels[k]
  BY <1>1 DEF Front
<1> HIDE DEF m, n
<1>3. \A k \in 1..m : k \in 1..n /\ k # n /\ k < n
  BY <1>1
<1>4. \A k \in 1..m : levels[k].phase = "lua"
  BY <1>3, BelowLemma DEF n
<1>5. TypeOK'
  BY <1>2, <1>3, <1>4 DEF IInv, TypeOK, n
<1>6. LevelsInv' /\ CountersInv' /\ AgainInv'
  BY <1>2, <1>3 DEF IInv, LevelsInv, CountersInv, AgainInv, n
<1>7. Keeps
  <2>1. \A k \in 1..n : k <= m => k \in 1..m
    BY <1>1
  <2>2. \A k \in 1..m : Len(levels'[k].stack) >= levels[k].base
    BY <1>2, <1>3, BelowLemma DEF n
  <2> QED
    BY <1>2, <2>1, <2>2 DEF Keeps, n
<1> QED
  BY <1>5, <1>6, <1>7 DEF IInv

\* A level below another that invokes c.
LEMMA AgainLemma ==
  ASSUME NEW l \in Level, NEW c
  PROVE  LET r == Below(l, c)
         IN  /\ r \in Level
             /\ r.phase = l.phase /\ r.caller = l.caller /\ r.stack = l.stack
             /\ r.base = l.base /\ r.count = l.count /\ r.got = l.got
             /\ l.again => r.again
             /\ l.caller = c => r.again
<1> DEFINE b == l.again \/ l.caller = c
           r == [l EXCEPT !.again = b]
<1>1. b \in BOOLEAN /\ (l.again => b) /\ (l.caller = c => b)
  BY Zenon
<1> HIDE DEF b
<1>2. /\ r \in Level /\ r.again = b
      /\ r.phase = l.phase /\ r.caller = l.caller /\ r.stack = l.stack
      /\ r.base = l.base /\ r.count = l.count /\ r.got = l.got
  BY <1>1 DEF Level
<1>3. (l.again => r.again) /\ (l.caller = c => r.again)
  BY <1>1, <1>2
<1> HIDE DEF r
<1>4. r = Below(l, c)
  BY Zenon DEF r, b, Below
<1> QED
  BY <1>2, <1>3, <1>4

\* The innermost level becomes l, and c was invoked.
LEMMA AgainStep ==
  ASSUME IInv, levels # << >>, NEW c \in Callers, NEW l \in Level, SetAgain(c, l),
         LevelInv(l), Counts(l, nbOutput'),
         l.phase = "idle" <=> l.caller = "none",
         l.phase # "idle" => l.caller = c,
         l.phase # "idle" /\ OwnCounter(l) => l.base <= Len(l.stack),
         nbOutput' \in [Callers -> Int],
         \A d \in Callers : nbOutput'[d] # nbOutput[d] => d = c,
         ResultsInOrder', LeftExact',
         Len(l.stack) >= Inner.base
  PROVE  IInv' /\ Keeps
<1> DEFINE n == Len(levels)
           R(k) == Below(levels[k], c)
<1>1. n \in Nat \ {0} /\ Inner = levels[n] /\ levels \in Seq(Level)
  BY InnerLemma DEF IInv, TypeOK
<1>2. \A k \in 1..n : levels[k] \in Level /\ R(k) \in Level
  BY <1>1, AgainLemma
<1>3. levels' = [k \in 1..n |-> IF k = n THEN l ELSE R(k)]
  BY DEF SetAgain
<1>4. levels' \in [1..n -> Level] /\ levels'[n] = l /\ \A k \in 1..n : k # n => levels'[k] = R(k)
  BY <1>1, <1>2, <1>3
<1> HIDE DEF n
<1>5. levels' \in Seq(Level) /\ Len(levels') = n
  BY <1>1, <1>4, IsASeq
<1>6. ASSUME NEW k \in 1..n, k # n
      PROVE  LET r == levels'[k]
                 o == levels[k]
             IN  /\ k < n /\ o.phase = "lua" /\ o.base = Len(o.stack) /\ o.base \in Nat
                 /\ o.caller \in Callers
                 /\ r.phase = o.phase /\ r.caller = o.caller /\ r.stack = o.stack
                 /\ r.base = o.base /\ r.count = o.count /\ r.got = o.got
                 /\ o.again => r.again
                 /\ o.caller = c => r.again
  BY <1>4, <1>6, BelowLemma, AgainLemma DEF R, n
<1>7. TypeOK'
  <2>1. ASSUME NEW k \in 1..n
        PROVE  /\ levels'[k].phase # "idle" /\ OwnCounter(levels'[k]) =>
                    levels'[k].base <= Len(levels'[k].stack)
               /\ levels'[k].phase = "idle" <=> levels'[k].caller = "none"
               /\ k < n => levels'[k].phase = "lua"
    <3>1. CASE k = n
      BY <1>1, <1>4, <3>1
    <3>2. CASE k # n
      BY <1>6, <3>2 DEF IInv, TypeOK, n
    <3> QED
      BY <3>1, <3>2
  <2> QED
    BY <1>5, <2>1 DEF TypeOK
<1>8. LevelsInv'
  <2>1. ASSUME NEW k \in 1..n, k # n PROVE LevelInv(levels'[k])
    BY <1>6, <2>1 DEF IInv, LevelsInv, LevelInv, n
  <2> QED
    BY <1>4, <1>5, <2>1 DEF LevelsInv
<1>9. CountersInv'
  <2>1. ASSUME NEW k \in 1..n, k # n PROVE Counts(levels'[k], nbOutput')
    <3>1. Counts(levels[k], nbOutput)
      BY DEF IInv, CountersInv, n
    <3> QED
      BY <1>6, <2>1, <3>1 DEF Counts, OwnCounter
  <2> QED
    BY <1>4, <1>5, <2>1 DEF CountersInv
<1>10. AgainInv'
  <2>1. ASSUME NEW k \in 1..n, NEW m \in 1..n, k < m, levels'[m].phase # "idle",
               levels'[k].caller = levels'[m].caller
        PROVE  levels'[k].again
    <3>1. k # n
      BY <1>1, <2>1
    <3>2. CASE m = n
      BY <1>4, <1>6, <2>1, <3>1, <3>2
    <3>3. CASE m # n
      BY <1>6, <2>1, <3>1, <3>3 DEF IInv, AgainInv, n
    <3> QED
      BY <3>2, <3>3
  <2> QED
    BY <1>5, <2>1 DEF AgainInv
<1>11. Keeps
  <2>1. ASSUME NEW k \in 1..n PROVE Len(levels'[k].stack) >= levels[k].base
    <3>1. CASE k = n
      BY <1>1, <1>4, <3>1
    <3>2. CASE k # n
      BY <1>6, <3>2
    <3> QED
      BY <3>1, <3>2
  <2> QED
    BY <1>5, <2>1 DEF Keeps, n
<1> QED
  BY <1>7, <1>8, <1>9, <1>10, <1>11 DEF IInv

LEMMA LuaCallsStep == ASSUME IInv, LuaCalls PROVE IInv' /\ Keeps
<1> DEFINE n == Len(levels)
           l == Idle(<< >>)
<1>1. /\ levels # << >> /\ Inner.phase = "lua" /\ levels' = Append(levels, l)
      /\ nbOutput' = nbOutput /\ answer' = answer
  BY DEF LuaCalls, Busy
<1>2. /\ l \in Level /\ l.phase = "idle" /\ l.caller = "none" /\ l.base = Len(l.stack)
  BY DEF Idle, Level
<1> HIDE DEF l
<1>3. n \in Nat \ {0} /\ Inner = levels[n] /\ levels \in Seq(Level)
  BY <1>1, InnerLemma DEF IInv, TypeOK
<1>4. /\ levels' \in Seq(Level) /\ Len(levels') = n + 1 /\ levels'[n + 1] = l
      /\ \A k \in 1..n : levels'[k] = levels[k]
  BY <1>1, <1>2, <1>3
<1> HIDE DEF n
<1>5. \A k \in 1..(n + 1) : k = n + 1 \/ k \in 1..n
  BY <1>3
<1>6. ASSUME NEW k \in 1..n
      PROVE  levels[k].phase = "lua" /\ Len(levels[k].stack) >= levels[k].base
  <2>1. levels[k].base = Len(levels[k].stack) /\ levels[k].phase = "lua" /\ levels[k] \in Level
    BY <1>1, <1>3, BelowLemma, InnerLemma DEF n, LevelInv
  <2> QED
    BY <2>1 DEF Level
<1>7. TypeOK'
  <2>1. ASSUME NEW k \in 1..(n + 1)
        PROVE  /\ levels'[k].phase # "idle" /\ OwnCounter(levels'[k]) =>
                    levels'[k].base <= Len(levels'[k].stack)
               /\ levels'[k].phase = "idle" <=> levels'[k].caller = "none"
               /\ k < n + 1 => levels'[k].phase = "lua"
    <3>1. CASE k = n + 1
      BY <1>2, <1>3, <1>4, <3>1
    <3>2. CASE k \in 1..n
      BY <1>4, <1>6, <3>2 DEF IInv, TypeOK, n
    <3> QED
      BY <1>5, <3>1, <3>2
  <2> QED
    BY <1>1, <1>4, <2>1 DEF IInv, TypeOK
<1>8. LevelsInv' /\ CountersInv'
  BY <1>1, <1>2, <1>4, <1>5 DEF IInv, LevelsInv, CountersInv, LevelInv, Counts, n
<1>9. AgainInv'
  <2>1. ASSUME NEW k \in 1..(n + 1), NEW m \in 1..(n + 1), k < m, levels'[m].phase # "idle",
               levels'[k].caller = levels'[m].caller
        PROVE  levels'[k].again
    <3>1. m \in 1..n /\ k \in 1..n
      BY <1>2, <1>3, <1>4, <1>5, <2>1
    <3> QED
      BY <1>4, <2>1, <3>1 DEF IInv, AgainInv, n
  <2> QED
    BY <1>4, <2>1 DEF AgainInv
<1>10. ResultsInOrder' /\ LeftExact'
  BY <1>1 DEF IInv, ResultsInOrder, LeftExact, InOrder
<1>11. Keeps
  BY <1>4, <1>6 DEF Keeps, n
<1> QED
  BY <1>7, <1>8, <1>9, <1>10, <1>11 DEF IInv

LEMMA LuaGoesOnStep == ASSUME IInv, LuaGoesOn PROVE IInv' /\ Keeps
<1>1. /\ levels # << >> /\ levels' = Front(levels) /\ nbOutput' = nbOutput
      /\ answer' = NoAnswer
  BY DEF LuaGoesOn, Busy
<1>2. ResultsInOrder' /\ LeftExact'
  BY <1>1 DEF NoAnswer, ResultsInOrder, LeftExact
<1> QED
  BY <1>1, <1>2, FrontStep

(***************************************************************************)
(* Invocations.                                                            *)
(***************************************************************************)

LEMMA IdleLemma ==
  ASSUME NEW s \in Seq(Values)
  PROVE  /\ Idle(s) \in Level /\ LevelInv(Idle(s)) /\ Idle(s).stack = s
         /\ Idle(s).phase = "idle" /\ Idle(s).caller = "none"
BY DEF Idle, Level, LevelInv

LEMMA LeaveLemma ==
  ASSUME NEW s \in Seq(Values)
  PROVE  Leave(s) \in Seq(Values) /\ Len(Leave(s)) = Len(s)
<1>1. Len(s) \in Nat /\ Leftover \in Values
  BY DEF Values
<1>2. Leave(s) \in [1..Len(s) -> Values]
  BY <1>1 DEF Leave
<1> QED
  BY <1>1, <1>2, IsASeq

LEMMA InvokeStep == ASSUME IInv, NEW c \in Callers, Invoke(c) PROVE IInv' /\ Keeps
<1> DEFINE l == [Idle(Inner.stack) EXCEPT !.caller = c, !.phase = "lua", !.count = Wanted(c)]
<1>1. /\ levels # << >> /\ Inner.phase = "idle" /\ SetAgain(c, l) /\ Counter(c, Wanted(c))
      /\ answer' = NoAnswer
  BY DEF Invoke, Busy
<1>2. /\ Inner.stack \in Seq(Values) /\ Len(Inner.stack) \in Nat
      /\ Inner.base = Len(Inner.stack)
  BY <1>1, InnerLemma DEF LevelInv
<1>3. Wanted(c) \in Nat
  BY CountedLemma, CallerAssumption DEF Wanted
<1>4. /\ l \in Level /\ l.phase = "lua" /\ l.caller = c /\ l.count = Wanted(c)
      /\ l.stack = Inner.stack /\ l.base = Len(l.stack) /\ l.got = << >>
  <2> DEFINE i == Idle(Inner.stack)
  <2>1. i \in Level /\ i.stack = Inner.stack /\ i.base = Len(Inner.stack) /\ i.got = << >>
    BY <1>2, IdleLemma DEF Idle
  <2> HIDE DEF i
  <2>2. l = [i EXCEPT !.caller = c, !.phase = "lua", !.count = Wanted(c)]
    BY DEF i
  <2> HIDE DEF l
  <2> QED
    BY <1>3, <2>1, <2>2 DEF Level
<1> HIDE DEF l
<1>5. LevelInv(l) /\ l.base <= Len(l.stack) /\ Len(l.stack) >= Inner.base
  BY <1>2, <1>4 DEF LevelInv
<1>6. /\ nbOutput' \in [Callers -> Int]
      /\ \A d \in Callers : nbOutput'[d] # nbOutput[d] => d = c
      /\ ~Local[c] => nbOutput'[c] = Wanted(c)
  BY <1>1, <1>3 DEF Counter, IInv, TypeOK
<1>7. Counts(l, nbOutput')
  BY <1>3, <1>4, <1>6 DEF Counts
<1>8. ResultsInOrder' /\ LeftExact'
  BY <1>1 DEF NoAnswer, ResultsInOrder, LeftExact
<1>9. c # "none"
  BY CallerAssumption
<1> QED
  BY <1>1, <1>4, <1>5, <1>6, <1>7, <1>8, <1>9, AgainStep

LEMMA PushFailsStep ==
  ASSUME IInv, NEW c \in Callers, NEW n \in 1..Len(Params[c]), PushFails(c, n)
  PROVE  IInv' /\ Keeps
<1> DEFINE m == Inputs(c, n)
           left == [k \in 1..m |-> Leftover]
           s == Inner.stack \o left
           l == Idle(s)
<1>1. /\ levels # << >> /\ Inner.phase = "idle"
      /\ IF Local[c] THEN Abandon ELSE SetAgain(c, l)
      /\ Counter(c, Counted(c, n))
      /\ answer' = [ended |-> TRUE, caller |-> c, ok |-> FALSE, got |-> << >>,
                    again |-> FALSE, left |-> m]
  BY DEF PushFails, Busy
<1>2. Counted(c, n) \in Nat /\ m \in Nat
  BY CountedLemma, CallerAssumption
<1>3. ResultsInOrder'
  <2>1. Len(answer'.got) = 0
    BY <1>1
  <2> QED
    BY <2>1 DEF ResultsInOrder, InOrder
<1>4. LeftExact'
  BY <1>1 DEF LeftExact
<1>5. CASE Local[c]
  BY <1>1, <1>3, <1>4, <1>5, FrontStep DEF Abandon, Counter
<1>6. CASE ~Local[c]
  <2>1. left \in Seq(Values) /\ Len(left) = m
    <3> HIDE DEF m
    <3>1. left \in [1..m -> Values]
      BY DEF Values
    <3> QED
      BY <1>2, <3>1, IsASeq
  <2> HIDE DEF left, m
  <2>2. /\ Inner.stack \in Seq(Values) /\ Len(Inner.stack) \in Nat
        /\ Inner.base = Len(Inner.stack)
    BY <1>1, InnerLemma DEF LevelInv
  <2>3. s \in Seq(Values) /\ Len(s) = Len(Inner.stack) + m
    BY <2>1, <2>2, ConcatProperties
  <2> HIDE DEF s
  <2>4. /\ l \in Level /\ LevelInv(l) /\ l.stack = s /\ l.phase = "idle" /\ l.caller = "none"
    BY <2>3, IdleLemma
  <2> HIDE DEF l
  <2>5. Counts(l, nbOutput') /\ Len(l.stack) >= Inner.base
    BY <1>2, <2>2, <2>3, <2>4 DEF Counts
  <2>6. /\ nbOutput' \in [Callers -> Int]
        /\ \A d \in Callers : nbOutput'[d] # nbOutput[d] => d = c
    BY <1>1, <1>2 DEF Counter, IInv, TypeOK
  <2> QED
    BY <1>1, <1>3, <1>4, <1>6, <2>4, <2>5, <2>6, AgainStep
<1> QED
  BY <1>5, <1>6

\* An invocation ends.
LEMMA EndStep ==
  ASSUME IInv, levels # << >>, Inner.phase # "idle",
         NEW s \in Seq(Values), NEW ok \in BOOLEAN, NEW got \in Seq(Values), End(s, ok, got),
         nbOutput' \in [Callers -> Int],
         \A d \in Callers : nbOutput'[d] # nbOutput[d] => d = c0 /\ ~Local[c0],
         OwnCounter(Inner) =>
           /\ Len(s) >= Inner.base
           /\ \A k \in 1..Len(got) : got[k] = TheResult(k)
           /\ ok => Len(s) - Inner.base = ObjectsRead(c0, Len(ToRead(c0)))
  PROVE  IInv' /\ Keeps
<1>1. /\ IF ok \/ ~Local[c0] THEN Set(Idle(Leave(s))) ELSE Abandon
      /\ answer' = [ended |-> TRUE, caller |-> c0, ok |-> ok, got |-> got,
                    again |-> Inner.again, left |-> Len(s) - Inner.base]
  BY DEF End
<1>2. Inner \in Level /\ c0 \in Callers /\ Inner.again \in BOOLEAN /\ c0 = Inner.caller
  BY InnerLemma DEF LevelInv, c0
<1>3. /\ answer'.caller = c0 /\ answer'.got = got /\ answer'.left = Len(s) - Inner.base
      /\ answer'.ok = ok /\ answer'.again = Inner.again
  BY <1>1
<1>4. OwnCounter(answer') => OwnCounter(Inner)
  BY <1>2, <1>3 DEF OwnCounter
<1>5. ResultsInOrder'
  BY <1>3, <1>4 DEF ResultsInOrder, InOrder
<1>6. LeftExact'
  BY <1>3, <1>4 DEF LeftExact, ObjectsRead
<1>7. CASE ok \/ ~Local[c0]
  <2> DEFINE l == Idle(Leave(s))
  <2>1. Leave(s) \in Seq(Values) /\ Len(Leave(s)) = Len(s)
    BY LeaveLemma
  <2>2. /\ l \in Level /\ LevelInv(l) /\ l.stack = Leave(s) /\ l.phase = "idle" /\ l.caller = "none"
    BY <2>1, IdleLemma
  <2>3. Set(l)
    BY <1>1, <1>7
  <2> HIDE DEF l
  <2>4. Counts(l, nbOutput')
    BY <2>2 DEF Counts
  <2>5. OwnCounter(Inner) => Len(l.stack) >= Inner.base
    BY <2>1, <2>2
  <2> QED
    BY <1>2, <1>5, <1>6, <2>2, <2>3, <2>4, <2>5, SetStep
<1>8. CASE ~(ok \/ ~Local[c0])
  <2>1. levels' = Front(levels) /\ Local[c0]
    BY <1>1, <1>8 DEF Abandon
  <2>2. nbOutput \in [Callers -> Int] /\ \A d \in Callers : nbOutput'[d] = nbOutput[d]
    BY <2>1 DEF IInv, TypeOK
  <2>3. nbOutput' = nbOutput
    BY <2>2
  <2> QED
    BY <1>5, <1>6, <2>1, <2>3, FrontStep
<1> QED
  BY <1>7, <1>8

\* Only the counter of the caller that reads goes down.
LEMMA DownLemma ==
  ASSUME IInv, levels # << >>, Inner.phase # "idle", Down \/ nbOutput' = nbOutput
  PROVE  /\ nbOutput' \in [Callers -> Int]
         /\ \A d \in Callers : nbOutput'[d] # nbOutput[d] => d = c0 /\ ~Local[c0]
         /\ Down /\ ~Local[c0] => nbOutput'[c0] = nbOutput[c0] - 1
<1>1. c0 \in Callers /\ nbOutput \in [Callers -> Int]
  BY InnerLemma DEF IInv, TypeOK, LevelInv, c0
<1>2. CASE nbOutput' = nbOutput /\ ~Down
  BY <1>1, <1>2
<1>3. CASE Down /\ Local[c0]
  BY <1>1, <1>3 DEF Down, Counter
<1>4. CASE Down /\ ~Local[c0]
  BY <1>1, <1>4 DEF Down, Counter, NbOutput
<1> QED
  BY <1>2, <1>3, <1>4

LEMMA CallFailsStep == ASSUME IInv, CallFails PROVE IInv' /\ Keeps
<1> DEFINE s == Append(Inner.stack, Message)
<1>1. /\ levels # << >> /\ Inner.phase = "lua" /\ End(s, FALSE, << >>)
      /\ nbOutput' = nbOutput
  BY DEF CallFails, Busy
<1>2. /\ Inner.stack \in Seq(Values) /\ Inner.base = Len(Inner.stack) /\ Inner.base \in Nat
  BY <1>1, InnerLemma DEF LevelInv
<1>3. s \in Seq(Values) /\ Len(s) = Inner.base + 1
  BY <1>2 DEF Values
<1> HIDE DEF s
<1>4. << >> \in Seq(Values) /\ Len(<< >>) = 0 /\ Len(s) >= Inner.base
  BY <1>2, <1>3
<1> DEFINE e == << >>
<1>5. End(s, FALSE, e)
  BY <1>1
<1>6. e \in Seq(Values) /\ Len(e) = 0
  BY <1>4
<1> HIDE DEF e
<1>7. \A k \in 1..Len(e) : e[k] = TheResult(k)
  BY <1>6
<1>8. /\ nbOutput' \in [Callers -> Int]
      /\ \A d \in Callers : nbOutput'[d] # nbOutput[d] => d = c0 /\ ~Local[c0]
  BY <1>1, DownLemma
<1> QED
  BY <1>1, <1>3, <1>4, <1>5, <1>6, <1>7, <1>8, EndStep

\* Inner goes on, and reads.
LEMMA ReadingLevel ==
  ASSUME IInv, levels # << >>, Inner.phase # "idle", NEW s \in Seq(Values), NEW got \in Seq(Values)
  PROVE  LET l == [Inner EXCEPT !.phase = "read", !.stack = s, !.got = got]
         IN  /\ l \in Level /\ l.phase = "read" /\ l.stack = s /\ l.got = got
             /\ l.caller = Inner.caller /\ l.caller # "none" /\ l.again = Inner.again
             /\ l.base = Inner.base /\ l.count = Inner.count
             /\ OwnCounter(l) <=> OwnCounter(Inner)
<1> DEFINE l == [Inner EXCEPT !.phase = "read", !.stack = s, !.got = got]
<1>1. Inner \in Level /\ Inner.caller # "none"
  BY InnerLemma
<1>2. /\ l \in Level /\ l.phase = "read" /\ l.stack = s /\ l.got = got
      /\ l.caller = Inner.caller /\ l.again = Inner.again
      /\ l.base = Inner.base /\ l.count = Inner.count
  BY <1>1 DEF Level
<1> HIDE DEF l
<1>3. OwnCounter(l) <=> OwnCounter(Inner)
  BY <1>2 DEF OwnCounter
<1>4. l.caller # "none"
  BY <1>1, <1>2
<1> QED
  BY <1>2, <1>3, <1>4 DEF l

\* n results on the stack t.
LEMMA PushedLemma ==
  ASSUME NEW t \in Seq(Values), NEW n \in Nat,
         NEW r, r = [k \in 1..n |-> TheResult(k)]
  PROVE  /\ t \o r \in Seq(Values) /\ Len(t \o r) = Len(t) + n
         /\ \A j \in 1..n : (t \o r)[Len(t) + j] = TheResult(j)
<1> DEFINE b == Len(t)
           s == t \o r
<1>1. \A k \in 1..n : TheResult(k) \in Values
  BY DEF TheResult, Values
<1>2. r \in [1..n -> Values] /\ \A j \in 1..n : r[j] = TheResult(j)
  BY <1>1
<1>3. r \in Seq(Values) /\ Len(r) = n
  BY <1>2, IsASeq
<1>4. /\ s \in Seq(Values) /\ Len(s) = b + n /\ b \in Nat
      /\ \A i \in 1..(b + n) : s[i] = IF i <= b THEN t[i] ELSE r[i - b]
  BY <1>3, ConcatProperties
<1> HIDE DEF s, b
<1>5. ASSUME NEW j \in 1..n PROVE s[b + j] = TheResult(j)
  <2>1. b + j \in 1..(b + n) /\ ~(b + j <= b) /\ b + j - b = j
    BY <1>4
  <2> QED
    BY <1>2, <1>4, <2>1
<1> QED
  BY <1>4, <1>5 DEF s, b

LEMMA CallReturnsStep == ASSUME IInv, CallReturns PROVE IInv' /\ Keeps
<1> DEFINE res == [k \in 1..Inner.count |-> TheResult(k)]
           s == Inner.stack \o res
           l == [Inner EXCEPT !.phase = "read", !.stack = s, !.got = << >>]
<1>1. /\ levels # << >> /\ Inner.phase = "lua" /\ nbOutput' = nbOutput /\ answer' = answer
      /\ Set([Inner EXCEPT !.phase = "read", !.stack = @ \o res])
  BY DEF CallReturns, Busy
<1>2. /\ Inner.stack \in Seq(Values) /\ Inner.base = Len(Inner.stack) /\ Inner.base \in Nat
      /\ Inner.count \in Nat /\ Inner.got = << >> /\ Inner \in Level
      /\ Inner.caller \in Callers /\ Inner.count = Wanted(Inner.caller)
  BY <1>1, InnerLemma DEF LevelInv
<1>3. res = [k \in 1..Inner.count |-> TheResult(k)]
  OBVIOUS
<1> HIDE DEF res
<1>4. /\ s \in Seq(Values) /\ Len(s) = Len(Inner.stack) + Inner.count
      /\ \A j \in 1..Inner.count : s[Len(Inner.stack) + j] = TheResult(j)
  BY <1>2, <1>3, PushedLemma
<1>5. /\ s \in Seq(Values) /\ Len(s) = Inner.base + Inner.count
      /\ \A j \in 1..Inner.count : s[Inner.base + j] = TheResult(j)
  BY <1>2, <1>4
<1>6. l = [Inner EXCEPT !.phase = "read", !.stack = @ \o res]
  BY <1>2 DEF Level
<1> HIDE DEF s
<1>7. << >> \in Seq(Values)
  OBVIOUS
<1>8. /\ l \in Level /\ l.phase = "read" /\ l.stack = s /\ l.got = << >>
      /\ l.caller = Inner.caller /\ l.caller # "none" /\ l.again = Inner.again
      /\ l.base = Inner.base /\ l.count = Inner.count
      /\ OwnCounter(l) <=> OwnCounter(Inner)
  BY <1>1, <1>5, <1>7, ReadingLevel
<1>9. Set(l)
  BY <1>1, <1>6
<1> HIDE DEF l
<1>10. ReadInv(l)
  <2>1. Len(l.got) = 0 /\ ObjectsRead(l.caller, 0) = 0
    BY <1>8, ObjectsReadLemma
  <2>2. l.count - 0 = l.count /\ l.count \in Nat /\ l.base + 0 + l.count = Len(l.stack)
    BY <1>2, <1>5, <1>8
  <2>3. ASSUME NEW j \in 1..l.count
        PROVE  l.stack[Len(l.stack) - l.count + j] = TheResult(0 + j)
    <3>1. Len(l.stack) = Inner.base + l.count /\ l.count \in Nat /\ j \in Nat
      BY <1>2, <1>5, <1>8
    <3>2. Len(l.stack) - l.count + j = Inner.base + j /\ 0 + j = j
      BY <1>2, <3>1
    <3> QED
      BY <1>5, <1>8, <3>2
  <2> QED
    BY <2>1, <2>2, <2>3 DEF ReadInv
<1>11. LevelInv(l)
  BY <1>2, <1>8, <1>10 DEF LevelInv
<1>12. Counts(l, nbOutput')
  BY <1>1, <1>2, <1>8, InnerLemma DEF Counts
<1>13. l.base <= Len(l.stack)
  BY <1>2, <1>5, <1>8
<1>14. ResultsInOrder' /\ LeftExact'
  BY <1>1 DEF IInv, ResultsInOrder, LeftExact, InOrder
<1>15. nbOutput' \in [Callers -> Int] /\ \A d \in Callers : nbOutput'[d] = nbOutput[d]
  BY <1>1 DEF IInv, TypeOK
<1>16. Len(l.stack) >= Inner.base
  BY <1>2, <1>5, <1>8
<1> QED
  BY <1>1, <1>8, <1>9, <1>11, <1>12, <1>13, <1>14, <1>15, <1>16, SetStep

(***************************************************************************)
(* Reading.                                                                *)
(***************************************************************************)

\* One value is removed.
LEMMA RemoveAtLemma ==
  ASSUME NEW S, NEW s \in Seq(S), NEW p \in 1..Len(s)
  PROVE  /\ RemoveAt(s, p) \in Seq(S) /\ Len(RemoveAt(s, p)) = Len(s) - 1
         /\ \A i \in p..(Len(s) - 1) : RemoveAt(s, p)[i] = s[i + 1]
<1> DEFINE n == Len(s)
           a == SubSeq(s, 1, p - 1)
           b == SubSeq(s, p + 1, n)
           r == a \o b
<1>1. n \in Nat /\ p \in Nat /\ 1 <= p /\ p <= n
  OBVIOUS
<1>2. a \in Seq(S) /\ Len(a) = p - 1
  BY <1>1, SubSeqProperties
<1>3. b \in Seq(S) /\ Len(b) = n - p /\ \A i \in 1..(n - p) : b[i] = s[p + i]
  BY <1>1, SubSeqProperties
<1> HIDE DEF a, b, n
<1>4. /\ r \in Seq(S) /\ Len(r) = (p - 1) + (n - p)
      /\ \A i \in 1..((p - 1) + (n - p)) : r[i] = IF i <= p - 1 THEN a[i] ELSE b[i - (p - 1)]
  <2>1. /\ r \in Seq(S) /\ Len(r) = Len(a) + Len(b)
        /\ \A i \in 1..(Len(a) + Len(b)) : r[i] = IF i <= Len(a) THEN a[i] ELSE b[i - Len(a)]
    BY <1>2, <1>3, ConcatProperties
  <2>2. Len(a) = p - 1 /\ Len(b) = n - p
    BY <1>2, <1>3
  <2> HIDE DEF r
  <2> QED
    BY <2>1, <2>2
<1> HIDE DEF r
<1>5. (p - 1) + (n - p) = n - 1
  BY <1>1
<1>6. ASSUME NEW i \in p..(n - 1) PROVE r[i] = s[i + 1]
  <2>1. /\ i \in 1..((p - 1) + (n - p)) /\ ~(i <= p - 1)
        /\ i - (p - 1) \in 1..(n - p) /\ p + (i - (p - 1)) = i + 1
    BY <1>1
  <2> QED
    BY <1>3, <1>4, <2>1
<1>7. r = RemoveAt(s, p)
  BY DEF r, a, b, n, RemoveAt
<1> QED
  BY <1>4, <1>5, <1>6, <1>7 DEF n

\* A call that reads with its own counter finds its next result.
LEMMA OwnReadLemma ==
  ASSUME IInv, Reading, OwnCounter(Inner)
  PROVE  LET n == Len(Inner.got)
             d == Inner.count - n
         IN  /\ n \in Nat /\ d \in Nat \ {0} /\ NbOutput = d
             /\ Depth \in Nat /\ d <= Depth
             /\ Position(d) = Depth - d + 1 /\ ~Outside
             /\ Inner.stack[Position(d)] = TheResult(n + 1)
             /\ Depth = Inner.base + ObjectsRead(c0, n) + d
<1> DEFINE n == Len(Inner.got)
           d == Inner.count - n
           o == ObjectsRead(c0, n)
<1>1. levels # << >> /\ Inner.phase = "read" /\ n < Len(ToRead(c0)) /\ c0 = Inner.caller
  BY DEF Reading, Busy, c0
<1>2. /\ Inner.stack \in Seq(Values) /\ Inner.got \in Seq(Values)
      /\ Inner.base \in Nat /\ Inner.count \in Nat
      /\ LevelInv(Inner) /\ Counts(Inner, nbOutput)
  BY <1>1, InnerLemma
<1>3. /\ c0 \in Callers /\ Inner.count = Wanted(c0) /\ ReadInv(Inner)
  BY <1>1, <1>2 DEF LevelInv
<1>4. n \in Nat /\ Depth \in Nat
  BY <1>2 DEF Depth
<1>5. Len(ToRead(c0)) = Inner.count
  BY <1>1, <1>3, ToReadLemma DEF OwnCounter
<1>6. NbOutput = d
  <2>1. CASE Local[c0]
    BY <1>3, <2>1 DEF NbOutput
  <2>2. CASE ~Local[c0]
    BY <1>1, <1>2, <2>2 DEF NbOutput, Counts
  <2> QED
    BY <2>1, <2>2
<1>7. o \in Nat
  BY <1>4, ObjectsReadLemma
<1>8. /\ Depth = Inner.base + o + d
      /\ \A j \in 1..d : Inner.stack[Depth - d + j] = TheResult(n + j)
  BY <1>1, <1>3 DEF ReadInv, Depth
<1> HIDE DEF n, o
<1>9. d \in Nat \ {0}
  BY <1>1, <1>2, <1>4, <1>5
<1> HIDE DEF d
<1>10. d <= Depth /\ Position(d) = Depth - d + 1 /\ Depth - d + 1 \in 1..Depth /\ 1 \in 1..d
  <2>1. d <= Depth /\ Depth - d + 1 \in 1..Depth /\ 1 \in 1..d /\ d > 0
    <3>1. Depth = Inner.base + o + d
      BY <1>8
    <3> QED
      BY <1>2, <1>4, <1>7, <1>9, <3>1
  <2> QED
    BY <2>1 DEF Position
<1>11. ~Outside
  BY <1>6, <1>10 DEF Outside
<1>12. Inner.stack[Position(d)] = TheResult(n + 1)
  BY <1>8, <1>10
<1> QED
  BY <1>4, <1>6, <1>8, <1>9, <1>10, <1>11, <1>12 DEF n, d, o

LEMMA ReadStep == ASSUME IInv, Read PROVE IInv' /\ Keeps
<1> DEFINE p == Position(NbOutput)
           s == Removed(Inner.stack, p)
           v == Inner.stack[p]
           got == Append(Inner.got, v)
           l == [Inner EXCEPT !.phase = "read", !.stack = s, !.got = got]
<1>1. /\ Reading /\ p \in 1..Depth /\ Down /\ answer' = answer
      /\ Set([Inner EXCEPT !.stack = Removed(@, p), !.got = Append(@, Inner.stack[p])])
  BY DEF Read, Outside
<1>2. levels # << >> /\ Inner.phase = "read" /\ c0 = Inner.caller
  BY <1>1 DEF Reading, Busy, c0
<1>3. /\ Inner \in Level /\ Inner.stack \in Seq(Values) /\ Inner.got \in Seq(Values)
      /\ Inner.base \in Nat /\ Inner.count \in Nat /\ Depth = Len(Inner.stack)
      /\ Inner.caller \in Callers /\ Inner.count = Wanted(Inner.caller)
      /\ LevelInv(Inner) /\ Counts(Inner, nbOutput)
  BY <1>2, InnerLemma DEF LevelInv, Depth
<1> HIDE DEF p
<1>4. l = [Inner EXCEPT !.stack = Removed(@, p), !.got = Append(@, Inner.stack[p])]
  BY <1>2, <1>3 DEF Level
<1>5. /\ Kind # "object" => /\ s \in Seq(Values) /\ Len(s) = Depth - 1
                            /\ \A i \in p..(Depth - 1) : s[i] = Inner.stack[i + 1]
      /\ Kind = "object" => s = Inner.stack
  BY <1>1, <1>3, RemoveAtLemma DEF Removed
<1>6. s \in Seq(Values) /\ v \in Values
  BY <1>1, <1>3, <1>5
<1> HIDE DEF s, v
<1>7. /\ got \in Seq(Values) /\ Len(got) = Len(Inner.got) + 1
      /\ got[Len(Inner.got) + 1] = v
      /\ \A k \in 1..Len(Inner.got) : got[k] = Inner.got[k]
  BY <1>3, <1>6
<1> HIDE DEF got
<1>8. /\ l \in Level /\ l.phase = "read" /\ l.stack = s /\ l.got = got
      /\ l.caller = Inner.caller /\ l.caller # "none" /\ l.again = Inner.again
      /\ l.base = Inner.base /\ l.count = Inner.count
      /\ OwnCounter(l) <=> OwnCounter(Inner)
  BY <1>2, <1>6, <1>7, ReadingLevel
<1>9. Set(l)
  BY <1>1, <1>4 DEF s, got, v
<1> HIDE DEF l
<1>10. ASSUME OwnCounter(Inner)
       PROVE  ReadInv(l) /\ Len(l.stack) >= l.base
  <2> DEFINE n == Len(Inner.got)
             d == Inner.count - n
             b == Inner.base
             o == ObjectsRead(c0, n)
             q == ObjectsRead(c0, n + 1)
  <2>1. /\ n \in Nat /\ d \in Nat \ {0} /\ NbOutput = d /\ Depth \in Nat /\ d <= Depth
        /\ Position(d) = Depth - d + 1 /\ Inner.stack[Position(d)] = TheResult(n + 1)
        /\ Depth = b + o + d
    BY <1>1, <1>10, OwnReadLemma
  <2>2. ReadInv(Inner) /\ b \in Nat
    BY <1>2, <1>3, <1>10 DEF LevelInv
  <2>3. /\ \A j \in 1..d : Inner.stack[Depth - d + j] = TheResult(n + j)
        /\ \A k \in 1..n : Inner.got[k] = TheResult(k)
    BY <1>3, <2>2 DEF ReadInv
  <2>4. o \in Nat /\ q = o + (IF Kind = "object" THEN 1 ELSE 0)
    BY <2>1, ObjectsReadLemma DEF Kind
  <2>5. p = Depth - d + 1 /\ v = TheResult(n + 1)
    BY <2>1 DEF p, v
  <2>6. /\ Len(l.got) = n + 1 /\ l.count = Inner.count /\ l.base = b /\ l.stack = s /\ l.got = got
        /\ l.count - (n + 1) = d - 1
    BY <1>3, <1>7, <1>8, <2>1
  <2>7. \A k \in 1..(n + 1) : got[k] = TheResult(k)
    <3>1. \A k \in 1..(n + 1) : k \in 1..n \/ k = n + 1
      BY <2>1
    <3> QED
      BY <1>7, <2>3, <2>5, <3>1
  <2> HIDE DEF n, d, b, o, q
  <2> DEFINE D == Depth
             L == Len(s)
  <2>8. /\ D \in Nat /\ D = b + o + d /\ d \in Nat \ {0} /\ d <= D
        /\ p = D - d + 1 /\ n \in Nat
    BY <2>1, <2>5
  <2>9. L = D - (IF Kind = "object" THEN 0 ELSE 1)
    <3>1. CASE Kind = "object"
      <4>1. s = Inner.stack /\ Depth = Len(Inner.stack)
        BY <1>3, <1>5, <3>1
      <4>2. L = D
        BY <4>1
      <4> QED
        BY <2>8, <3>1, <4>2
    <3>2. CASE Kind # "object"
      BY <1>5, <3>2
    <3> QED
      BY <3>1, <3>2
  <2>10. /\ Kind # "object" => \A i \in p..(D - 1) : s[i] = Inner.stack[i + 1]
         /\ Kind = "object" => s = Inner.stack
         /\ \A j \in 1..d : Inner.stack[D - d + j] = TheResult(n + j)
    BY <1>5, <2>3
  <2> HIDE DEF D, L
  <2>11. L = b + q + (d - 1)
    BY <2>2, <2>4, <2>8, <2>9
  <2>12. ASSUME NEW j \in 1..(d - 1) PROVE s[L - (d - 1) + j] = TheResult((n + 1) + j)
    <3>1. Inner.stack[D - d + (j + 1)] = TheResult((n + 1) + j)
      <4>1. j + 1 \in 1..d /\ n + (j + 1) = (n + 1) + j
        BY <2>8, <2>9
      <4> QED
        BY <2>10, <4>1
    <3>2. CASE Kind = "object"
      <4>1. L - (d - 1) + j = D - d + (j + 1)
        BY <2>8, <2>9, <3>2
      <4> QED
        BY <2>10, <3>1, <3>2, <4>1
    <3>3. CASE Kind # "object"
      <4>1. /\ L - (d - 1) + j = D - d + j
            /\ D - d + j \in p..(D - 1)
            /\ (D - d + j) + 1 = D - d + (j + 1)
        BY <2>8, <2>9, <3>3
      <4>2. s[D - d + j] = Inner.stack[(D - d + j) + 1]
        BY <2>10, <3>3, <4>1
      <4> QED
        BY <3>1, <4>1, <4>2
    <3> QED
      BY <3>2, <3>3
  <2>13. n + 1 <= l.count
    BY <2>1, <2>6, <1>3 DEF d
  <2>14. ReadInv(l)
    BY <1>2, <1>8, <2>6, <2>7, <2>11, <2>12, <2>13 DEF ReadInv, q, L
  <2>15. Len(l.stack) >= l.base
    BY <2>2, <2>4, <2>6, <2>8, <2>11 DEF L
  <2> QED
    BY <2>14, <2>15
<1>11. LevelInv(l)
  BY <1>3, <1>8, <1>10 DEF LevelInv
<1>12. /\ nbOutput' \in [Callers -> Int]
       /\ \A d \in Callers : nbOutput'[d] # nbOutput[d] => d = c0 /\ ~Local[c0]
       /\ ~Local[c0] => nbOutput'[c0] = nbOutput[c0] - 1
  BY <1>1, <1>2, DownLemma
<1>13. Counts(l, nbOutput')
  <2>1. Len(Inner.got) \in Nat
    BY <1>3
  <2> QED
    BY <1>2, <1>3, <1>7, <1>8, <1>12, <2>1 DEF Counts
<1>14. ResultsInOrder' /\ LeftExact'
  BY <1>1 DEF IInv, ResultsInOrder, LeftExact, InOrder
<1>15. OwnCounter(Inner) => Len(l.stack) >= Inner.base /\ l.base <= Len(l.stack)
  <2>1. Len(l.stack) \in Nat /\ l.base \in Nat
    BY <1>3, <1>6, <1>8
  <2> QED
    BY <1>8, <1>10, <2>1
<1> QED
  BY <1>2, <1>8, <1>9, <1>11, <1>12, <1>13, <1>14, <1>15, SetStep

\* A value is refused: the invocation ends with what was read before.
LEMMA RefusedStep ==
  ASSUME IInv, Reading, Refused
  PROVE  IInv' /\ Keeps
<1>1. levels # << >> /\ Inner.phase = "read" /\ c0 = Inner.caller
  BY DEF Reading, Busy, c0
<1>2. /\ Inner.stack \in Seq(Values) /\ Inner.got \in Seq(Values)
      /\ Inner.base \in Nat /\ Inner.count \in Nat /\ LevelInv(Inner)
  BY <1>1, InnerLemma
<1>3. /\ End(Inner.stack, FALSE, Inner.got)
      /\ Down \/ nbOutput' = nbOutput
  BY DEF Refused
<1>4. /\ nbOutput' \in [Callers -> Int]
      /\ \A d \in Callers : nbOutput'[d] # nbOutput[d] => d = c0 /\ ~Local[c0]
  BY <1>1, <1>3, DownLemma
<1>5. ASSUME OwnCounter(Inner)
      PROVE  /\ Len(Inner.stack) >= Inner.base
             /\ \A k \in 1..Len(Inner.got) : Inner.got[k] = TheResult(k)
  <2> DEFINE n == Len(Inner.got)
             d == Inner.count - n
             o == ObjectsRead(c0, n)
  <2>1. /\ n \in Nat /\ d \in Nat /\ Len(Inner.stack) = Inner.base + o + d
        /\ \A k \in 1..Len(Inner.got) : Inner.got[k] = TheResult(k)
    BY <1>5, OwnReadLemma, <1>1, <1>2 DEF ReadInv, LevelInv
  <2>2. o \in Nat
    BY <2>1, ObjectsReadLemma
  <2> HIDE DEF n, d, o
  <2> QED
    BY <1>2, <2>1, <2>2
<1> QED
  BY <1>1, <1>2, <1>3, <1>4, <1>5, EndStep

LEMMA ReadFailsStep == ASSUME IInv, ReadFails PROVE IInv' /\ Keeps
  BY RefusedStep DEF ReadFails

LEMMA ReadOutsideStep == ASSUME IInv, ReadOutside PROVE IInv' /\ Keeps
<1>1. Reading /\ Outside
  BY DEF ReadOutside
<1>2. levels # << >> /\ Inner.phase = "read" /\ c0 = Inner.caller
  BY <1>1 DEF Reading, Busy, c0
<1>3. /\ Inner \in Level /\ Inner.stack \in Seq(Values) /\ Inner.got \in Seq(Values)
      /\ Inner.caller \in Callers /\ Inner.count = Wanted(Inner.caller) /\ LevelInv(Inner)
  BY <1>2, InnerLemma DEF LevelInv
<1>4. ~OwnCounter(Inner)
  BY <1>1, OwnReadLemma
<1>5. CASE Refused
  BY <1>1, <1>5, RefusedStep
<1>6. ASSUME NEW s \in {Inner.stack, IF Depth = 0 THEN << >> ELSE Front(Inner.stack)},
             Set([Inner EXCEPT !.stack = s, !.got = Append(@, Nowhere)]),
             Down, answer' = answer
      PROVE  IInv' /\ Keeps
  <2> DEFINE v == Nowhere
             got == Append(Inner.got, v)
             l == [Inner EXCEPT !.phase = "read", !.stack = s, !.got = got]
  <2>1. s \in Seq(Values)
    <3>1. CASE s = Inner.stack
      BY <1>3, <3>1
    <3>2. CASE s = << >>
      BY <3>2
    <3>3. CASE Depth # 0 /\ s = Front(Inner.stack)
      <4>1. Len(Inner.stack) \in Nat \ {0} /\ Len(Inner.stack) - 1 <= Len(Inner.stack)
        BY <1>3, <3>3 DEF Depth
      <4>2. Front(Inner.stack) = SubSeq(Inner.stack, 1, Len(Inner.stack) - 1)
        BY DEF Front
      <4> QED
        BY <1>3, <3>3, <4>1, <4>2, SubSeqProperties
    <3> QED
      BY <1>6, <3>1, <3>2, <3>3
  <2>2. v \in Values /\ Set([Inner EXCEPT !.stack = s, !.got = Append(@, v)])
    BY <1>6 DEF Values
  <2> HIDE DEF v
  <2>3. got \in Seq(Values)
    BY <1>3, <2>2
  <2>4. l = [Inner EXCEPT !.stack = s, !.got = Append(@, v)]
    BY <1>2, <1>3 DEF Level
  <2>5. Set(l)
    BY <2>2, <2>4
  <2> HIDE DEF got
  <2>6. /\ l \in Level /\ l.phase = "read" /\ l.caller = Inner.caller /\ l.caller # "none"
        /\ l.again = Inner.again /\ l.count = Inner.count /\ ~OwnCounter(l)
    BY <1>2, <1>4, <2>1, <2>3, ReadingLevel
  <2> HIDE DEF l
  <2>7. LevelInv(l) /\ Counts(l, nbOutput')
    BY <1>3, <2>6 DEF LevelInv, Counts
  <2>8. /\ nbOutput' \in [Callers -> Int]
        /\ \A d \in Callers : nbOutput'[d] # nbOutput[d] => d = c0 /\ ~Local[c0]
    BY <1>2, <1>6, DownLemma
  <2>9. ResultsInOrder' /\ LeftExact'
    BY <1>6 DEF IInv, ResultsInOrder, LeftExact, InOrder
  <2> QED
    BY <1>2, <1>4, <2>5, <2>6, <2>7, <2>8, <2>9, SetStep
<1> QED
  BY <1>5, <1>6 DEF ReadOutside

LEMMA DoneStep == ASSUME IInv, Done PROVE IInv' /\ Keeps
<1>1. /\ levels # << >> /\ Inner.phase = "read" /\ c0 = Inner.caller
      /\ Len(Inner.got) = Len(ToRead(c0)) /\ End(Inner.stack, TRUE, Inner.got)
      /\ nbOutput' = nbOutput
  BY DEF Done, Busy, c0
<1>2. /\ Inner.stack \in Seq(Values) /\ Inner.got \in Seq(Values)
      /\ Inner.base \in Nat /\ Inner.count \in Nat /\ LevelInv(Inner)
      /\ c0 \in Callers /\ Inner.count = Wanted(c0)
  BY <1>1, InnerLemma DEF LevelInv
<1>3. /\ nbOutput' \in [Callers -> Int]
      /\ \A d \in Callers : nbOutput'[d] # nbOutput[d] => d = c0 /\ ~Local[c0]
  BY <1>1, DownLemma
<1>4. ASSUME OwnCounter(Inner)
      PROVE  /\ Len(Inner.stack) >= Inner.base
             /\ \A k \in 1..Len(Inner.got) : Inner.got[k] = TheResult(k)
             /\ Len(Inner.stack) - Inner.base = ObjectsRead(c0, Len(ToRead(c0)))
  <2> DEFINE n == Len(Inner.got)
             o == ObjectsRead(c0, n)
             L == Len(Inner.stack)
  <2>1. n \in Nat /\ n = Inner.count
    BY <1>1, <1>2, <1>4, ToReadLemma DEF OwnCounter
  <2>2. /\ L = Inner.base + o + (Inner.count - n)
        /\ \A k \in 1..Len(Inner.got) : Inner.got[k] = TheResult(k)
    BY <1>1, <1>2, <1>4 DEF ReadInv, LevelInv
  <2>3. o \in Nat /\ o = ObjectsRead(c0, Len(ToRead(c0)))
    BY <1>1, <2>1, ObjectsReadLemma
  <2> HIDE DEF n, o
  <2>4. L >= Inner.base /\ L - Inner.base = o
    BY <1>2, <2>1, <2>2, <2>3
  <2> QED
    BY <2>2, <2>3, <2>4
<1> QED
  BY <1>1, <1>2, <1>3, <1>4, EndStep

(***************************************************************************)
(* Every step.                                                             *)
(***************************************************************************)

LEMMA StutterStep == ASSUME IInv, UNCHANGED vars PROVE IInv' /\ Keeps
<1>1. levels' = levels /\ nbOutput' = nbOutput /\ answer' = answer
  BY DEF vars
<1>2. IInv'
  BY <1>1 DEF IInv, TypeOK, LevelsInv, CountersInv, AgainInv, ResultsInOrder, LeftExact, InOrder
<1>3. ASSUME NEW k \in 1..Len(levels), levels[k].phase = "idle" \/ OwnCounter(levels[k])
      PROVE  Len(levels[k].stack) >= levels[k].base
  <2>1. levels[k] \in Level /\ LevelInv(levels[k])
    BY DEF IInv, TypeOK, LevelsInv
  <2>2. levels[k].base \in Nat /\ Len(levels[k].stack) \in Nat
    BY <2>1 DEF Level
  <2>3. levels[k].phase # "idle" /\ OwnCounter(levels[k]) =>
          levels[k].base <= Len(levels[k].stack)
    BY DEF IInv, TypeOK
  <2> QED
    BY <1>3, <2>1, <2>2, <2>3 DEF LevelInv
<1> QED
  BY <1>1, <1>2, <1>3 DEF Keeps

LEMMA NextInv == IInv /\ [Next]_vars => IInv' /\ Keeps
<1> SUFFICES ASSUME IInv, [Next]_vars PROVE IInv' /\ Keeps
  OBVIOUS
<1>1. ASSUME NEW c \in Callers, Invoke(c) PROVE IInv' /\ Keeps
  BY <1>1, InvokeStep
<1>2. ASSUME NEW c \in Callers, NEW n \in 1..Len(Params[c]), PushFails(c, n)
      PROVE  IInv' /\ Keeps
  BY <1>2, PushFailsStep
<1>3. CASE LuaCalls
  BY <1>3, LuaCallsStep
<1>4. CASE LuaGoesOn
  BY <1>4, LuaGoesOnStep
<1>5. CASE CallFails
  BY <1>5, CallFailsStep
<1>6. CASE CallReturns
  BY <1>6, CallReturnsStep
<1>7. CASE Read
  BY <1>7, ReadStep
<1>8. CASE ReadFails
  BY <1>8, ReadFailsStep
<1>9. CASE ReadOutside
  BY <1>9, ReadOutsideStep
<1>10. CASE Done
  BY <1>10, DoneStep
<1>11. CASE UNCHANGED vars
  BY <1>11, StutterStep
<1> QED
  BY <1>1, <1>2, <1>3, <1>4, <1>5, <1>6, <1>7, <1>8, <1>9, <1>10, <1>11 DEF Next

LEMMA InvariantHolds == Spec => []IInv
<1>1. IInv /\ [Next]_vars => IInv'
  BY NextInv
<1> QED
  BY <1>1, InitInv, PTL DEF Spec

(***************************************************************************)
(* The theorems.                                                           *)
(***************************************************************************)

(* While request_to_lua has its counter to itself, what an invocation      *)
(* works with lies above what it found on the stack, and only the          *)
(* innermost level does anything.                                          *)
THEOREM TypeCorrect == Spec => []TypeOK
<1>1. IInv => TypeOK
  BY DEF IInv
<1> QED
  BY <1>1, InvariantHolds, PTL

(* The values that a caller reads after lua_pcall, by their distance from  *)
(* the top in nb_output_, are the results of its own Lua function in their *)
(* order: for all parameters, policies and nested calls, unless the caller *)
(* itself was invoked again meanwhile or has a parameter that is both an   *)
(* input and an output.                                                    *)
THEOREM ResultsAreInOrder == Spec => []ResultsInOrder
<1>1. IInv => ResultsInOrder
  BY DEF IInv
<1> QED
  BY <1>1, InvariantHolds, PTL

(* A call that succeeds leaves on the stack one slot for each object it    *)
(* read, as invoke() pops nothing else, and no more than that.             *)
THEOREM LeftIsExact == Spec => []LeftExact
<1>1. IInv => LeftExact
  BY DEF IInv
<1> QED
  BY <1>1, InvariantHolds, PTL

(* No step of an invocation, of its conversions or of the calls within it  *)
(* takes away what was on the stack before it.                             *)
THEOREM NothingIsTaken == Spec => NothingTaken
<1>1. IInv /\ [Next]_vars => [Keeps]_vars
  BY NextInv
<1> QED
  BY <1>1, InvariantHolds, PTL DEF Spec, NothingTaken, Keeps

================================================================================
