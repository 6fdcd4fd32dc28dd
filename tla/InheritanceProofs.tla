--------------------------- MODULE InheritanceProofs ---------------------------
(***************************************************************************)
(* Proofs about Inheritance, for every hierarchy of classes and every      *)
(* order in which they are bound and asked for.                            *)
(***************************************************************************)
EXTENDS Inheritance, FiniteSetTheorems, SequenceTheorems, TLAPS

IInv == TypeOK /\ SearchInv /\ MappingsChain /\ AnswersRight

(***************************************************************************)
(* Stacks of frames and lists of casts.                                    *)
(***************************************************************************)

\* Appending keeps what was there.
LEMMA PushLemma ==
  ASSUME NEW S, NEW s \in Seq(S), NEW v \in S
  PROVE  /\ Append(s, v) \in Seq(S)
         /\ Len(s) \in Nat /\ Len(Append(s, v)) = Len(s) + 1
         /\ \A k \in 1..Len(s) : Append(s, v)[k] = s[k]
         /\ Append(s, v)[Len(s) + 1] = v
<1>1. Len(s) \in Nat
  BY LenProperties
<1>2. QED
  BY <1>1, AppendProperties

\* Removing the last element keeps the others.
LEMMA PopLemma ==
  ASSUME NEW S, NEW s \in Seq(S), Len(s) > 1
  PROVE  /\ SubSeq(s, 1, Len(s) - 1) \in Seq(S)
         /\ Len(s) \in Nat /\ Len(SubSeq(s, 1, Len(s) - 1)) = Len(s) - 1
         /\ \A k \in 1..(Len(s) - 1) : SubSeq(s, 1, Len(s) - 1)[k] = s[k]
<1>1. Len(s) \in Nat
  BY LenProperties
<1>2. \A i \in 1 .. Len(s) - 1 : s[i] \in S
  BY <1>1, ElementOfSeq
<1>3. QED
  BY <1>1, <1>2, SubSeqProperties

\* The innermost frame of a search, and the class it is in.
LEMMA InnerLemma ==
  ASSUME TypeOK, pc # "idle"
  PROVE  /\ Len(frames) \in Nat \ {0}
         /\ Inner \in FrameOK
         /\ Len(bases[Inner.info]) \in Nat
         /\ query[1] \in Classes /\ query[2] \in Classes
<1>1. Len(frames) \in Nat /\ Len(frames) # 0
  BY LenProperties, EmptySeq DEF TypeOK
<1>2. Inner \in FrameOK
  BY <1>1, ElementOfSeq DEF TypeOK, Inner
<1>3. bases[Inner.info] \in Seq(Classes)
  BY <1>2 DEF TypeOK, FrameOK
<1>4. QED
  BY <1>1, <1>2, <1>3, LenProperties DEF TypeOK, Pairs

\* One cast more at the end of a chain.
LEMMA ChainLemma ==
  ASSUME NEW s \in Seq(Pairs), NEW x \in Classes, NEW d \in Classes,
         NEW t \in Classes, Chain(s, x, d), t \in Needs[d]
  PROVE  /\ Append(s, <<d, t>>) # << >>
         /\ Chain(Append(s, <<d, t>>), x, t)
<1> DEFINE c == <<d, t>>
           r == Append(s, c)
<1>1. c \in Pairs
  BY DEF Pairs
<1> HIDE DEF c
<1>2. /\ r \in Seq(Pairs) /\ Len(s) \in Nat /\ Len(r) = Len(s) + 1
      /\ \A k \in 1..Len(s) : r[k] = s[k]
      /\ r[Len(s) + 1] = c
  BY <1>1, LenProperties
<1> USE DEF c
<1>3. r # << >>
  <2>1. Len(r) # 0
    BY <1>2
  <2> HIDE DEF r
  <2>2. QED
    BY <2>1
<1>4. CASE s = << >>
  <2>1. Len(s) = 0 /\ x = d
    BY <1>4 DEF Chain
  <2>2. r[1] = <<d, t>> /\ Len(r) = 1
    BY <1>2, <2>1
  <2>3. \A k \in 1..Len(r) : r[k] = <<d, t>>
    BY <2>2
  <2>4. QED
    BY <1>3, <2>1, <2>2, <2>3 DEF Chain
<1>5. CASE s # << >>
  <2>1. /\ s[1][1] = x /\ s[Len(s)][2] = d
        /\ \A k \in 1..Len(s) : s[k][2] \in Needs[s[k][1]]
        /\ \A k \in 1..(Len(s) - 1) : s[k][2] = s[k + 1][1]
    BY <1>5 DEF Chain
  <2>2. Len(s) # 0
    BY <1>5, EmptySeq
  <2>3. r[1][1] = x /\ r[Len(r)][2] = t
    BY <1>2, <2>1, <2>2
  <2>4. ASSUME NEW k \in 1..Len(r)
        PROVE  r[k][2] \in Needs[r[k][1]]
    <3>1. CASE k \in 1..Len(s)
      BY <1>2, <2>1, <3>1
    <3>2. CASE k = Len(s) + 1
      BY <1>2, <3>2
    <3>3. QED
      BY <1>2, <3>1, <3>2
  <2>5. ASSUME NEW k \in 1..(Len(r) - 1)
        PROVE  r[k][2] = r[k + 1][1]
    <3>1. k \in 1..Len(s) /\ r[k] = s[k]
      BY <1>2
    <3>2. CASE k \in 1..(Len(s) - 1)
      <4>1. k + 1 \in 1..Len(s)
        BY <1>2, <3>2
      <4>2. QED
        BY <1>2, <2>1, <3>1, <3>2, <4>1
    <3>3. CASE k = Len(s)
      BY <1>2, <2>1, <3>1, <3>3
    <3>4. QED
      BY <1>2, <3>1, <3>2, <3>3
  <2>6. QED
    BY <1>3, <2>3, <2>4, <2>5 DEF Chain
<1>6. QED
  BY <1>3, <1>4, <1>5

\* What a step of a search does not touch.
LEMMA LeftAloneLemma ==
  ASSUME IInv, UNCHANGED <<bound, bases, mappings>>
  PROVE  BasesInv' /\ MappingsInv' /\ MappingsChain'
BY DEF IInv, SearchInv, BasesInv, MappingsInv, MappingsChain

\* What a search keeps until it answers.
LEMMA NoAnswerLemma ==
  ASSUME IInv, UNCHANGED answer
  PROVE  AnswersRight'
BY DEF IInv, AnswersRight, answer

(***************************************************************************)
(* Classes being bound.                                                    *)
(***************************************************************************)

\* A class is appended to the list of each of its bases, and to no other.
LEMMA AddedLemma ==
  ASSUME TypeOK, NEW d \in Classes, NEW t \in Classes
  PROVE  /\ Added(d)[t] \in Seq(Classes)
         /\ \A e \in Classes :
              (\E j \in 1..Len(Added(d)[t]) : Added(d)[t][j] = e)
                <=> \/ \E j \in 1..Len(bases[t]) : bases[t][j] = e
                    \/ e = d /\ t \in Needs[d]
<1>1. bases[t] \in Seq(Classes)
  BY DEF TypeOK
<1>2. CASE t \in Needs[d]
  <2>1. Added(d)[t] = Append(bases[t], d)
    BY <1>2 DEF Added
  <2>2. /\ Append(bases[t], d) \in Seq(Classes)
        /\ Len(bases[t]) \in Nat
        /\ Len(Append(bases[t], d)) = Len(bases[t]) + 1
        /\ \A k \in 1..Len(bases[t]) : Append(bases[t], d)[k] = bases[t][k]
        /\ Append(bases[t], d)[Len(bases[t]) + 1] = d
    BY <1>1, PushLemma
  <2>3. QED
    BY <1>2, <2>1, <2>2
<1>3. CASE t \notin Needs[d]
  BY <1>1, <1>3 DEF Added
<1>4. QED
  BY <1>2, <1>3

LEMMA BindKeeps ==
  ASSUME IInv, NEW d \in Classes, Bind(d)
  PROVE  IInv'
<1>1. TypeOK'
  <2>1. \A t \in Classes : Added(d)[t] \in Seq(Classes)
    BY AddedLemma DEF IInv
  <2>2. bases' \in [Classes -> Seq(Classes)]
    BY <2>1 DEF Bind, Added
  <2>3. QED
    BY <2>2 DEF IInv, TypeOK, Bind, search, answer
<1>2. BasesInv'
  <2>1. ASSUME NEW e \in bound', NEW t \in Classes, Derives[e][t]
        PROVE  t \in bound'
    <3>1. CASE e \in bound
      BY <2>1, <3>1 DEF IInv, SearchInv, BasesInv, Bind
    <3>2. CASE e = d
      <4>1. t = d \/ \E b \in Needs[d] : Derives[b][t]
        BY <2>1, <3>2, DerivesAssumption
      <4>2. QED
        BY <4>1 DEF IInv, SearchInv, BasesInv, Bind, CheckDependency
    <3>3. QED
      BY <3>1, <3>2 DEF Bind
  <2>2. ASSUME NEW e \in Classes, NEW t \in Classes
        PROVE  (e \in bound' /\ t \in Needs[e])
                 <=> \E j \in 1..Len(bases'[t]) : bases'[t][j] = e
    <3>1. (\E j \in 1..Len(bases'[t]) : bases'[t][j] = e)
            <=> \/ \E j \in 1..Len(bases[t]) : bases[t][j] = e
                \/ e = d /\ t \in Needs[d]
      <4>1. bases' = Added(d) /\ TypeOK
        BY DEF IInv, Bind
      <4>2. \A f \in Classes :
              (\E j \in 1..Len(Added(d)[t]) : Added(d)[t][j] = f)
                <=> \/ \E j \in 1..Len(bases[t]) : bases[t][j] = f
                    \/ f = d /\ t \in Needs[d]
        BY <4>1, AddedLemma
      <4>3. QED
        BY <4>1, <4>2
    <3>2. (e \in bound /\ t \in Needs[e])
            <=> \E j \in 1..Len(bases[t]) : bases[t][j] = e
      BY DEF IInv, SearchInv, BasesInv
    <3>3. bound' = bound \cup {d}
      BY DEF Bind
    <3>4. QED
      BY <3>1, <3>2, <3>3
  <2>3. QED
    BY <2>1, <2>2 DEF BasesInv
<1>3. QED
  BY <1>1, <1>2 DEF IInv, SearchInv, MappingsInv, StackInv, ExploredInv, UnwindInv,
                    MappingsChain, AnswersRight, Bind, search, answer

(***************************************************************************)
(* Questions that are answered at once, and the start of a search.         *)
(***************************************************************************)

LEMMA AskOwnKeeps ==
  ASSUME IInv, NEW t \in Classes, NEW x \in Classes \cup {Null}, AskOwn(t, x)
  PROVE  IInv'
<1>1. x # Null => Derives[x][t]
  BY DerivesAssumption DEF AskOwn
<1>2. AnswersRight'
  BY <1>1 DEF AskOwn, Reply, AnswersRight
<1>3. TypeOK'
  BY DEF IInv, TypeOK, AskOwn, Reply, search
<1>4. QED
  BY <1>2, <1>3 DEF IInv, SearchInv, BasesInv, MappingsInv, StackInv, ExploredInv,
                    UnwindInv, Inner, MappingsChain, AskOwn, search

LEMMA AskKnownKeeps ==
  ASSUME IInv, NEW t \in Classes, NEW x \in Classes \cup {Null}, AskKnown(t, x)
  PROVE  IInv'
<1>1. x \in Classes /\ x # Null /\ Derives[x][t]
  BY ClassesAssumption DEF AskKnown, IInv, TypeOK, SearchInv, MappingsInv
<1>2. AnswersRight'
  BY <1>1 DEF AskKnown, Reply, AnswersRight
<1>3. TypeOK'
  BY DEF IInv, TypeOK, AskKnown, Reply, search
<1>4. QED
  BY <1>2, <1>3 DEF IInv, SearchInv, BasesInv, MappingsInv, StackInv, ExploredInv,
                    UnwindInv, Inner, MappingsChain, AskKnown, search

LEMMA AskUnknownKeeps ==
  ASSUME IInv, NEW t \in Classes, NEW x \in Classes \cup {Null}, AskUnknown(t, x)
  PROVE  IInv'
<1>1. x \in Classes /\ x \in bound /\ x # t
  BY DEF AskUnknown, IInv, TypeOK
<1>2. Frame(t) \in FrameOK /\ Frame(t).info = t /\ Frame(t).next = 1
  BY DEF Frame, FrameOK
<1>3. frames' \in Seq(FrameOK) /\ frames' # << >> /\ Len(frames') = 1
      /\ frames'[1] = Frame(t)
  BY <1>2 DEF AskUnknown
<1>4. TypeOK'
  BY <1>1, <1>3 DEF IInv, TypeOK, AskUnknown, answer, Pairs
<1>5. StackInv'
  BY <1>1, <1>2, <1>3 DEF AskUnknown, StackInv
<1>6. ExploredInv'
  <2>1. ASSUME NEW k \in 1..Len(frames'), NEW j \in 1..Len(bases'[frames'[k].info])
        PROVE  ~(j < frames'[k].next)
    <3>1. frames'[k] = Frame(t)
      BY <1>3
    <3>2. j \in Nat /\ j >= 1
      <4>1. bases'[frames'[k].info] \in Seq(Classes)
        BY <1>2, <1>4, <3>1 DEF TypeOK
      <4>2. QED
        BY <4>1, LenProperties
    <3>3. QED
      BY <1>2, <3>1, <3>2
  <2>2. QED
    BY <2>1 DEF ExploredInv
<1>7. UnwindInv'
  BY DEF AskUnknown, UnwindInv
<1>8. BasesInv' /\ MappingsInv' /\ MappingsChain' /\ AnswersRight'
  BY LeftAloneLemma, NoAnswerLemma DEF AskUnknown
<1>9. QED
  BY <1>4, <1>5, <1>6, <1>7, <1>8 DEF IInv, SearchInv

(***************************************************************************)
(* The search.                                                             *)
(***************************************************************************)

\* A call that has passed every entry has not missed anything.
LEMMA ExhaustedLemma ==
  ASSUME IInv, pc = "search", Inner.info # query[2], Inner.next > Len(bases[Inner.info])
  PROVE  ~Derives[query[2]][Inner.info]
<1>1. /\ Len(frames) \in Nat \ {0} /\ Inner \in FrameOK
      /\ Len(bases[Inner.info]) \in Nat
      /\ query[2] \in Classes
  BY InnerLemma DEF IInv
<1>2. SUFFICES ASSUME NEW d \in Classes, Inner.info \in Needs[d], Derives[query[2]][d]
               PROVE  FALSE
  BY <1>1, DerivesAssumption DEF FrameOK
<1>3. d \in bound
  BY <1>2 DEF IInv, SearchInv, StackInv, BasesInv
<1>4. PICK j \in 1..Len(bases[Inner.info]) : bases[Inner.info][j] = d
  BY <1>1, <1>2, <1>3 DEF IInv, SearchInv, BasesInv, FrameOK
<1>5. j < Inner.next
  BY <1>1, <1>4 DEF FrameOK
<1>6. QED
  BY <1>1, <1>2, <1>4, <1>5 DEF IInv, SearchInv, ExploredInv, Inner

LEMMA HitKeeps ==
  ASSUME IInv, Hit
  PROVE  IInv'
<1>1. /\ Len(frames) \in Nat \ {0} /\ Inner \in FrameOK /\ query[2] \in Classes
  BY InnerLemma DEF IInv, Hit
<1>2. UnwindInv'
  <2>1. Derives[query[2]][Inner.info]
    BY <1>1, DerivesAssumption DEF Hit
  <2>2. Chain(casts, query[2], Inner.info)
    BY DEF IInv, SearchInv, UnwindInv, Hit, Chain
  <2>3. Len(frames) # 1
    BY DEF IInv, SearchInv, StackInv, Inner, Hit
  <2>4. QED
    BY <2>1, <2>2, <2>3 DEF UnwindInv, Hit, Inner
<1>3. TypeOK'
  BY DEF IInv, TypeOK, Hit, answer
<1>4. StackInv' /\ ExploredInv'
  BY DEF IInv, SearchInv, StackInv, ExploredInv, Hit
<1>5. BasesInv' /\ MappingsInv' /\ MappingsChain' /\ AnswersRight'
  BY LeftAloneLemma, NoAnswerLemma DEF Hit
<1>6. QED
  BY <1>2, <1>3, <1>4, <1>5 DEF IInv, SearchInv

LEMMA DescendKeeps ==
  ASSUME IInv, Descend
  PROVE  IInv'
<1> DEFINE list == bases[Inner.info]
           called == Frame(list[Inner.next])
           n == Len(frames)
<1>1. /\ n \in Nat \ {0} /\ Inner \in FrameOK /\ Len(list) \in Nat
  BY InnerLemma DEF IInv, Descend
<1>2. called \in FrameOK /\ called.info = list[Inner.next] /\ called.next = 1
  <2>1. list \in Seq(Classes) /\ Inner.next \in 1..Len(list)
    BY <1>1 DEF IInv, TypeOK, FrameOK, Descend
  <2>2. list[Inner.next] \in Classes
    BY <2>1, ElementOfSeq
  <2>3. QED
    BY <2>2 DEF Frame, FrameOK
<1>3. /\ frames' \in Seq(FrameOK) /\ Len(frames') = n + 1
      /\ \A k \in 1..n : frames'[k] = frames[k]
      /\ frames'[n + 1] = called
  <2>1. frames \in Seq(FrameOK) /\ frames' = Append(frames, called)
    BY DEF IInv, TypeOK, Descend
  <2> HIDE DEF called
  <2>2. QED
    BY <1>2, <2>1, PushLemma
<1>4. TypeOK'
  <2>1. frames' # << >>
    BY <1>1, <1>3
  <2>2. QED
    BY <1>3, <2>1 DEF IInv, TypeOK, Descend, answer
<1>5. StackInv'
  <2>1. Inner.next \in 1..Len(list)
    BY <1>1 DEF Descend, FrameOK
  <2>2. \A k \in 1..(n - 1) :
          /\ frames[k].next \in 1..Len(bases[frames[k].info])
          /\ bases[frames[k].info][frames[k].next] = frames[k + 1].info
    BY DEF IInv, SearchInv, StackInv, Descend
  <2>3. ASSUME NEW k \in 1..n
        PROVE  /\ frames'[k].next \in 1..Len(bases[frames'[k].info])
               /\ bases[frames'[k].info][frames'[k].next] = frames'[k + 1].info
    <3>1. CASE k = n
      BY <1>1, <1>2, <1>3, <2>1, <3>1 DEF Inner
    <3>2. CASE k \in 1..(n - 1)
      <4>1. k + 1 \in 1..n
        BY <1>1, <3>2
      <4>2. QED
        BY <1>3, <2>2, <3>2, <4>1
    <3>3. QED
      BY <1>1, <3>1, <3>2
  <2>4. frames'[1] = frames[1]
    BY <1>1, <1>3
  <2>5. QED
    BY <1>1, <1>3, <2>3, <2>4 DEF IInv, SearchInv, StackInv, Descend
<1>6. ExploredInv'
  <2>1. ASSUME NEW k \in 1..(n + 1), NEW j \in 1..Len(bases[frames'[k].info]),
               j < frames'[k].next
        PROVE  ~Derives[query[2]][bases[frames'[k].info][j]]
    <3>1. CASE k \in 1..n
      BY <1>3, <2>1, <3>1 DEF IInv, SearchInv, ExploredInv, Descend
    <3>2. CASE k = n + 1
      <4>1. frames'[k] = called
        BY <1>3, <3>2
      <4>2. Len(bases[called.info]) \in Nat
        BY <1>2, LenProperties DEF IInv, TypeOK, FrameOK
      <4>3. QED
        BY <1>2, <2>1, <4>1, <4>2
    <3>3. QED
      BY <1>1, <3>1, <3>2
  <2>2. QED
    BY <1>3, <2>1 DEF ExploredInv, Descend
<1>7. UnwindInv'
  BY DEF IInv, SearchInv, UnwindInv, Descend
<1>8. BasesInv' /\ MappingsInv' /\ MappingsChain' /\ AnswersRight'
  BY LeftAloneLemma, NoAnswerLemma DEF Descend
<1>9. QED
  BY <1>4, <1>5, <1>6, <1>7, <1>8 DEF IInv, SearchInv

\* The stack below the innermost frame.
LEMMA PoppedLemma ==
  ASSUME IInv, pc # "idle", Len(frames) > 1
  PROVE  /\ Popped \in Seq(FrameOK) /\ Popped # << >>
         /\ Len(frames) \in Nat /\ Len(Popped) = Len(frames) - 1
         /\ \A k \in 1..(Len(frames) - 1) : Popped[k] = frames[k]
         /\ Outer \in FrameOK
         /\ Outer.next \in 1..Len(bases[Outer.info])
         /\ bases[Outer.info][Outer.next] = Inner.info
<1>1. frames \in Seq(FrameOK)
  BY DEF IInv, TypeOK
<1>2. /\ Popped \in Seq(FrameOK)
      /\ Len(frames) \in Nat /\ Len(Popped) = Len(frames) - 1
      /\ \A k \in 1..(Len(frames) - 1) : Popped[k] = frames[k]
  BY <1>1, PopLemma DEF Popped
<1>3. Popped # << >>
  BY <1>2
<1>4. Len(frames) - 1 \in 1..(Len(frames) - 1)
  BY <1>2
<1>5. Outer \in FrameOK
  BY <1>1, <1>4, ElementOfSeq DEF Outer
<1>6. QED
  BY <1>2, <1>3, <1>4, <1>5 DEF IInv, SearchInv, StackInv, Inner, Outer

LEMMA MissKeeps ==
  ASSUME IInv, Miss
  PROVE  IInv'
<1> DEFINE n == Len(frames)
           fs == Advance(Popped)
<1>1. /\ Popped \in Seq(FrameOK) /\ n \in Nat /\ n > 1 /\ Len(Popped) = n - 1
      /\ \A k \in 1..(n - 1) : Popped[k] = frames[k]
      /\ Outer \in FrameOK /\ Outer.next \in 1..Len(bases[Outer.info])
      /\ bases[Outer.info][Outer.next] = Inner.info
  BY PoppedLemma DEF Miss
<1>2. Popped[n - 1] = Outer
  BY <1>1 DEF Outer
<1>3. /\ fs \in Seq(FrameOK) /\ Len(fs) = n - 1
      /\ \A k \in 1..(n - 2) : fs[k] = frames[k]
      /\ fs[n - 1] = [info |-> Outer.info, next |-> Outer.next + 1]
  <2> DEFINE e == [info |-> Outer.info, next |-> Outer.next + 1]
  <2>1. e \in FrameOK
    BY <1>1 DEF FrameOK
  <2>2. fs = [Popped EXCEPT ![n - 1] = e]
    <3>1. [Outer EXCEPT !.next = @ + 1] = e
      BY <1>1 DEF FrameOK
    <3>2. fs = [Popped EXCEPT ![n - 1] = [Popped[n - 1] EXCEPT !.next = @ + 1]]
      BY <1>1 DEF Advance
    <3>3. QED
      BY <1>2, <3>1, <3>2
  <2> HIDE DEF e, fs
  <2>3. n - 1 \in 1..Len(Popped)
    BY <1>1
  <2>4. /\ [Popped EXCEPT ![n - 1] = e] \in Seq(FrameOK)
        /\ Len([Popped EXCEPT ![n - 1] = e]) = Len(Popped)
        /\ \A k \in 1..Len(Popped) :
             [Popped EXCEPT ![n - 1] = e][k] = IF k = n - 1 THEN e ELSE Popped[k]
    BY <1>1, <2>1, <2>3, ExceptSeq
  <2>5. QED
    BY <1>1, <2>2, <2>3, <2>4 DEF e
<1>4. frames' = fs
  BY DEF Miss
<1> HIDE DEF fs
<1>5. fs # << >>
  BY <1>1, <1>3
<1>6. TypeOK'
  BY <1>3, <1>4, <1>5 DEF IInv, TypeOK, Miss, answer
<1>7. StackInv'
  <2>1. \A k \in 1..(n - 2) :
          /\ frames[k].next \in 1..Len(bases[frames[k].info])
          /\ bases[frames[k].info][frames[k].next] = frames[k + 1].info
    BY <1>1 DEF IInv, SearchInv, StackInv, Miss
  <2>2. \A k \in 1..(n - 1) : fs[k].info = frames[k].info
    BY <1>1, <1>2, <1>3
  <2>3. ASSUME NEW k \in 1..(n - 2)
        PROVE  /\ fs[k].next \in 1..Len(bases[fs[k].info])
               /\ bases[fs[k].info][fs[k].next] = fs[k + 1].info
    <3>1. k + 1 \in 1..(n - 1)
      BY <1>1
    <3>2. QED
      BY <1>3, <2>1, <2>2, <3>1
  <2>4. fs[1].info = frames[1].info
    BY <1>1, <2>2
  <2>5. QED
    BY <1>1, <1>3, <1>4, <2>3, <2>4 DEF IInv, SearchInv, StackInv, Miss
<1>8. ExploredInv'
  <2>1. ~Derives[query[2]][Inner.info]
    BY ExhaustedLemma DEF Miss
  <2>2. \A k \in 1..(n - 1) : \A j \in 1..Len(bases[frames[k].info]) :
          j < frames[k].next => ~Derives[query[2]][bases[frames[k].info][j]]
    <3>1. \A k \in 1..(n - 1) : k \in 1..n
      BY <1>1
    <3>2. QED
      BY <3>1 DEF IInv, SearchInv, ExploredInv, Miss
  <2>3. ASSUME NEW k \in 1..(n - 1), NEW j \in 1..Len(bases[fs[k].info]),
               j < fs[k].next
        PROVE  ~Derives[query[2]][bases[fs[k].info][j]]
    <3>1. CASE k \in 1..(n - 2)
      BY <1>1, <1>3, <2>2, <2>3, <3>1
    <3>2. CASE k = n - 1
      <4>1. fs[k].info = Outer.info /\ frames[k] = Outer /\ j < Outer.next + 1
        BY <1>1, <1>2, <1>3, <2>3, <3>2
      <4>2. CASE j < Outer.next
        BY <2>2, <4>1, <4>2
      <4>3. CASE j = Outer.next
        BY <1>1, <2>1, <4>1, <4>3
      <4>4. Len(bases[Outer.info]) \in Nat
        BY <1>1, LenProperties DEF IInv, TypeOK, FrameOK
      <4>5. QED
        BY <1>1, <4>1, <4>2, <4>3, <4>4 DEF FrameOK
    <3>3. QED
      BY <1>1, <3>1, <3>2
  <2>4. QED
    BY <1>3, <1>4, <2>3 DEF ExploredInv, Miss
<1>9. UnwindInv'
  BY DEF IInv, SearchInv, UnwindInv, Miss
<1>10. BasesInv' /\ MappingsInv' /\ MappingsChain' /\ AnswersRight'
  BY LeftAloneLemma, NoAnswerLemma DEF Miss
<1>11. QED
  BY <1>6, <1>7, <1>8, <1>9, <1>10 DEF IInv, SearchInv

LEMMA RefuseKeeps ==
  ASSUME IInv, Refuse
  PROVE  IInv' /\ ~Derives[query[2]][query[1]]
<1>1. query[1] \in Classes /\ query[2] \in Classes
  BY InnerLemma DEF IInv, Refuse
<1>2. ~Derives[query[2]][Inner.info]
  BY ExhaustedLemma DEF Refuse
<1>3. Inner.info = query[1]
  BY DEF IInv, SearchInv, StackInv, Inner, Refuse
<1>4. AnswersRight'
  <2>1. Derives[query[2]][query[1]] = FALSE /\ query[2] # Null
    BY <1>1, <1>2, <1>3, ClassesAssumption
  <2>2. QED
    BY <2>1 DEF AnswersRight, Refuse, Reply
<1>5. TypeOK'
  <2>1. <<query[1], query[2]>> \in Classes \X (Classes \cup {Null})
    BY <1>1
  <2>2. frames' \in Seq(FrameOK)
    BY DEF Refuse
  <2>3. QED
    BY <2>1, <2>2 DEF IInv, TypeOK, Refuse, Reply
<1>6. StackInv' /\ ExploredInv' /\ UnwindInv'
  BY DEF Refuse, StackInv, ExploredInv, UnwindInv
<1>7. BasesInv' /\ MappingsInv' /\ MappingsChain'
  BY LeftAloneLemma DEF Refuse
<1>8. QED
  BY <1>2, <1>3, <1>4, <1>5, <1>6, <1>7 DEF IInv, SearchInv

LEMMA UnwindKeeps ==
  ASSUME IInv, Unwind
  PROVE  IInv'
<1> DEFINE n == Len(frames)
           x == query[2]
           d == Inner.info
           t == Outer.info
<1>1. /\ Popped \in Seq(FrameOK) /\ Popped # << >>
      /\ n \in Nat /\ n > 1 /\ Len(Popped) = n - 1
      /\ \A k \in 1..(n - 1) : Popped[k] = frames[k]
      /\ Outer \in FrameOK /\ Outer.next \in 1..Len(bases[t])
      /\ bases[t][Outer.next] = d
  BY PoppedLemma DEF Unwind
<1>2. x \in Classes /\ d \in Classes /\ t \in Classes
  BY <1>1, InnerLemma DEF IInv, Unwind, FrameOK
<1>3. t \in Needs[d]
  BY <1>1, <1>2 DEF IInv, SearchInv, BasesInv
<1>4. Derives[x][d] /\ Chain(casts, x, d) /\ casts \in Seq(Pairs)
  BY DEF IInv, TypeOK, SearchInv, UnwindInv, Unwind
<1>5. Derives[x][t]
  BY <1>2, <1>3, <1>4, DerivesAssumption
<1>6. casts' = Append(casts, <<d, t>>) /\ frames' = Popped
  BY DEF Unwind, Pushed
<1>7. casts' # << >> /\ Chain(casts', x, t)
  BY <1>2, <1>3, <1>4, <1>6, ChainLemma
<1>8. Inner' = Outer /\ query' = query /\ pc' = pc
  BY <1>1, <1>6 DEF Inner, Outer, Unwind
<1>9. UnwindInv'
  <2>1. Chain(casts, query[2], Inner.info)' <=> Chain(casts', x, t)
    BY <1>8 DEF Chain
  <2>2. QED
    BY <1>5, <1>7, <1>8, <2>1 DEF UnwindInv, Unwind, Chain
<1>10. TypeOK'
  <2>1. <<d, t>> \in Pairs
    BY <1>2 DEF Pairs
  <2>2. casts' \in Seq(Pairs)
    BY <1>4, <1>6, <2>1
  <2>3. QED
    BY <1>1, <1>6, <1>8, <2>2 DEF IInv, TypeOK, Unwind, answer
<1>11. StackInv'
  <2>1. \A k \in 1..(n - 2) :
          /\ frames[k].next \in 1..Len(bases[frames[k].info])
          /\ bases[frames[k].info][frames[k].next] = frames[k + 1].info
    BY <1>1 DEF IInv, SearchInv, StackInv, Unwind
  <2>2. \A k \in 1..(n - 2) : k \in 1..(n - 1) /\ k + 1 \in 1..(n - 1)
    BY <1>1
  <2>3. Popped[1] = frames[1]
    BY <1>1
  <2>4. \A k \in 1..(n - 2) :
          /\ Popped[k].next \in 1..Len(bases[Popped[k].info])
          /\ bases[Popped[k].info][Popped[k].next] = Popped[k + 1].info
    BY <1>1, <2>1, <2>2
  <2>5. Len(Popped) - 1 = n - 2
    BY <1>1
  <2>6. QED
    BY <1>6, <2>3, <2>4, <2>5 DEF IInv, SearchInv, StackInv, Unwind
<1>12. ExploredInv'
  BY DEF ExploredInv, Unwind
<1>13. BasesInv' /\ MappingsInv' /\ MappingsChain' /\ AnswersRight'
  BY LeftAloneLemma, NoAnswerLemma DEF Unwind
<1>14. QED
  BY <1>9, <1>10, <1>11, <1>12, <1>13 DEF IInv, SearchInv

LEMMA KeepKeeps ==
  ASSUME IInv, Keep
  PROVE  IInv' /\ Derives[query[2]][query[1]]
<1>1. query[1] \in Classes /\ query[2] \in Classes /\ query \in Pairs
  BY InnerLemma DEF IInv, Keep, TypeOK
<1>2. Inner.info = query[1]
  BY DEF IInv, SearchInv, StackInv, Inner, Keep
<1>3. /\ Derives[query[2]][query[1]]
      /\ casts # << >> /\ Chain(casts, query[2], query[1])
  BY <1>2 DEF IInv, SearchInv, UnwindInv, Keep
<1>4. /\ DOMAIN mappings' = DOMAIN mappings \cup {query}
      /\ \A q \in DOMAIN mappings' :
           mappings'[q] = IF q = query THEN casts ELSE mappings[q]
  BY DEF Keep
<1>5. MappingsChain'
  <2>1. ASSUME NEW q \in DOMAIN mappings'
        PROVE  mappings'[q] # << >> /\ Chain(mappings'[q], q[2], q[1])
    BY <1>3, <1>4 DEF IInv, MappingsChain
  <2>2. QED
    BY <2>1 DEF MappingsChain, Chain
<1>6. MappingsInv'
  BY <1>3, <1>4 DEF IInv, SearchInv, MappingsInv
<1>7. AnswersRight'
  BY <1>1, <1>3, ClassesAssumption DEF AnswersRight, Keep, Reply
<1>8. TypeOK'
  <2>1. \A q \in DOMAIN mappings' : q \in Pairs /\ mappings'[q] \in Seq(Pairs)
    BY <1>1, <1>4 DEF IInv, TypeOK
  <2>2. mappings' \in [DOMAIN mappings' -> Seq(Pairs)]
    BY <2>1 DEF Keep
  <2>3. QED
    BY <1>1, <2>1, <2>2 DEF IInv, TypeOK, Keep, Reply
<1>9. BasesInv' /\ StackInv' /\ ExploredInv' /\ UnwindInv'
  BY DEF IInv, SearchInv, BasesInv, StackInv, ExploredInv, UnwindInv, Keep
<1>10. QED
  BY <1>3, <1>5, <1>6, <1>7, <1>8, <1>9 DEF IInv, SearchInv

(***************************************************************************)
(* The specification.                                                      *)
(***************************************************************************)

LEMMA InitIInv == Init => IInv
<1> SUFFICES ASSUME Init PROVE IInv
  OBVIOUS
<1>1. TypeOK
  <2>1. bases \in [Classes -> Seq(Classes)]
    <3>1. << >> \in Seq(Classes)
      OBVIOUS
    <3>2. QED
      BY <3>1 DEF Init
  <2>2. DOMAIN mappings = {} /\ mappings \in [DOMAIN mappings -> Seq(Pairs)]
    BY DEF Init
  <2>3. frames \in Seq(FrameOK) /\ casts \in Seq(Pairs)
    BY DEF Init
  <2>4. QED
    BY <2>1, <2>2, <2>3 DEF Init, TypeOK
<1>2. BasesInv
  BY DEF Init, BasesInv
<1>3. QED
  BY <1>1, <1>2 DEF Init, IInv, SearchInv, MappingsInv, StackInv, ExploredInv,
                    UnwindInv, MappingsChain, AnswersRight

LEMMA NextIInv == IInv /\ [Next]_vars => IInv'
<1> SUFFICES ASSUME IInv, [Next]_vars PROVE IInv'
  OBVIOUS
<1>1. CASE \E d \in Classes : Bind(d)
  BY <1>1, BindKeeps
<1>2. CASE \E t \in Classes, x \in Classes \cup {Null} :
             AskOwn(t, x) \/ AskKnown(t, x) \/ AskUnknown(t, x)
  BY <1>2, AskOwnKeeps, AskKnownKeeps, AskUnknownKeeps
<1>3. CASE SearchStep
  BY <1>3, HitKeeps, DescendKeeps, MissKeeps, RefuseKeeps, UnwindKeeps, KeepKeeps
     DEF SearchStep
<1>4. CASE UNCHANGED vars
  <2>1. TypeOK'
    BY <1>4 DEF IInv, TypeOK, vars, search, answer
  <2>2. StackInv' /\ ExploredInv'
    BY <1>4 DEF IInv, SearchInv, StackInv, ExploredInv, vars, search
  <2>3. UnwindInv'
    BY <1>4 DEF IInv, SearchInv, UnwindInv, Chain, Inner, vars, search
  <2>4. BasesInv' /\ MappingsInv' /\ MappingsChain' /\ AnswersRight'
    BY <1>4, LeftAloneLemma, NoAnswerLemma DEF vars
  <2>5. QED
    BY <2>1, <2>2, <2>3, <2>4 DEF IInv, SearchInv
<1>5. QED
  BY <1>1, <1>2, <1>3, <1>4 DEF Next

(* The inductive invariant of the search holds of every reachable state.   *)
THEOREM SearchIsSound == Spec => []IInv
<1>1. QED
  BY InitIInv, NextIInv, PTL DEF Spec

(* Every reachable state has its type: in particular a search never runs   *)
(* past the list of a type_info nor returns to a caller that is not there. *)
THEOREM TypeCorrect == Spec => []TypeOK
<1>1. IInv => TypeOK
  BY DEF IInv
<1>2. QED
  BY <1>1, SearchIsSound, PTL

(* What frames, lists and collected casts maintain together.               *)
THEOREM SearchInvHolds == Spec => []SearchInv
<1>1. IInv => SearchInv
  BY DEF IInv
<1>2. QED
  BY <1>1, SearchIsSound, PTL

(* Whatever the hierarchy, the casts that are kept lead from the class of  *)
(* the object to the class wanted: cast_type_ never asserts.               *)
THEOREM MappingsAreChains == Spec => []MappingsChain
<1>1. IInv => MappingsChain
  BY DEF IInv
<1>2. QED
  BY <1>1, SearchIsSound, PTL

(* An object passes for a class exactly when its class derives from it,    *)
(* and stays right about it whatever is bound later.                       *)
THEOREM AnswersAreRight == Spec => []AnswersRight
<1>1. IInv => AnswersRight
  BY DEF IInv
<1>2. QED
  BY <1>1, SearchIsSound, PTL

(***************************************************************************)
(* The promise of Kinship.                                                 *)
(***************************************************************************)

LEMMA StepKeepsPromise ==
  ASSUME IInv, [Next]_vars
  PROVE  [Promise!Next]_(Promise!vars)
<1>1. CASE \E d \in Classes : Bind(d)
  <2>1. PICK d \in Classes : Bind(d)
    BY <1>1
  <2>2. Promise!Join(d)
    BY <2>1 DEF Promise!Join, Bind, CheckDependency, answer
  <2>3. QED
    BY <2>2 DEF Promise!Next
<1>2. CASE \E t \in Classes, x \in Classes \cup {Null} : AskOwn(t, x)
  <2>1. PICK t \in Classes, x \in Classes \cup {Null} : AskOwn(t, x)
    BY <1>2
  <2>2. x # Null => Derives[x][t] = TRUE
    BY <2>1, DerivesAssumption, ClassesAssumption DEF AskOwn
  <2>3. Promise!Judge(t, x)
    BY <2>1, <2>2 DEF Promise!Judge, AskOwn, Reply
  <2>4. QED
    BY <2>3 DEF Promise!Next
<1>3. CASE \E t \in Classes, x \in Classes \cup {Null} : AskKnown(t, x)
  <2>1. PICK t \in Classes, x \in Classes \cup {Null} : AskKnown(t, x)
    BY <1>3
  <2>2. x \in Classes /\ x # Null /\ Derives[x][t] = TRUE
    BY <2>1, ClassesAssumption DEF AskKnown, IInv, TypeOK, SearchInv, MappingsInv
  <2>3. Promise!Judge(t, x)
    BY <2>1, <2>2 DEF Promise!Judge, AskKnown, Reply
  <2>4. QED
    BY <2>3 DEF Promise!Next
<1>4. CASE \E t \in Classes, x \in Classes \cup {Null} : AskUnknown(t, x)
  BY <1>4 DEF AskUnknown, answer, Promise!vars
<1>5. CASE Hit \/ Descend \/ Miss \/ Unwind
  BY <1>5 DEF Hit, Descend, Miss, Unwind, answer, Promise!vars
<1>6. CASE Refuse \/ Keep
  <2>1. query[1] \in Classes /\ query[2] \in Classes
    BY <1>6, InnerLemma DEF IInv, Refuse, Keep
  <2>2. query[2] \in bound /\ query[2] # Null
    BY <1>6, <2>1, ClassesAssumption DEF IInv, SearchInv, StackInv, Refuse, Keep
  <2>3. Derives[query[2]][query[1]] \in BOOLEAN
    BY <2>1, ClassesAssumption
  <2>4. passes' = Derives[query[2]][query[1]] /\ asked' = <<query[1], query[2]>>
    BY <1>6, <2>3, RefuseKeeps, KeepKeeps DEF Refuse, Keep, Reply
  <2>5. query[1] \in bound
    BY <1>6 DEF IInv, SearchInv, StackInv, Refuse, Keep
  <2>6. Promise!Judge(query[1], query[2])
    BY <1>6, <2>2, <2>4, <2>5 DEF Promise!Judge, Refuse, Keep
  <2>7. QED
    BY <2>1, <2>6 DEF Promise!Next
<1>7. CASE UNCHANGED vars
  BY <1>7 DEF vars, answer, Promise!vars
<1>8. QED
  BY <1>1, <1>2, <1>3, <1>4, <1>5, <1>6, <1>7 DEF Next, SearchStep

(* The search with its stack, its lists and its cache implements Kinship,  *)
(* where a question is a lookup in the hierarchy.                          *)
THEOREM InheritanceKeepsPromise == Spec => KeepsPromise
<1>1. Init => Promise!Init
  BY DEF Init, Promise!Init
<1>2. IInv /\ [Next]_vars => [Promise!Next]_(Promise!vars)
  BY StepKeepsPromise
<1>3. QED
  BY <1>1, <1>2, SearchIsSound, PTL DEF Spec, KeepsPromise, Promise!Spec

(***************************************************************************)
(* How deep the recursion is.                                              *)
(***************************************************************************)

\* No class that is bound is below itself, and each frame is below those of
\* its callers.
DepthInv ==
  /\ IsFiniteSet(bound)
  /\ \A d \in bound : \A t \in Needs[d] : ~Derives[t][d]
  /\ \A k \in 1..Len(frames) : frames[k].info \in bound
  /\ \A k \in 1..Len(frames) : \A j \in 1..(k - 1) :
       Derives[frames[k].info][frames[j].info] /\ frames[k].info # frames[j].info

\* Steps that enter no class.
LEMMA DepthFrameLemma ==
  ASSUME DepthInv, IInv, bound' = bound, Len(frames') \in 0..Len(frames),
         \A k \in 1..Len(frames') : frames'[k].info = frames[k].info
  PROVE  DepthInv'
<1>1. Len(frames) \in Nat
  BY LenProperties DEF IInv, TypeOK
<1>2. \A k \in 1..Len(frames') : k \in 1..Len(frames) /\ \A j \in 1..(k - 1) : j \in 1..Len(frames')
  BY <1>1
<1>3. QED
  BY <1>2 DEF DepthInv

LEMMA BindDepth ==
  ASSUME DepthInv, IInv, NEW d \in Classes, Bind(d)
  PROVE  DepthInv'
<1>1. /\ bound' = bound \cup {d} /\ d \notin bound /\ Needs[d] \subseteq bound
      /\ frames' = frames /\ bound \subseteq Classes
  BY DEF Bind, CheckDependency, search, IInv, TypeOK
<1>2. IsFiniteSet(bound')
  BY <1>1, FS_AddElement DEF DepthInv
<1>3. \A t \in bound : ~Derives[t][d]
  BY <1>1 DEF IInv, SearchInv, BasesInv
<1>4. \A e \in bound' : \A t \in Needs[e] : ~Derives[t][e]
  BY <1>1, <1>3 DEF DepthInv
<1>5. QED
  BY <1>1, <1>2, <1>4 DEF DepthInv

LEMMA AskUnknownDepth ==
  ASSUME DepthInv, NEW t \in Classes, NEW x \in Classes \cup {Null}, AskUnknown(t, x)
  PROVE  DepthInv'
<1>1. bound' = bound /\ t \in bound /\ frames' = <<Frame(t)>>
  BY DEF AskUnknown
<1>2. Len(frames') = 1 /\ frames'[1].info = t
  BY <1>1 DEF Frame
<1>3. \A k \in 1..Len(frames') : k = 1 /\ \A j \in 1..(k - 1) : FALSE
  BY <1>2
<1>4. QED
  BY <1>1, <1>2, <1>3 DEF DepthInv

LEMMA DescendDepth ==
  ASSUME DepthInv, IInv, Descend
  PROVE  DepthInv'
<1> DEFINE n == Len(frames)
           list == bases[Inner.info]
           d == list[Inner.next]
<1>1. /\ n \in Nat \ {0} /\ Inner \in FrameOK /\ Len(list) \in Nat
  BY InnerLemma DEF IInv, Descend
<1>2. list \in Seq(Classes) /\ Inner.next \in 1..Len(list)
  BY <1>1 DEF IInv, TypeOK, FrameOK, Descend
<1>3. d \in Classes
  BY <1>2, ElementOfSeq
<1>4. /\ Len(frames') = n + 1 /\ bound' = bound
      /\ \A k \in 1..n : frames'[k] = frames[k]
      /\ frames'[n + 1].info = d
  <2>1. Frame(d) \in FrameOK /\ Frame(d).info = d
    BY <1>3 DEF Frame, FrameOK
  <2>2. frames \in Seq(FrameOK) /\ frames' = Append(frames, Frame(d)) /\ bound' = bound
    BY DEF IInv, TypeOK, Descend
  <2> HIDE DEF d
  <2>3. QED
    BY <2>1, <2>2, PushLemma
<1>5. d \in bound /\ Inner.info \in Needs[d]
  <2>1. Inner.info \in Classes
    BY <1>1 DEF FrameOK
  <2>2. QED
    BY <1>2, <1>3, <2>1 DEF IInv, SearchInv, BasesInv
<1>6. frames[n] = Inner /\ n \in 1..n
  BY <1>1 DEF Inner
<1> HIDE DEF d, list
<1>7. \A j \in 1..n : frames[j].info \in Classes /\ Derives[Inner.info][frames[j].info]
  <2> SUFFICES ASSUME NEW j \in 1..n
               PROVE  frames[j].info \in Classes /\ Derives[Inner.info][frames[j].info]
    OBVIOUS
  <2>1. frames[j].info \in Classes
    BY DEF DepthInv, IInv, TypeOK
  <2>2. CASE j = n
    BY <1>6, <2>1, <2>2, DerivesAssumption
  <2>3. CASE j # n
    <3>1. j \in 1..(n - 1)
      BY <1>1, <2>3
    <3>2. QED
      BY <1>6, <2>1, <3>1 DEF DepthInv
  <2>4. QED
    BY <2>2, <2>3
<1>8. \A j \in 1..n : Derives[d][frames[j].info] /\ d # frames[j].info
  BY <1>3, <1>5, <1>7, DerivesAssumption DEF DepthInv
<1>9. \A k \in 1..(n + 1) : (k \in 1..n \/ k = n + 1) /\ \A j \in 1..(k - 1) : j \in 1..n
  BY <1>1
<1>10. (\A k \in 1..Len(frames) : frames[k].info \in bound)'
  BY <1>4, <1>5, <1>9 DEF DepthInv
<1>11. ASSUME NEW k \in 1..(n + 1), NEW j \in 1..(k - 1)
       PROVE  Derives[frames'[k].info][frames'[j].info] /\ frames'[k].info # frames'[j].info
  <2>1. frames'[j] = frames[j] /\ j \in 1..n
    BY <1>4, <1>9
  <2>2. CASE k \in 1..n
    BY <1>4, <2>1, <2>2 DEF DepthInv
  <2>3. CASE k = n + 1
    BY <1>4, <1>8, <2>1, <2>3
  <2>4. QED
    BY <1>9, <2>2, <2>3
<1>12. QED
  BY <1>4, <1>10, <1>11 DEF DepthInv

LEMMA NextDepth == DepthInv /\ IInv /\ [Next]_vars => DepthInv'
<1> SUFFICES ASSUME DepthInv, IInv, [Next]_vars PROVE DepthInv'
  OBVIOUS
<1>1. Len(frames) \in Nat
  BY LenProperties DEF IInv, TypeOK
<1>2. CASE \E d \in Classes : Bind(d)
  BY <1>2, BindDepth
<1>3. CASE \E t \in Classes, x \in Classes \cup {Null} :
             AskOwn(t, x) \/ AskKnown(t, x) \/ AskUnknown(t, x)
  <2>1. CASE \E t \in Classes, x \in Classes \cup {Null} : AskUnknown(t, x)
    BY <2>1, AskUnknownDepth
  <2>2. CASE \E t \in Classes, x \in Classes \cup {Null} : AskOwn(t, x) \/ AskKnown(t, x)
    <3>1. bound' = bound /\ frames' = frames
      BY <2>2 DEF AskOwn, AskKnown, search
    <3>2. QED
      BY <1>1, <3>1, DepthFrameLemma
  <2>3. QED
    BY <1>3, <2>1, <2>2
<1>4. CASE Descend
  BY <1>4, DescendDepth
<1>5. CASE Hit \/ UNCHANGED vars
  <2>1. bound' = bound /\ frames' = frames
    BY <1>5 DEF Hit, vars, search
  <2>2. QED
    BY <1>1, <2>1, DepthFrameLemma
<1>6. CASE Refuse \/ Keep
  <2>1. bound' = bound /\ frames' = << >> /\ Len(frames') = 0
    BY <1>6 DEF Refuse, Keep
  <2>2. QED
    BY <1>1, <2>1, DepthFrameLemma
<1>7. CASE Unwind
  <2>1. bound' = bound /\ frames' = Popped /\ pc # "idle" /\ Len(frames) > 1
    BY <1>7 DEF Unwind
  <2>2. QED
    BY <1>1, <2>1, PoppedLemma, DepthFrameLemma
<1>8. CASE Miss
  <2>1. bound' = bound /\ frames' = Advance(Popped) /\ pc # "idle" /\ Len(frames) > 1
    BY <1>8 DEF Miss
  <2>2. /\ Popped \in Seq(FrameOK) /\ Len(Popped) = Len(frames) - 1
        /\ \A k \in 1..(Len(frames) - 1) : Popped[k] = frames[k]
    BY <2>1, PoppedLemma
  <2>3. Len(frames') = Len(Popped) /\ \A k \in 1..Len(Popped) : frames'[k].info = Popped[k].info
    <3> DEFINE up == Popped
    <3>1. up \in Seq(FrameOK) /\ frames' = [up EXCEPT ![Len(up)].next = @ + 1]
      BY <2>1, <2>2 DEF Advance
    <3> HIDE DEF up
    <3>2. DOMAIN frames' = DOMAIN up /\ DOMAIN up = 1..Len(up) /\ Len(up) \in Nat
      BY <3>1
    <3>3. Len(frames') = Len(up)
      BY <3>1, <3>2
    <3>4. ASSUME NEW k \in 1..Len(up) PROVE frames'[k].info = up[k].info
      <4>1. up[k] \in FrameOK /\ k \in DOMAIN up
        BY <3>1, <3>2, ElementOfSeq
      <4>2. frames'[k] = IF k = Len(up) THEN [up[k] EXCEPT !.next = @ + 1] ELSE up[k]
        BY <3>1, <4>1
      <4>3. QED
        BY <4>1, <4>2 DEF FrameOK
    <3>5. QED
      BY <3>3, <3>4 DEF up
  <2>4. QED
    BY <1>1, <2>1, <2>2, <2>3, DepthFrameLemma
<1>9. QED
  BY <1>2, <1>3, <1>4, <1>5, <1>6, <1>7, <1>8 DEF Next, SearchStep

(* The recursion of build_mapping_ cannot run away: whatever the hierarchy *)
(* and the order of binding, no class is on its stack twice, and it is at  *)
(* most as deep as there are classes bound.                                *)
THEOREM DepthIsBounded == Spec => []DepthBounded
<1>1. Init => DepthInv
  BY FS_EmptySet DEF Init, DepthInv
<1>2. IInv /\ DepthInv => DepthBounded
  <2> SUFFICES ASSUME IInv, DepthInv, ~DepthBounded PROVE FALSE
    OBVIOUS
  <2> DEFINE n == Len(frames)
             f == [k \in 1..n |-> frames[k].info]
  <2>1. n \in Nat
    BY LenProperties DEF IInv, TypeOK
  <2>2. Cardinality(1..n) = n /\ IsFiniteSet(1..n)
    BY <2>1, FS_Interval
  <2>3. f \in [1..n -> bound]
    BY DEF DepthInv
  <2>4. Cardinality(bound) < Cardinality(1..n) /\ IsFiniteSet(bound)
    BY <2>1, <2>2, FS_CardinalityType DEF DepthBounded, DepthInv
  <2> HIDE DEF f
  <2>5. PICK j, k \in 1..n : j # k /\ f[j] = f[k]
    BY <2>2, <2>3, <2>4, FS_PigeonHole
  <2> USE DEF f
  <2>6. j \in 1..(k - 1) \/ k \in 1..(j - 1)
    BY <2>1, <2>5
  <2>7. QED
    BY <2>5, <2>6 DEF DepthInv
<1>3. QED
  BY <1>1, <1>2, NextDepth, SearchIsSound, PTL DEF Spec

\* A step of a search goes deeper, or on to the next entry of a loop that is
\* there already and no further than its end, and changes no loop below; a
\* step of the way back leaves one call.
Explores ==
  /\ pc = "search" /\ pc' = "search" =>
       LET n == Len(frames') IN
       /\ UNCHANGED <<bases, query>> /\ n <= Len(frames) + 1
       /\ \A k \in 1..(n - 1) : frames'[k] = frames[k]
       /\ n <= Len(frames) => /\ frames'[n].info = frames[n].info
                             /\ frames'[n].next > frames[n].next
                             /\ frames'[n].next <= Len(bases[frames[n].info]) + 1
  /\ pc = "unwind" => pc' # "search" /\ Len(frames') = Len(frames) - 1

(* build_mapping_ comes to no place twice: each step moves on in the order *)
(* of the paths through the bases that are filed, and DepthIsBounded says  *)
(* how long these are.  So a search uses up a finite number of paths, and  *)
(* then of calls, whatever the hierarchy.                                  *)
THEOREM SearchAdvances == Spec => [][Explores]_vars
<1>1. IInv /\ [Next]_vars => [Explores]_vars
  <2> SUFFICES ASSUME IInv, Next PROVE Explores
    OBVIOUS
  <2>1. ASSUME Descend PROVE Explores
    <3>1. pc = "search" /\ UNCHANGED <<bases, query>>
          /\ frames' = Append(frames, Frame(bases[Inner.info][Inner.next]))
      BY <2>1 DEF Descend
    <3>2. Len(frames) \in Nat /\ Inner \in FrameOK
          /\ Inner.next <= Len(bases[Inner.info]) /\ Len(bases[Inner.info]) \in Nat
      BY <2>1, <3>1, InnerLemma DEF IInv, Descend
    <3>3. Frame(bases[Inner.info][Inner.next]) \in FrameOK
      <4>1. bases[Inner.info] \in Seq(Classes) /\ Inner.next \in 1..Len(bases[Inner.info])
        BY <3>2 DEF FrameOK, IInv, TypeOK
      <4>2. QED
        BY <4>1, ElementOfSeq DEF Frame, FrameOK
    <3>4. Len(frames') = Len(frames) + 1 /\ \A k \in 1..Len(frames) : frames'[k] = frames[k]
      BY <3>1, <3>3, PushLemma DEF IInv, TypeOK
    <3>5. QED
      BY <3>1, <3>2, <3>4 DEF Explores
  <2>2. ASSUME Miss PROVE Explores
    <3> DEFINE n == Len(frames) - 1
    <3>1. pc = "search" /\ UNCHANGED <<bases, query>> /\ Len(frames) > 1
          /\ frames' = [Popped EXCEPT ![Len(Popped)].next = @ + 1]
      BY <2>2 DEF Miss, Advance
    <3>2. /\ Popped \in Seq(FrameOK) /\ Len(frames) \in Nat /\ Len(Popped) = n
          /\ \A k \in 1..n : Popped[k] = frames[k]
      BY <3>1, PopLemma DEF IInv, TypeOK, Popped
    <3>3. n \in Nat \ {0} /\ n <= Len(frames)
      BY <3>1, <3>2
    <3>4. frames[n] \in FrameOK /\ frames[n].next \in 1..Len(bases[frames[n].info])
      <4>1. frames[n] \in FrameOK
        BY <3>2, <3>3, ElementOfSeq DEF IInv, TypeOK
      <4>2. QED
        BY <3>1, <3>3, <4>1 DEF IInv, SearchInv, StackInv
    <3> HIDE DEF n
    <3>5. /\ Len(frames') = n
          /\ \A k \in 1..(n - 1) : frames'[k] = frames[k]
          /\ frames'[n] = [frames[n] EXCEPT !.next = @ + 1]
      BY <3>1, <3>2, <3>3
    <3>6. frames'[n].info = frames[n].info /\ frames'[n].next = frames[n].next + 1
      BY <3>4, <3>5 DEF FrameOK
    <3>7. bases[frames[n].info] \in Seq(Classes)
      BY <3>4 DEF FrameOK, IInv, TypeOK
    <3>8. QED
      BY <3>1, <3>2, <3>3, <3>4, <3>5, <3>6, <3>7, LenProperties DEF Explores, FrameOK
  <2>3. ASSUME Unwind PROVE Explores
    <3>1. pc = "unwind" /\ pc' = "unwind" /\ Len(frames) > 1 /\ frames' = Popped
      BY <2>3 DEF Unwind
    <3>2. QED
      BY <3>1, PopLemma DEF IInv, TypeOK, Popped, Explores
  <2>4. ASSUME Keep PROVE Explores
    <3>1. pc = "unwind" /\ pc' = "idle" /\ Len(frames) = 1 /\ frames' = << >>
      BY <2>4 DEF Keep
    <3>2. QED
      BY <3>1 DEF Explores
  <2>5. ASSUME Hit \/ Refuse PROVE Explores
    BY <2>5 DEF Hit, Refuse, Explores
  <2>6. ASSUME (\E d \in Classes : Bind(d))
               \/ \E t \in Classes, x \in Classes \cup {Null} :
                    AskOwn(t, x) \/ AskKnown(t, x) \/ AskUnknown(t, x)
        PROVE  Explores
    BY <2>6 DEF Bind, AskOwn, AskKnown, AskUnknown, Explores
  <2>7. QED
    BY <2>1, <2>2, <2>3, <2>4, <2>5, <2>6 DEF Next, SearchStep
<1>2. QED
  BY <1>1, SearchIsSound, PTL DEF Spec

================================================================================
