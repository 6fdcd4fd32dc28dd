------------------------------ MODULE CallableProofs ------------------------------
(***************************************************************************)
(* Proofs about Access and Closure: the properties and methods that Lua    *)
(* reaches through the closures of a class, and the closures that a        *)
(* std::function becomes and the std::functions that a closure becomes.    *)
(***************************************************************************)
EXTENDS Access, Closure, SequenceTheorems, TLAPS

(***************************************************************************)
(* ACCESS.  The objects of a class that has a __newindex stay empty        *)
(* tables, what is registered in time is effective, and Access implements  *)
(* Attributes.                                                             *)
(***************************************************************************)

(***************************************************************************)
(* Type correctness.                                                       *)
(***************************************************************************)

LEMMA InitTypes == AccessInit => AccessTypeOK
<1> SUFFICES ASSUME AccessInit PROVE AccessTypeOK
  OBVIOUS
<1>1. MaxVersion \in Nat
  BY AccessAssumption
<1>2. members \in [Objects -> [Names -> Values]]
  BY DEF AccessInit
<1>3. walk \in Seq(Look)
  BY DEF AccessInit
<1> QED
  BY <1>1, <1>2, <1>3 DEF AccessInit, AccessTypeOK, Property, Idle

\* What a declaration makes of the properties of a class.
LEMMA WithLemma ==
  ASSUME AccessTypeOK, NEW c \in Classes, NEW n \in Names, NEW kind \in Kinds
  PROVE  /\ With(c, n, kind) \in [DOMAIN properties[c] \cup {n} -> Property]
         /\ DOMAIN With(c, n, kind) = DOMAIN properties[c] \cup {n}
         /\ DOMAIN With(c, n, kind) \subseteq Names
<1>1. [kind |-> kind, get |-> Getter(kind), set |-> Setter(kind)] \in Property
  BY DEF Getter, Setter, Property
<1>2. /\ DOMAIN properties[c] \subseteq Names
      /\ properties[c] \in [DOMAIN properties[c] -> Property]
  BY DEF AccessTypeOK
<1> QED
  BY <1>1, <1>2 DEF With

LEMMA AddPropertyTypes ==
  ASSUME AccessTypeOK, NEW c \in Classes, NEW n \in Names, NEW kind \in Kinds,
         AddProperty(c, n, kind)
  PROVE  AccessTypeOK'
<1>1. /\ \A d \in Classes : properties'[d] = IF d = c THEN With(c, n, kind) ELSE properties[d]
      /\ DOMAIN properties' = Classes
  BY DEF AddProperty, AccessTypeOK
<1>2. \A d \in Classes : /\ DOMAIN properties'[d] \subseteq Names
                         /\ properties'[d] \in [DOMAIN properties'[d] -> Property]
  <2>1. /\ DOMAIN With(c, n, kind) \subseteq Names
        /\ With(c, n, kind) \in [DOMAIN With(c, n, kind) -> Property]
    BY WithLemma
  <2>2. \A d \in Classes : /\ DOMAIN properties[d] \subseteq Names
                           /\ properties[d] \in [DOMAIN properties[d] -> Property]
    BY DEF AccessTypeOK
  <2> TAKE d \in Classes
  <2>3. CASE d = c
    <3>1. properties'[d] = With(c, n, kind)
      BY <1>1, <2>3
    <3> QED
      BY <2>1, <3>1
  <2>4. CASE d # c
    <3>1. properties'[d] = properties[d]
      BY <1>1, <2>4
    <3> QED
      BY <2>2, <3>1
  <2> QED
    BY <2>3, <2>4
<1>3. newindexed' \subseteq Classes
  BY DEF AddProperty, Noted, AccessTypeOK
<1> QED
  BY <1>1, <1>2, <1>3 DEF AddProperty, AccessTypeOK, class, object, search, Idle

LEMMA OneLess ==
  ASSUME NEW m \in Nat \ {0}, m > 1
  PROVE  \E n \in Nat \ {0} : m = n + 1
<1>1. m - 1 \in Nat \ {0} /\ m = (m - 1) + 1
  OBVIOUS
<1> QED
  BY <1>1

\* What is left of a stack without its top.
LEMMA StackLemma ==
  ASSUME NEW S, NEW w \in Seq(S), w # << >>
  PROVE  /\ Len(w) \in Nat \ {0}
         /\ w[Len(w)] \in S
         /\ SubSeq(w, 1, Len(w) - 1) \in Seq(S)
         /\ Len(SubSeq(w, 1, Len(w) - 1)) = Len(w) - 1
         /\ \A i \in 1..Len(w) - 1 : SubSeq(w, 1, Len(w) - 1)[i] = w[i]
         /\ Len(w) > 1 => w[Len(w) - 1] \in S
<1>1. Len(w) \in Nat \ {0}
  OBVIOUS
<1> DEFINE n == Len(w) - 1
<1>2. n \in Nat /\ n <= Len(w) /\ Len(w) = n + 1
  BY <1>1
<1> HIDE DEF n
<1>3. /\ SubSeq(w, 1, n) \in Seq(S)
      /\ Len(SubSeq(w, 1, n)) = n
      /\ \A i \in 1..n : SubSeq(w, 1, n)[i] = w[i]
  BY <1>1, <1>2
<1> QED
  BY <1>1, <1>2, <1>3 DEF n

\* The step back to the table before, where the next base is due.
LEMMA AdvanceLemma ==
  ASSUME AccessTypeOK, NEW n \in Nat \ {0}, Len(walk) = n + 1
  PROVE  /\ Advance(Above) \in Seq(Look)
         /\ Len(Advance(Above)) = n
         /\ \A i \in 1..n : Advance(Above)[i].class = walk[i].class
         /\ \A i \in 1..n - 1 : Advance(Above)[i] = walk[i]
         /\ Advance(Above)[n].next = walk[n].next + 1
<1> DEFINE top == walk[n]
           new == [top EXCEPT !.next = @ + 1]
<1>1. walk \in Seq(Look) /\ walk # << >> /\ Len(walk) - 1 = n
  BY DEF AccessTypeOK
<1>2. /\ Above \in Seq(Look) /\ Len(Above) = n
      /\ \A i \in 1..n : Above[i] = walk[i]
      /\ top \in Look
  BY <1>1, StackLemma DEF Above
<1> HIDE DEF top
<1>3. Above[n] = top
  BY <1>2 DEF top
<1>4. new \in Look /\ new.class = top.class /\ new.next = top.next + 1
  BY <1>2 DEF Look
<1> HIDE DEF new
<1>5. Advance(Above) = [Above EXCEPT ![n] = new]
  BY <1>2, <1>3 DEF Advance, new
<1>6. /\ Advance(Above) \in Seq(Look) /\ Len(Advance(Above)) = n
      /\ \A i \in 1..n : Advance(Above)[i] = IF i = n THEN new ELSE Above[i]
  BY ONLY <1>2, <1>4, <1>5
<1>7. /\ \A i \in 1..n : Advance(Above)[i].class = walk[i].class
      /\ \A i \in 1..n - 1 : Advance(Above)[i] = walk[i]
      /\ Advance(Above)[n].next = walk[n].next + 1
  BY ONLY <1>2, <1>4, <1>6 DEF top
<1> QED
  BY <1>6, <1>7

\* The tables of a search.
LEMMA WalkLemma ==
  ASSUME AccessTypeOK, NEW i \in 1..Len(walk)
  PROVE  /\ walk[i].class \in Classes /\ walk[i].next \in Nat \ {0}
         /\ Bases[walk[i].class] \in Seq(Classes)
         /\ Len(Bases[walk[i].class]) \in Nat
<1>1. walk[i] \in Look
  BY DEF AccessTypeOK
<1>2. walk[i].class \in Classes /\ walk[i].next \in Nat \ {0}
  BY <1>1 DEF Look
<1> QED
  BY <1>2, AccessAssumption

\* While a search lasts.
LEMMA HereLemma ==
  ASSUME AccessTypeOK, ~Idle
  PROVE  /\ wanted \in Objects \X Names
         /\ wanted[1] \in Objects /\ wanted[2] \in Names
         /\ Len(walk) \in Nat \ {0}
         /\ Here.class \in Classes /\ Here.next \in Nat \ {0}
         /\ Bases[Here.class] \in Seq(Classes)
<1>1. Len(walk) \in Nat \ {0} /\ Here \in Look
  BY StackLemma DEF AccessTypeOK, Idle, Here
<1> QED
  BY <1>1, AccessAssumption DEF AccessTypeOK, Look

\* The search for a method: its steps.
LEMMA SearchTypes ==
  ASSUME AccessTypeOK, Hit \/ Descend \/ Miss \/ Nowhere
  PROVE  AccessTypeOK'
<1>1. ~Idle
  BY DEF Hit, Descend, Miss, Nowhere
<1>2. UNCHANGED <<wrapper, class, object, wanted>>
  BY DEF Hit, Descend, Miss, Nowhere, Ended
<1>3. /\ walk' \in Seq(Look)
      /\ answer' \in {<< >>} \cup
           ({"get", "set"} \X Objects \X Keys \X (Values \cup {Error, Nil, Own})) \cup
           ({"get"} \X Objects \X Names \X {Method} \X Classes \X (1..MaxVersion))
  <2>1. CASE Hit
    <3>1. fields[Here.class][wanted[2]] \in 1..MaxVersion
      <4>1. fields[Here.class][wanted[2]] \in 0..MaxVersion
        BY <1>1, HereLemma DEF AccessTypeOK
      <4>2. fields[Here.class][wanted[2]] # 0 /\ MaxVersion \in Nat
        BY <2>1, AccessAssumption DEF Hit, Has
      <4> QED
        BY <4>1, <4>2
    <3>2. /\ answer' = <<"get", wanted[1], wanted[2], Method,
                         Here.class, fields[Here.class][wanted[2]]>>
          /\ walk' = << >>
      BY <2>1 DEF Hit, Ended
    <3>3. answer' \in {"get"} \X Objects \X Names \X {Method} \X Classes \X (1..MaxVersion)
      BY <1>1, <3>1, <3>2, HereLemma
    <3> QED
      BY <3>2, <3>3
  <2>2. CASE Descend
    <3>1. [class |-> Bases[Here.class][Here.next], next |-> 1] \in Look
      <4>1. Here.next \in 1..Len(Bases[Here.class]) /\ Bases[Here.class] \in Seq(Classes)
        BY <1>1, <2>2, HereLemma DEF Descend
      <4> QED
        BY <4>1 DEF Look
    <3> QED
      BY <2>2, <3>1 DEF Descend, AccessTypeOK
  <2>3. CASE Miss
    <3>1. walk' = Advance(Above) /\ answer' = answer /\ Len(walk) > 1
      BY <2>3 DEF Miss
    <3>2. PICK n \in Nat \ {0} : Len(walk) = n + 1
      BY <1>1, <3>1, HereLemma, OneLess
    <3> QED
      BY <3>1, <3>2, AdvanceLemma DEF AccessTypeOK
  <2>4. CASE Nowhere
    <3>1. answer' = <<"get", wanted[1], wanted[2], Nil>> /\ walk' = << >>
      BY <2>4 DEF Nowhere, Ended
    <3> QED
      BY <1>1, <3>1, HereLemma DEF Keys
  <2> QED
    BY <2>1, <2>2, <2>3, <2>4
<1>4. wanted' \in {<< >>} \cup (Objects \X Names) /\ wanted' # << >>
  BY <1>1, <1>2 DEF AccessTypeOK
<1> QED
  BY <1>2, <1>3, <1>4 DEF AccessTypeOK, wrapper, class, object

LEMMA NextTypes == AccessTypeOK /\ [AccessNext]_accessVars => AccessTypeOK'
<1> SUFFICES ASSUME AccessTypeOK, [AccessNext]_accessVars PROVE AccessTypeOK'
  OBVIOUS
<1>0. MaxVersion \in Nat
  BY AccessAssumption
<1>1. ASSUME NEW c \in Classes, NEW n \in Names, AddMethod(c, n) PROVE AccessTypeOK'
  <2>1. versions' \in [Classes -> [Names -> 0..MaxVersion]]
    BY <1>0, <1>1 DEF AddMethod, AccessTypeOK
  <2> QED
    BY <1>1, <2>1 DEF AddMethod, AccessTypeOK, class, object, search, Idle
<1>2. ASSUME NEW c \in Classes, Bind(c) PROVE AccessTypeOK'
  <2>1. /\ bound' \subseteq Classes
        /\ fields' \in [Classes -> [Names -> 0..MaxVersion]]
        /\ index' \in [Classes -> {"closure", "table"}]
    BY <1>2 DEF Bind, AccessTypeOK
  <2>2. newindex' \in [Classes -> BOOLEAN]
    <3>1. /\ newindex' = [newindex EXCEPT ![c] = c \in newindexed]
          /\ newindex \in [Classes -> BOOLEAN]
      BY <1>2 DEF Bind, AccessTypeOK
    <3>2. (c \in newindexed) \in BOOLEAN
      OBVIOUS
    <3> QED
      BY <3>1, <3>2, Zenon
  <2> QED
    BY <1>2, <2>1, <2>2 DEF Bind, AccessTypeOK, wrapper, object, search, Idle
<1>3. ASSUME NEW o \in Objects, NEW k \in Keys, Get(o, k) PROVE AccessTypeOK'
  <2>1. ASSUME k \in Names PROVE members[o][k] \in Values
    BY <2>1 DEF AccessTypeOK
  <2>2. DOMAIN PropertiesOf(o) \subseteq Names
    BY AccessAssumption DEF PropertiesOf, AccessTypeOK
  <2>3. CASE (GetProperty(o, k) \/ GetRaw(o, k)) /\ UNCHANGED search
    <3>1. answer' \in {"get", "set"} \X Objects \X Keys \X (Values \cup {Error, Nil, Own})
      BY <2>1, <2>2, <2>3 DEF GetProperty, GetRaw
    <3> QED
      BY <1>3, <2>3, <3>1 DEF Get, AccessTypeOK, wrapper, class, object, search, Idle
  <2>4. CASE GetOther(o, k) /\ k = Odd
    <3>1. answer' = <<"get", o, k, Nil>> /\ UNCHANGED search
      BY <2>4 DEF GetOther
    <3>2. answer' \in {"get", "set"} \X Objects \X Keys \X (Values \cup {Error, Nil, Own})
      BY <3>1
    <3> QED
      BY <1>3, <3>1, <3>2 DEF Get, AccessTypeOK, wrapper, class, object, search, Idle
  <2>5. CASE GetOther(o, k) /\ k # Odd
    <3>1. /\ answer' = << >> /\ wanted' = <<o, k>> /\ k \in Names
          /\ walk' = <<[class |-> ClassOf[o], next |-> 1]>>
      BY <2>5 DEF GetOther, Keys
    <3>2. walk' \in Seq(Look)
      <4>1. [class |-> ClassOf[o], next |-> 1] \in Look
        BY AccessAssumption DEF Look
      <4> QED
        BY <3>1, <4>1
    <3> QED
      BY <1>3, <3>1, <3>2 DEF Get, AccessTypeOK, wrapper, class, object, Idle
  <2> QED
    BY <1>3, <2>3, <2>4, <2>5 DEF Get
<1>4. ASSUME NEW o \in Objects, NEW k \in Keys, NEW v \in Values \cup {Nil}, Set(o, k, v)
      PROVE  AccessTypeOK'
  <2>1. DOMAIN PropertiesOf(o) \subseteq Names
    BY AccessAssumption DEF PropertiesOf, AccessTypeOK
  <2>2. answer' \in {"get", "set"} \X Objects \X Keys \X (Values \cup {Error, Nil, Own})
    BY <1>4 DEF Set, SetRaw, SetProperty, SetRefused, SetIgnored
  <2>3. members \in [Objects -> [Names -> Values]] /\ raw \in [Objects -> SUBSET Keys]
    BY DEF AccessTypeOK
  <2>4. members' \in [Objects -> [Names -> Values]] /\ raw' \in [Objects -> SUBSET Keys]
    <3>1. CASE SetRaw(o, k, v)
      BY <2>3, <3>1 DEF SetRaw
    <3>2. CASE SetProperty(o, k, v)
      BY <2>1, <2>3, <3>2 DEF SetProperty, Writable
    <3>3. CASE SetRefused(o, k, v) \/ SetIgnored(o, k)
      BY <2>3, <3>3 DEF SetRefused, SetIgnored, object
    <3> QED
      BY <1>4, <3>1, <3>2, <3>3 DEF Set
  <2> QED
    BY <1>4, <2>2, <2>4 DEF Set, AccessTypeOK, wrapper, class, search, Idle
<1>5. ASSUME NEW o \in Objects, NEW n \in Names, NEW v \in Values, Assign(o, n, v)
      PROVE  AccessTypeOK'
  <2>1. members' \in [Objects -> [Names -> Values]]
    BY <1>5 DEF Assign, AccessTypeOK
  <2> QED
    BY <1>5, <2>1 DEF Assign, AccessTypeOK, wrapper, class, search, Idle
<1>6. ASSUME UNCHANGED accessVars PROVE AccessTypeOK'
  BY <1>6 DEF AccessTypeOK, accessVars, wrapper, class, object, search, Idle
<1> QED
  BY <1>1, <1>2, <1>3, <1>4, <1>5, <1>6, AddPropertyTypes, SearchTypes DEF AccessNext

(* Every reachable state has its type.                                     *)
THEOREM AccessTypes == AccessSpec => []AccessTypeOK
<1>1. AccessInit => AccessTypeOK
  BY InitTypes
<1>2. AccessTypeOK /\ [AccessNext]_accessVars => AccessTypeOK'
  BY NextTypes
<1> QED
  BY <1>1, <1>2, PTL DEF AccessSpec

(***************************************************************************)
(* What bind() fixes, and what objects and answers owe to it.              *)
(***************************************************************************)

\* Setters have been noted; a class is bound after all it derives from; when
\* the program does not register late, bind() has seen all there is.
ClassInv ==
  /\ \A c \in Classes : \A n \in DOMAIN properties[c] :
       properties[c][n].set => c \in newindexed
  /\ \A c \in bound : \A i \in 1..Len(Bases[c]) : Bases[c][i] \in bound
  /\ \A c \in bound, t \in Classes : Derives[c][t] => t \in bound
  /\ ~Late => \A c \in bound : newindex[c] = (c \in newindexed) /\ fields[c] = versions[c]

\* Only objects of a bound class without __newindex are written to; the last
\* answer and the search are about an object of a bound class, and the search
\* is not for one of its properties.
ObjectInv ==
  /\ \A o \in Objects : raw[o] # {} => ClassOf[o] \in bound /\ ~newindex[ClassOf[o]]
  /\ answer # << >> => answer[2] \in Objects /\ ClassOf[answer[2]] \in bound
  /\ walk # << >> =>
       /\ ClassOf[wanted[1]] \in bound
       /\ index[ClassOf[wanted[1]]] = "closure" => wanted[2] \notin DOMAIN PropertiesOf(wanted[1])

AccessInv == AccessTypeOK /\ ClassInv /\ ObjectInv

LEMMA InitIInv == AccessInit => AccessInv
<1>1. AccessInit => ClassInv /\ ObjectInv
  BY DEF AccessInit, ClassInv, ObjectInv
<1> QED
  BY <1>1, InitTypes DEF AccessInv

LEMMA AddPropertyKeeps ==
  ASSUME AccessInv, NEW c \in Classes, NEW n \in Names, NEW kind \in Kinds,
         AddProperty(c, n, kind)
  PROVE  ClassInv' /\ ObjectInv'
<1>1. ObjectInv'
  BY DEF AccessInv, ObjectInv, AddProperty, class, object, search, Idle
<1>2. /\ \A d \in Classes : properties'[d] = IF d = c THEN With(c, n, kind) ELSE properties[d]
      /\ newindexed' = Noted(c, kind)
  BY DEF AccessInv, AddProperty, AccessTypeOK
<1>3. ASSUME NEW d \in Classes, NEW k \in DOMAIN properties'[d], properties'[d][k].set
      PROVE  d \in newindexed'
  <2>1. newindexed \subseteq newindexed'
    BY <1>2 DEF Noted
  <2>2. CASE d = c /\ k \notin DOMAIN properties[c]
    <3>1. properties'[d][k] = [kind |-> kind, get |-> Getter(kind), set |-> Setter(kind)]
      BY <1>2, <1>3, <2>2 DEF With
    <3> QED
      BY <1>2, <1>3, <2>2, <3>1 DEF Noted
  <2>3. CASE d = c /\ k \in DOMAIN properties[c]
    <3>1. properties'[d][k] = properties[d][k]
      BY <1>2, <2>3 DEF With
    <3> QED
      BY <1>3, <2>1, <2>3, <3>1 DEF AccessInv, ClassInv
  <2>4. CASE d # c
    <3>1. properties'[d] = properties[d]
      BY <1>2, <2>4
    <3> QED
      BY <1>3, <2>1, <3>1 DEF AccessInv, ClassInv
  <2> QED
    BY <2>2, <2>3, <2>4
<1>4. ~Late => \A d \in bound : d # c
  BY DEF AddProperty
<1>5. ASSUME ~Late, NEW d \in bound
      PROVE  newindex'[d] = (d \in newindexed') /\ fields'[d] = versions'[d]
  <2>1. d \in newindexed' <=> d \in newindexed
    BY <1>2, <1>4, <1>5 DEF Noted
  <2> QED
    BY <1>5, <2>1 DEF AccessInv, ClassInv, AddProperty, class
<1> QED
  BY <1>1, <1>3, <1>5 DEF AccessInv, ClassInv, AddProperty, class

LEMMA AddMethodKeeps ==
  ASSUME AccessInv, NEW c \in Classes, NEW n \in Names, AddMethod(c, n)
  PROVE  ClassInv' /\ ObjectInv'
<1>1. ObjectInv'
  BY DEF AccessInv, ObjectInv, AddMethod, class, object, search, Idle
<1>2. \A d \in Classes : d # c => versions'[d] = versions[d]
  BY DEF AccessInv, AddMethod, AccessTypeOK
<1>3. ~Late => \A d \in bound : d \in Classes /\ d # c
  BY DEF AddMethod, AccessInv, AccessTypeOK
<1> QED
  BY <1>1, <1>2, <1>3 DEF AccessInv, ClassInv, AddMethod, class

LEMMA BindKeeps ==
  ASSUME AccessInv, NEW c \in Classes, Bind(c)
  PROVE  ClassInv' /\ ObjectInv'
<1>1. /\ bound' = bound \cup {c} /\ c \notin bound
      /\ \A d \in Classes : newindex'[d] = IF d = c THEN c \in newindexed ELSE newindex[d]
      /\ \A d \in Classes : fields'[d] = IF d = c THEN versions[c] ELSE fields[d]
      /\ UNCHANGED <<wrapper, object, answer>>
      /\ bound \subseteq Classes
  BY DEF AccessInv, Bind, AccessTypeOK
<1>2. /\ \A d \in bound' : \A i \in 1..Len(Bases[d]) : Bases[d][i] \in bound'
      /\ \A d \in bound', t \in Classes : Derives[d][t] => t \in bound'
  <2>1. \A i \in 1..Len(Bases[c]) : Bases[c][i] \in bound
    BY DEF Bind
  <2>2. \A t \in Classes : Derives[c][t] => t \in bound'
    <3>1. \A t \in Classes :
            Derives[c][t] => c = t \/ \E i \in 1..Len(Bases[c]) : Derives[Bases[c][i]][t]
      BY HierarchyAssumption
    <3> QED
      BY <1>1, <2>1, <3>1 DEF AccessInv, ClassInv
  <2> QED
    BY <1>1, <2>1, <2>2 DEF AccessInv, ClassInv
<1>3. ClassInv'
  BY <1>1, <1>2 DEF AccessInv, ClassInv, wrapper
<1>4. ASSUME NEW o \in Objects, raw'[o] # {}
      PROVE  ClassOf[o] \in bound' /\ ~newindex'[ClassOf[o]]
  <2>1. ClassOf[o] \in bound /\ ~newindex[ClassOf[o]]
    BY <1>1, <1>4 DEF AccessInv, ObjectInv, object
  <2>2. ClassOf[o] # c /\ ClassOf[o] \in Classes
    BY <1>1, <2>1
  <2> QED
    BY <1>1, <2>1, <2>2
<1>5. answer' # << >> => answer'[2] \in Objects /\ ClassOf[answer'[2]] \in bound'
  BY <1>1 DEF AccessInv, ObjectInv
<1>6. walk' = << >>
  BY DEF Bind, Idle, search
<1> QED
  BY <1>3, <1>4, <1>5, <1>6 DEF ObjectInv

LEMMA GetKeeps ==
  ASSUME AccessInv, NEW o \in Objects, NEW k \in Keys, Get(o, k)
  PROVE  ClassInv' /\ ObjectInv'
<1>1. ClassInv'
  BY DEF AccessInv, ClassInv, Get, wrapper, class
<1>2. /\ walk = << >> /\ ClassOf[o] \in bound
      /\ UNCHANGED <<properties, index, newindex, bound, raw>>
  BY DEF Get, Idle, Alive, wrapper, class, object
<1>3. CASE GetOther(o, k) /\ k # Odd
  <2>1. answer' = << >> /\ wanted' = <<o, k>>
    BY <1>3 DEF GetOther
  <2>2. index[ClassOf[o]] = "closure" => k \notin DOMAIN PropertiesOf(o)
    BY <1>3 DEF GetOther
  <2> QED
    BY <1>1, <1>2, <2>1, <2>2 DEF AccessInv, ObjectInv, PropertiesOf
<1>4. CASE ~(GetOther(o, k) /\ k # Odd)
  <2>1. answer'[2] = o /\ UNCHANGED search
    BY <1>4 DEF Get, GetProperty, GetOther, GetRaw
  <2> QED
    BY <1>1, <1>2, <2>1 DEF AccessInv, ObjectInv, search
<1> QED
  BY <1>3, <1>4

LEMMA SetKeeps ==
  ASSUME AccessInv, NEW o \in Objects, NEW k \in Keys, NEW v \in Values \cup {Nil}, Set(o, k, v)
  PROVE  ClassInv' /\ ObjectInv'
<1>1. answer'[2] = o
  BY DEF Set, SetRaw, SetProperty, SetRefused, SetIgnored
<1>2. ClassInv'
  BY DEF AccessInv, ClassInv, Set, wrapper, class
<1>3. \A p \in Objects : raw'[p] = raw[p] \/ (p = o /\ IsRaw(o, k))
  BY DEF Set, SetRaw, SetProperty, SetRefused, SetIgnored, object, AccessInv, AccessTypeOK
<1>4. IsRaw(o, k) => ~newindex[ClassOf[o]]
  BY DEF AccessInv, ObjectInv, IsRaw, Missing
<1>5. \A p \in Objects : raw'[p] # {} => ClassOf[p] \in bound /\ ~newindex[ClassOf[p]]
  BY <1>3, <1>4 DEF AccessInv, ObjectInv, Set, Alive
<1>6. walk' = << >>
  BY DEF Set, Idle, search
<1> QED
  BY <1>1, <1>2, <1>5, <1>6 DEF ObjectInv, Set, Alive, class

LEMMA SearchKeeps ==
  ASSUME AccessInv, Hit \/ Descend \/ Miss \/ Nowhere
  PROVE  ClassInv' /\ ObjectInv'
<1>1. UNCHANGED <<wrapper, class, object, wanted>> /\ walk # << >>
  BY DEF Hit, Descend, Miss, Nowhere, Ended, Idle
<1>2. ClassInv'
  BY <1>1 DEF AccessInv, ClassInv, wrapper, class
<1>3. answer' = answer \/ answer'[2] = wanted[1]
  BY DEF Hit, Descend, Miss, Nowhere, Ended
<1>4. wanted[1] \in Objects
  BY <1>1, HereLemma DEF AccessInv, Idle
<1> QED
  BY <1>1, <1>2, <1>3, <1>4 DEF AccessInv, ObjectInv, PropertiesOf, wrapper, class, object

LEMMA NextIInv == AccessInv /\ [AccessNext]_accessVars => AccessInv'
<1> SUFFICES ASSUME AccessInv, [AccessNext]_accessVars PROVE AccessInv'
  OBVIOUS
<1>1. AccessTypeOK'
  BY NextTypes DEF AccessInv
<1>2. ASSUME NEW o \in Objects, NEW n \in Names, NEW v \in Values, Assign(o, n, v)
      PROVE  ClassInv' /\ ObjectInv'
  BY <1>2 DEF Assign, AccessInv, ClassInv, ObjectInv, wrapper, class, search, Idle
<1>3. ASSUME UNCHANGED accessVars PROVE ClassInv' /\ ObjectInv'
  BY <1>3 DEF AccessInv, ClassInv, ObjectInv, PropertiesOf, accessVars, wrapper, class, object, search
<1>4. ClassInv' /\ ObjectInv'
  BY <1>2, <1>3, AddPropertyKeeps, AddMethodKeeps, BindKeeps, GetKeeps, SetKeeps,
     SearchKeeps DEF AccessNext
<1> QED
  BY <1>1, <1>4 DEF AccessInv

(* What bind() fixes stays so, and objects and answers respect it.         *)
THEOREM AccessInvariant == AccessSpec => []AccessInv
<1>1. AccessInit => AccessInv
  BY InitIInv
<1>2. AccessInv /\ [AccessNext]_accessVars => AccessInv'
  BY NextIInv
<1> QED
  BY <1>1, <1>2, PTL DEF AccessSpec

(* No Lua value hides a property or a method of an object whose class has  *)
(* a __newindex, in whatever order classes are declared, bound and used.   *)
THEOREM ObjectsStayClosed == AccessSpec => []ObjectsClosed
<1>1. AccessInv => ObjectsClosed
  BY DEF AccessInv, ObjectInv, ObjectsClosed
<1> QED
  BY <1>1, AccessInvariant, PTL

(* bind() installs a __newindex if any writable property was declared.     *)
THEOREM SettersAreSeen == AccessSpec => []SettersSeen
<1>1. AccessInv => SettersSeen
  BY DEF AccessInv, AccessTypeOK, ClassInv, SettersSeen
<1> QED
  BY <1>1, AccessInvariant, PTL

(***************************************************************************)
(* The search for a method.                                                *)
(***************************************************************************)

\* The classes the search has come down through.
Way == [i \in 1..Len(walk) |-> walk[i].class]

\* The search has come down a way that leaves nothing out, and what it has
\* passed by in the tables it will return to has nothing either.
WalkInv ==
  /\ \A i \in 1..Len(walk) : /\ walk[i].class \in bound
                             /\ walk[i].next <= Len(Bases[walk[i].class]) + 1
  /\ walk # << >> => walk[1].class = ClassOf[wanted[1]] /\ Way \in Chains
  /\ \A i \in 1..Len(walk) - 1 :
       /\ versions[walk[i].class][wanted[2]] = 0
       /\ walk[i].next <= Len(Bases[walk[i].class])
       /\ walk[i + 1].class = Bases[walk[i].class][walk[i].next]
  /\ \A i \in 1..Len(walk) : \A k \in 1..walk[i].next - 1 :
       ~Offered(Bases[walk[i].class][k], wanted[2])

\* A way from x to t through classes that are bound.
Leads(p, x, t, n) ==
  /\ p[1] = x /\ p[Len(p)] = t
  /\ LeavesNoneOut(p, n)
  /\ \A i \in 1..Len(p) : p[i] \in bound

AnswerInv ==
  answer # << >> /\ answer[1] = "get" /\ answer[3] # Odd =>
    /\ answer[4] = Nil => ~Offered(ClassOf[answer[2]], answer[3])
    /\ answer[4] = Method =>
         /\ answer[5] \in bound
         /\ answer[6] = versions[answer[5]][answer[3]]
         /\ \E p \in Chains : Leads(p, ClassOf[answer[2]], answer[5], answer[3])

SearchInv == ~Late => WalkInv /\ AnswerInv

LEMMA InitSearch == AccessInit => SearchInv
BY DEF AccessInit, SearchInv, WalkInv, AnswerInv

\* Nothing the search or the answer is about changes.
LEMMA SearchLeft ==
  ASSUME SearchInv, UNCHANGED <<versions, bound, answer, search>>
  PROVE  SearchInv'
BY DEF SearchInv, WalkInv, AnswerInv, Leads, LeavesNoneOut, Offered, Way, search

\* There is no search, and the answer stays.
LEMMA AnswerLeft ==
  ASSUME AccessInv, SearchInv, walk' = << >>, answer' = answer, bound \subseteq bound',
         \A t \in bound : versions'[t] = versions[t]
  PROVE  SearchInv'
<1> SUFFICES ASSUME ~Late PROVE WalkInv' /\ AnswerInv'
  BY DEF SearchInv
<1>1. WalkInv'
  BY DEF WalkInv
<1>2. \A x \in bound : \A n : Offered(x, n)' <=> Offered(x, n)
  <2>1. \A x \in bound, t \in Classes : Derives[x][t] => versions'[t] = versions[t]
    BY DEF AccessInv, ClassInv
  <2> QED
    BY <2>1 DEF Offered
<1>3. ASSUME answer # << >>, answer[1] = "get", answer[3] # Odd
      PROVE  /\ answer[4] = Nil => ~Offered(ClassOf[answer[2]], answer[3])'
             /\ answer[4] = Method =>
                  /\ answer[5] \in bound'
                  /\ answer[6] = versions'[answer[5]][answer[3]]
                  /\ \E p \in Chains : Leads(p, ClassOf[answer[2]], answer[5], answer[3])'
  <2>1. ClassOf[answer[2]] \in bound
    BY <1>3 DEF AccessInv, ObjectInv
  <2>2. ASSUME NEW p \in Chains, Leads(p, ClassOf[answer[2]], answer[5], answer[3])
        PROVE  Leads(p, ClassOf[answer[2]], answer[5], answer[3])'
    <3> DEFINE n == answer[3]
    <3>1. \A i \in 1..Len(p) : p[i] \in bound
      BY <2>2 DEF Leads
    <3>2. p \in Seq(Classes)
      BY HierarchyAssumption
    <3>3. \A i \in 1..Len(p) - 1 :
            /\ versions'[p[i]][n] = 0
            /\ \E j \in 1..Len(Bases[p[i]]) :
                 /\ p[i + 1] = Bases[p[i]][j]
                 /\ \A k \in 1..j - 1 : ~Offered(Bases[p[i]][k], n)'
      <4> TAKE i \in 1..Len(p) - 1
      <4>1. i \in 1..Len(p) /\ p[i] \in bound
        BY <3>1, <3>2
      <4>2. /\ versions[p[i]][n] = 0
            /\ \E j \in 1..Len(Bases[p[i]]) :
                 /\ p[i + 1] = Bases[p[i]][j]
                 /\ \A k \in 1..j - 1 : ~Offered(Bases[p[i]][k], n)
        BY <2>2 DEF Leads, LeavesNoneOut
      <4>3. PICK j \in 1..Len(Bases[p[i]]) :
                 /\ p[i + 1] = Bases[p[i]][j]
                 /\ \A k \in 1..j - 1 : ~Offered(Bases[p[i]][k], n)
        BY <4>2
      <4>4. \A k \in 1..j - 1 : Bases[p[i]][k] \in bound
        <5>1. Len(Bases[p[i]]) \in Nat
          BY <4>1, AccessAssumption DEF AccessInv, AccessTypeOK
        <5>2. \A k \in 1..j - 1 : k \in 1..Len(Bases[p[i]])
          BY <5>1
        <5> QED
          BY <4>1, <5>2 DEF AccessInv, ClassInv
      <4>5. \A k \in 1..j - 1 : ~Offered(Bases[p[i]][k], n)'
        BY <4>3, <4>4, <1>2
      <4> QED
        BY <4>1, <4>2, <4>3, <4>5
    <3> QED
      BY <2>2, <3>1, <3>3 DEF Leads, LeavesNoneOut
  <2> QED
    BY <1>2, <1>3, <2>1, <2>2 DEF SearchInv, AnswerInv
<1> QED
  BY <1>1, <1>3 DEF AnswerInv

LEMMA GetSearch ==
  ASSUME AccessInv, SearchInv, NEW o \in Objects, NEW k \in Keys, Get(o, k)
  PROVE  SearchInv'
<1> SUFFICES ASSUME ~Late PROVE WalkInv' /\ AnswerInv'
  BY DEF SearchInv
<1>1. UNCHANGED <<versions, bound, members>> /\ walk = << >> /\ ClassOf[o] \in bound
  BY DEF Get, wrapper, class, object, Idle, Alive
<1>2. CASE GetOther(o, k) /\ k # Odd
  <2>1. /\ answer' = << >> /\ wanted' = <<o, k>>
        /\ walk' = <<[class |-> ClassOf[o], next |-> 1]>>
    BY <1>2 DEF GetOther
  <2>2. ClassOf[o] \in Classes /\ Len(Bases[ClassOf[o]]) \in Nat
    BY AccessAssumption
  <2>3. Len(walk') = 1 /\ walk'[1].class = ClassOf[o] /\ walk'[1].next = 1
    BY <2>1
  <2>4. Way' = <<ClassOf[o]>>
    BY <2>3 DEF Way
  <2>5. Way' \in Chains
    BY <2>2, <2>4, HierarchyAssumption
  <2>6. \A i \in 1..Len(walk') : i = 1
    BY <2>3
  <2>7. \A i \in 1..Len(walk') - 1 : FALSE
    BY <2>3
  <2>8. wanted'[1] = o
    BY <2>1
  <2>9. \A i \in 1..Len(walk') : \A j \in 1..walk'[i].next - 1 : FALSE
    BY <2>3, <2>6
  <2>10. \A i \in 1..Len(walk') : /\ walk'[i].class \in bound'
                                  /\ walk'[i].next <= Len(Bases[walk'[i].class]) + 1
    BY <1>1, <2>2, <2>3, <2>6
  <2>11. WalkInv'
    BY <2>3, <2>5, <2>7, <2>8, <2>9, <2>10 DEF WalkInv
  <2> QED
    BY <2>1, <2>11 DEF AnswerInv
<1>3. CASE ~(GetOther(o, k) /\ k # Odd)
  <2>1. UNCHANGED search
    BY <1>3 DEF Get, GetOther
  <2>2. WalkInv'
    BY <1>1, <2>1 DEF WalkInv, search
  <2>3. answer'[3] = Odd \/ answer'[4] \notin {Nil, Method}
    <3>1. k \in DOMAIN PropertiesOf(o) => members[o][k] \in Values
      BY AccessAssumption DEF AccessInv, AccessTypeOK, PropertiesOf
    <3>2. Values \cap {Method, Nil} = {} /\ Error \notin {Method, Nil} /\ Own \notin {Method, Nil}
      BY AccessAssumption
    <3>3. CASE GetProperty(o, k)
      BY <3>1, <3>2, <3>3 DEF GetProperty
    <3>4. CASE GetRaw(o, k)
      BY <3>2, <3>4 DEF GetRaw
    <3>5. CASE GetOther(o, k) /\ k = Odd
      BY <3>5 DEF GetOther
    <3> QED
      BY <1>3, <3>3, <3>4, <3>5 DEF Get
  <2> QED
    BY <2>2, <2>3 DEF AnswerInv
<1> QED
  BY <1>2, <1>3

LEMMA SetSearch ==
  ASSUME NEW o \in Objects, NEW k \in Keys, NEW v \in Values \cup {Nil}, Set(o, k, v)
  PROVE  SearchInv'
<1>1. answer'[1] = "set"
  BY DEF Set, SetRaw, SetProperty, SetRefused, SetIgnored
<1>2. walk' = << >>
  BY DEF Set, Idle, search
<1> QED
  BY <1>1, <1>2 DEF SearchInv, WalkInv, AnswerInv

\* A table has the name when a method was registered with its class.
LEMMA HasLemma ==
  ASSUME AccessInv, ~Late, WalkInv, ~Idle
  PROVE  /\ Here.class \in bound /\ Here = walk[Len(walk)]
         /\ fields[Here.class] = versions[Here.class]
         /\ Has(Here) <=> versions[Here.class][wanted[2]] # 0
<1>1. Len(walk) \in 1..Len(walk)
  BY HereLemma DEF AccessInv
<1>2. Here.class \in bound
  BY <1>1 DEF WalkInv, Here
<1> QED
  BY <1>2 DEF AccessInv, ClassInv, Has, Here

LEMMA HitSearch ==
  ASSUME AccessInv, SearchInv, Hit
  PROVE  SearchInv'
<1> SUFFICES ASSUME ~Late, WalkInv PROVE WalkInv' /\ AnswerInv'
  BY DEF SearchInv
<1> DEFINE n == wanted[2]
           o == wanted[1]
           c == Here.class
<1>1. /\ ~Idle /\ UNCHANGED <<versions, bound>> /\ walk' = << >>
      /\ answer' = <<"get", o, n, Method, c, fields[c][n]>>
  BY DEF Hit, Ended, wrapper, class
<1>2. /\ Len(walk) \in Nat \ {0} /\ n \in Names
  BY <1>1, HereLemma DEF AccessInv
<1>3. /\ c \in bound /\ c = walk[Len(walk)].class /\ fields[c] = versions[c]
  BY <1>1, HasLemma
<1>4. /\ Way \in Chains
      /\ Len(Way) = Len(walk)
      /\ \A i \in 1..Len(walk) : Way[i] = walk[i].class
  BY <1>1, <1>2 DEF Way, WalkInv, Idle
<1>5. LeavesNoneOut(Way, n)
  <2> SUFFICES ASSUME NEW i \in 1..Len(Way) - 1
               PROVE  /\ versions[Way[i]][n] = 0
                      /\ \E j \in 1..Len(Bases[Way[i]]) :
                           /\ Way[i + 1] = Bases[Way[i]][j]
                           /\ \A k \in 1..j - 1 : ~Offered(Bases[Way[i]][k], n)
    BY DEF LeavesNoneOut
  <2>1. /\ i \in 1..Len(walk) /\ i + 1 \in 1..Len(walk) /\ i \in 1..Len(walk) - 1
    BY <1>2, <1>4
  <2>2. walk[i].next \in Nat \ {0}
    BY <2>1, WalkLemma DEF AccessInv
  <2>3. /\ versions[walk[i].class][n] = 0
        /\ walk[i].next \in 1..Len(Bases[walk[i].class])
        /\ walk[i + 1].class = Bases[walk[i].class][walk[i].next]
        /\ \A k \in 1..walk[i].next - 1 : ~Offered(Bases[walk[i].class][k], n)
    <3>1. Len(Bases[walk[i].class]) \in Nat
      BY <2>1, WalkLemma DEF AccessInv
    <3> QED
      BY <2>1, <2>2, <3>1 DEF WalkInv
  <2> QED
    BY <1>4, <2>1, <2>3
<1>6. Leads(Way, ClassOf[o], c, n)
  <2>1. Way[1] = ClassOf[o] /\ Way[Len(Way)] = c
    BY <1>1, <1>2, <1>3, <1>4 DEF WalkInv, Idle
  <2>2. \A i \in 1..Len(Way) : Way[i] \in bound
    BY <1>4 DEF WalkInv
  <2> QED
    BY <1>5, <2>1, <2>2 DEF Leads
<1>7. PICK p \in Chains, x \in {ClassOf[o]}, t \in {c}, m \in {n} : Leads(p, x, t, m)
  BY <1>4, <1>6
<1>8. Leads(p, x, t, m)'
  BY <1>1, <1>7 DEF Leads, LeavesNoneOut, Offered
<1>9. /\ answer'[2] = o /\ answer'[3] = m /\ answer'[4] = Method
      /\ answer'[5] = t /\ answer'[6] = versions[t][m] /\ ClassOf[answer'[2]] = x
  BY <1>1, <1>3, <1>7
<1>10. t \in bound' /\ versions'[t][m] = versions[t][m] /\ Method # Nil
  BY <1>1, <1>3, <1>7, AccessAssumption
<1>11. AnswerInv'
  BY <1>8, <1>9, <1>10 DEF AnswerInv
<1> QED
  BY <1>1, <1>11 DEF WalkInv

LEMMA DescendSearch ==
  ASSUME AccessInv, SearchInv, Descend
  PROVE  SearchInv'
<1> SUFFICES ASSUME ~Late, WalkInv, AnswerInv PROVE WalkInv' /\ AnswerInv'
  BY DEF SearchInv
<1> DEFINE l == Len(walk)
           c == Here.class
           b == Bases[c][Here.next]
           new == [class |-> b, next |-> 1]
<1>1. /\ ~Idle /\ ~Has(Here)
      /\ Here.next <= Len(Bases[c]) /\ walk' = Append(walk, new)
      /\ UNCHANGED <<versions, bound, wanted, answer>>
  BY DEF Descend, wrapper, class
<1>2. /\ l \in Nat \ {0} /\ c \in Classes /\ Here.next \in 1..Len(Bases[c])
      /\ Bases[c] \in Seq(Classes) /\ walk \in Seq(Look) /\ walk # << >>
  BY <1>1, HereLemma DEF AccessInv, AccessTypeOK, Idle
<1>3. /\ c \in bound /\ Here = walk[l] /\ versions[c][wanted[2]] = 0
  BY <1>1, HasLemma
<1>4. b \in bound /\ b \in Classes
  BY <1>2, <1>3 DEF AccessInv, ClassInv
<1>5. /\ Len(walk') = l + 1
      /\ \A i \in 1..l : walk'[i] = walk[i]
      /\ walk'[l + 1].class = b /\ walk'[l + 1].next = 1
  BY <1>1, <1>2
<1>6. Way \in Chains /\ Way' = Append(Way, b)
  <2>1. Way \in Seq(Classes) /\ Len(Way) = l /\ \A i \in 1..l : Way[i] = walk[i].class
    <3>1. \A i \in 1..l : walk[i].class \in Classes
      BY WalkLemma DEF AccessInv
    <3> QED
      BY <1>2, <3>1 DEF Way
  <2>2. /\ Way' = [i \in 1..l + 1 |-> walk'[i].class]
        /\ \A i \in 1..l : walk'[i].class = Way[i]
    BY <1>5, <2>1 DEF Way
  <2> HIDE DEF l, b
  <2>3. \A i \in 1..l + 1 : i \in 1..l \/ i = l + 1
    BY <1>2
  <2>4. /\ Append(Way, b) \in Seq(Classes) /\ Len(Append(Way, b)) = l + 1
        /\ \A i \in 1..l : Append(Way, b)[i] = Way[i]
        /\ Append(Way, b)[l + 1] = b
    BY ONLY <1>2, <1>4, <2>1
  <2>5. \A i \in 1..l + 1 : Way'[i] = Append(Way, b)[i] /\ Way'[i] \in Classes
    BY <1>4, <1>5, <2>1, <2>2, <2>3, <2>4
  <2>6. Way' \in Seq(Classes) /\ Len(Way') = l + 1
    <3>1. Way' \in [1..l + 1 -> Classes] /\ l + 1 \in Nat
      BY <1>2, <2>2, <2>5
    <3> HIDE DEF Way
    <3> QED
      BY ONLY <3>1
  <2>7. Way' = Append(Way, b)
    BY ONLY <2>4, <2>5, <2>6, SeqEqual
  <2>8. Way \in Chains
    BY <1>2 DEF WalkInv
  <2> QED
    BY <2>7, <2>8
<1>7. Way' \in Chains
  <2>1. Way[Len(Way)] = c
    BY <1>2, <1>3 DEF Way
  <2> QED
    BY <1>2, <1>6, <2>1, HierarchyAssumption
<1>8. Len(Bases[b]) \in Nat /\ Len(Bases[c]) \in Nat
  BY <1>2, <1>4, AccessAssumption
<1> HIDE DEF l, b, c, new
<1>9. \A i \in 1..Len(walk') : /\ walk'[i].class \in bound'
                                /\ walk'[i].next <= Len(Bases[walk'[i].class]) + 1
  <2>1. \A i \in 1..l : /\ walk[i].class \in bound
                        /\ walk[i].next <= Len(Bases[walk[i].class]) + 1
    BY DEF WalkInv, l
  <2>2. \A i \in 1..l + 1 : i \in 1..l \/ i = l + 1
    BY <1>2
  <2> QED
    BY <1>1, <1>2, <1>4, <1>5, <1>8, <2>1, <2>2
<1>10. walk'[1].class = ClassOf[wanted'[1]]
  BY <1>1, <1>2, <1>5 DEF WalkInv
<1>11. \A i \in 1..Len(walk') - 1 :
         /\ versions[walk'[i].class][wanted[2]] = 0
         /\ walk'[i].next <= Len(Bases[walk'[i].class])
         /\ walk'[i + 1].class = Bases[walk'[i].class][walk'[i].next]
  <2> TAKE i \in 1..Len(walk') - 1
  <2>0. i \in 1..l /\ walk'[i] = walk[i]
    BY <1>2, <1>5
  <2>1. CASE i = l
    BY <1>1, <1>3, <1>5, <2>0, <2>1 DEF b, c
  <2>2. CASE i # l
    <3>1. i \in 1..l - 1 /\ i + 1 \in 1..l
      BY <1>2, <2>0, <2>2
    <3> QED
      BY <1>5, <2>0, <3>1 DEF WalkInv, l
  <2> QED
    BY <2>1, <2>2
<1>12. \A i \in 1..Len(walk') : \A k \in 1..walk'[i].next - 1 :
         ~Offered(Bases[walk'[i].class][k], wanted[2])
  <2>1. \A i \in 1..l : \A k \in 1..walk[i].next - 1 : ~Offered(Bases[walk[i].class][k], wanted[2])
    BY DEF WalkInv, l
  <2>2. \A i \in 1..l + 1 : i \in 1..l \/ i = l + 1
    BY <1>2
  <2>3. \A k \in 1..walk'[l + 1].next - 1 : FALSE
    BY <1>5
  <2> QED
    BY <1>5, <2>1, <2>2, <2>3
<1>13. UNCHANGED <<versions, bound, wanted, answer>>
  BY <1>1
<1>14. WalkInv'
  BY ONLY <1>7, <1>9, <1>10, <1>11, <1>12, <1>13 DEF WalkInv, Offered
<1>15. AnswerInv'
  BY ONLY AnswerInv, <1>13 DEF AnswerInv, Leads, LeavesNoneOut, Offered
<1> QED
  BY <1>14, <1>15

\* A table whose own bases have nothing, and that has nothing itself.
LEMMA NothingHere ==
  ASSUME AccessInv, ~Late, WalkInv, ~Idle, ~Has(Here), Here.next > Len(Bases[Here.class])
  PROVE  ~Offered(Here.class, wanted[2])
<1> DEFINE c == Here.class
           n == wanted[2]
<1>1. /\ c \in Classes /\ Here.next \in Nat \ {0} /\ Len(walk) \in Nat \ {0}
      /\ Len(Bases[c]) \in Nat
  BY HereLemma DEF AccessInv
<1>2. Here = walk[Len(walk)] /\ versions[c][n] = 0
  BY HasLemma
<1>3. \A k \in 1..Len(Bases[c]) : ~Offered(Bases[c][k], n)
  <2>1. \A k \in 1..Here.next - 1 : ~Offered(Bases[c][k], n)
    BY <1>1, <1>2 DEF WalkInv
  <2> QED
    BY <1>1, <2>1
<1> HIDE DEF c, n
<1>4. ASSUME NEW t \in Classes, Derives[c][t], versions[t][n] # 0 PROVE FALSE
  <2>1. c = t \/ \E i \in 1..Len(Bases[c]) : Derives[Bases[c][i]][t]
    BY <1>1, <1>4, HierarchyAssumption
  <2> QED
    BY <1>2, <1>3, <1>4, <2>1 DEF Offered, c, n
<1> QED
  BY <1>4 DEF Offered, c, n

LEMMA MissSearch ==
  ASSUME AccessInv, SearchInv, Miss
  PROVE  SearchInv'
<1> SUFFICES ASSUME ~Late, WalkInv, AnswerInv PROVE WalkInv' /\ AnswerInv'
  BY DEF SearchInv
<1>1. /\ ~Idle /\ ~Has(Here) /\ Here.next > Len(Bases[Here.class])
      /\ Len(walk) > 1 /\ walk' = Advance(Above)
      /\ UNCHANGED <<versions, bound, wanted, answer>>
  BY DEF Miss, wrapper, class
<1>2. PICK l \in Nat \ {0} : Len(walk) = l + 1
  <2>1. Len(walk) \in Nat \ {0} /\ Len(walk) > 1
    BY <1>1, HereLemma DEF AccessInv
  <2> QED
    BY <2>1, OneLess
<1>3. /\ Len(walk') = l
      /\ \A i \in 1..l : walk'[i].class = walk[i].class
      /\ \A i \in 1..l - 1 : walk'[i] = walk[i]
      /\ walk'[l].next = walk[l].next + 1
      /\ walk' \in Seq(Look) /\ walk' # << >>
  <2>1. AccessTypeOK /\ walk' = Advance(Above)
    BY <1>1 DEF AccessInv
  <2>2. /\ Advance(Above) \in Seq(Look)
        /\ Len(Advance(Above)) = l
        /\ \A i \in 1..l : Advance(Above)[i].class = walk[i].class
        /\ \A i \in 1..l - 1 : Advance(Above)[i] = walk[i]
        /\ Advance(Above)[l].next = walk[l].next + 1
    BY <1>2, <2>1, AdvanceLemma
  <2>3. walk' # << >>
    BY <1>2, <2>1, <2>2
  <2> QED
    BY <2>1, <2>2, <2>3
<1>4. /\ walk[l].next \in Nat \ {0} /\ walk[l].next <= Len(Bases[walk[l].class])
      /\ walk[l + 1].class = Bases[walk[l].class][walk[l].next]
      /\ Len(Bases[walk[l].class]) \in Nat
  <2>1. walk[l] \in Look /\ l \in 1..Len(walk) - 1
    BY <1>2 DEF AccessInv, AccessTypeOK
  <2>2. walk[l].next \in Nat \ {0} /\ walk[l].class \in Classes
    BY <2>1 DEF Look
  <2> QED
    BY <2>1, <2>2, AccessAssumption DEF WalkInv
<1>5. ~Offered(Bases[walk[l].class][walk[l].next], wanted[2])
  <2>1. Here.class = walk[l + 1].class
    BY <1>2 DEF Here
  <2> QED
    BY <1>1, <1>4, <2>1, NothingHere
<1>6. walk'[1].class = ClassOf[wanted'[1]]
  BY <1>1, <1>2, <1>3 DEF WalkInv
<1>7. Way' \in Chains
  <2>1. Way' = [i \in 1..l |-> walk[i].class]
    BY <1>2, <1>3 DEF Way
  <2>2. Way \in Chains /\ Way = [i \in 1..l + 1 |-> walk[i].class]
    BY <1>2 DEF WalkInv, Way
  <2>3. Way' = SubSeq(Way, 1, l)
    BY <2>1, <2>2, <1>2
  <2> QED
    BY <1>2, <2>2, <2>3, HierarchyAssumption
<1>8. \A i \in 1..l : i \in 1..l - 1 \/ i = l
  BY <1>2
<1>9. \A i \in 1..Len(walk') : /\ walk'[i].class \in bound'
                               /\ walk'[i].next <= Len(Bases[walk'[i].class]) + 1
  <2>1. \A i \in 1..l : walk[i].class \in bound /\ walk[i].next <= Len(Bases[walk[i].class]) + 1
    BY <1>2 DEF WalkInv
  <2>2. \A i \in 1..l - 1 : i \in 1..l /\ walk'[i] = walk[i]
    BY <1>2, <1>3
  <2>3. bound' = bound /\ walk'[l].class = walk[l].class /\ l \in 1..l
    BY <1>1, <1>2, <1>3
  <2>4. walk'[l].next <= Len(Bases[walk[l].class]) + 1
    BY <1>3, <1>4
  <2> QED
    BY <1>3, <1>8, <2>1, <2>2, <2>3, <2>4
<1>10. \A i \in 1..Len(walk') - 1 :
         /\ versions[walk'[i].class][wanted[2]] = 0
         /\ walk'[i].next <= Len(Bases[walk'[i].class])
         /\ walk'[i + 1].class = Bases[walk'[i].class][walk'[i].next]
  <2> TAKE i \in 1..Len(walk') - 1
  <2>1. /\ i \in 1..Len(walk) - 1 /\ walk'[i] = walk[i]
        /\ i + 1 \in 1..l
    BY <1>2, <1>3
  <2>2. walk'[i + 1].class = walk[i + 1].class
    BY <1>3, <2>1
  <2> QED
    BY <2>1, <2>2 DEF WalkInv
<1>11. \A i \in 1..Len(walk') : \A k \in 1..walk'[i].next - 1 :
         ~Offered(Bases[walk'[i].class][k], wanted[2])
  <2>1. \A i \in 1..l : \A k \in 1..walk[i].next - 1 : ~Offered(Bases[walk[i].class][k], wanted[2])
    BY <1>2 DEF WalkInv
  <2>2. \A k \in 1..walk'[l].next - 1 : k \in 1..walk[l].next - 1 \/ k = walk[l].next
    BY <1>3, <1>4
  <2>3. \A k \in 1..walk'[l].next - 1 : ~Offered(Bases[walk'[l].class][k], wanted[2])
    BY <1>2, <1>3, <1>5, <2>1, <2>2
  <2>4. \A i \in 1..l - 1 : walk'[i] = walk[i] /\ i \in 1..l
    BY <1>2, <1>3
  <2> QED
    BY <1>3, <1>8, <2>1, <2>3, <2>4
<1>12. WalkInv'
  BY <1>1, <1>6, <1>7, <1>9, <1>10, <1>11 DEF WalkInv, Offered
<1>13. AnswerInv'
  BY <1>1 DEF AnswerInv, Leads, LeavesNoneOut, Offered
<1> QED
  BY <1>12, <1>13

LEMMA NowhereSearch ==
  ASSUME AccessInv, SearchInv, Nowhere
  PROVE  SearchInv'
<1> SUFFICES ASSUME ~Late, WalkInv PROVE WalkInv' /\ AnswerInv'
  BY DEF SearchInv
<1>1. /\ ~Idle /\ ~Has(Here) /\ Here.next > Len(Bases[Here.class]) /\ Len(walk) = 1
      /\ walk' = << >> /\ UNCHANGED <<versions, bound>>
      /\ answer' = <<"get", wanted[1], wanted[2], Nil>>
  BY DEF Nowhere, Ended, wrapper, class
<1>2. Here.class = ClassOf[wanted[1]]
  BY <1>1 DEF WalkInv, Here, Idle
<1>3. ~Offered(ClassOf[wanted[1]], wanted[2])'
  <2>1. ~Offered(ClassOf[wanted[1]], wanted[2])
    BY <1>1, <1>2, NothingHere
  <2>2. wanted' = wanted
    BY DEF Nowhere, Ended
  <2> QED
    BY <1>1, <2>1, <2>2 DEF Offered
<1>4. Method # Nil
  BY AccessAssumption
<1> QED
  BY <1>1, <1>3, <1>4 DEF WalkInv, AnswerInv, Nowhere, Ended

LEMMA NextSearch == AccessInv /\ SearchInv /\ [AccessNext]_accessVars => SearchInv'
<1> SUFFICES ASSUME AccessInv, SearchInv, [AccessNext]_accessVars PROVE SearchInv'
  OBVIOUS
<1>1. ASSUME NEW c \in Classes, NEW n \in Names, AddMethod(c, n) PROVE SearchInv'
  <2>1. walk' = << >> /\ answer' = answer /\ bound' = bound
    BY <1>1 DEF AddMethod, Idle, search, class
  <2>2. CASE Late
    <3>1. Late' = Late
      OBVIOUS
    <3> QED
      BY <2>2 DEF SearchInv
  <2>3. CASE ~Late
    <3>1. c \notin bound /\ bound \subseteq Classes
      BY <1>1, <2>3 DEF AddMethod, AccessInv, AccessTypeOK
    <3>2. \A t \in bound : versions'[t] = versions[t]
      BY <1>1, <3>1 DEF AddMethod, AccessInv, AccessTypeOK
    <3> QED
      BY <2>1, <3>2, AnswerLeft
  <2> QED
    BY <2>2, <2>3
<1>2. ASSUME NEW c \in Classes, Bind(c) PROVE SearchInv'
  <2>1. /\ walk' = << >> /\ answer' = answer /\ bound \subseteq bound'
        /\ versions' = versions
    BY <1>2 DEF Bind, Idle, search, wrapper
  <2> QED
    BY <2>1, AnswerLeft
<1>3. ASSUME NEW c \in Classes, NEW n \in Names, NEW kind \in Kinds, AddProperty(c, n, kind)
      PROVE  SearchInv'
  BY <1>3, SearchLeft DEF AddProperty, class
<1>4. ASSUME NEW o \in Objects, NEW n \in Names, NEW v \in Values, Assign(o, n, v)
      PROVE  SearchInv'
  BY <1>4, SearchLeft DEF Assign, class, wrapper
<1>5. ASSUME UNCHANGED accessVars PROVE SearchInv'
  BY <1>5, SearchLeft DEF accessVars, class, wrapper
<1> QED
  BY <1>1, <1>2, <1>3, <1>4, <1>5, GetSearch, SetSearch, HitSearch, DescendSearch, MissSearch,
     NowhereSearch DEF AccessNext

(* When all methods were registered in time, the search of Lua for one     *)
(* ends at the first class of the hierarchy that has the name, base by     *)
(* base in the order of their declaration, and gives the method that was   *)
(* registered there last; nil only if no class of the hierarchy has one.   *)
THEOREM MethodsAreReached == AccessSpec => []MethodsReached
<1>1. AccessInit => AccessInv /\ SearchInv
  BY InitIInv, InitSearch
<1>2. AccessInv /\ SearchInv /\ [AccessNext]_accessVars => (AccessInv /\ SearchInv)'
  BY NextIInv, NextSearch
<1>3. AccessInv /\ SearchInv => MethodsReached
  BY DEF SearchInv, AnswerInv, Leads, MethodsReached
<1> QED
  BY <1>1, <1>2, <1>3, PTL DEF AccessSpec

(***************************************************************************)
(* The refinement: every step is one of Attributes, or leaves what it      *)
(* describes alone.                                                        *)
(***************************************************************************)

LEMMA InitPromise == AccessInit => Promise!Init
<1> SUFFICES ASSUME AccessInit PROVE Promise!Init
  OBVIOUS
<1>1. Reply = << >>
  <2>1. answer = << >>
    BY DEF AccessInit
  <2> QED
    BY ONLY <2>1 DEF Reply
<1>2. Declared = [c \in Classes |-> [n \in {} |-> [get |-> FALSE, set |-> FALSE]]]
  <2>1. \A c \in Classes : properties[c] = [n \in {} |-> [kind |-> "", get |-> FALSE, set |-> FALSE]]
    BY Zenon DEF AccessInit
  <2>2. \A c \in Classes : DOMAIN properties[c] = {}
    BY <2>1, Zenon
  <2>3. ASSUME NEW c \in Classes
        PROVE  Declared[c] = [n \in {} |-> [get |-> FALSE, set |-> FALSE]]
    <3>1. Declared[c] = [n \in DOMAIN properties[c] |->
                           [get |-> properties[c][n].get, set |-> properties[c][n].set]]
      BY Zenon DEF Declared
    <3>2. DOMAIN properties[c] = {}
      BY <2>2
    <3> QED
      BY ONLY <3>1, <3>2
  <2> QED
    BY <2>3, Zenon DEF Declared
<1>3. members \in [Objects -> [Names -> Values]]
  BY DEF AccessInit
<1> QED
  BY <1>1, <1>2, <1>3 DEF Promise!Init

\* What an instance shows is settled by the class of the last answer.
LEMMA ReplyKept ==
  ASSUME AccessInv, UNCHANGED <<answer, bound, index, newindex>>
  PROVE  Reply' = Reply
BY DEF Reply, Guarded

LEMMA DeclaredKept ==
  ASSUME UNCHANGED properties
  PROVE  Declared' = Declared
BY DEF Declared

LEMMA AddPropertyPromised ==
  ASSUME AccessInv, NEW c \in Classes, NEW n \in Names, NEW kind \in Kinds,
         AddProperty(c, n, kind)
  PROVE  [Promise!Next]_(Promise!vars)
<1>1. Reply' = Reply /\ members' = members
  BY ReplyKept DEF AddProperty, class, object
<1>2. /\ properties'[c] = With(c, n, kind)
      /\ \A d \in Classes : d # c => properties'[d] = properties[d]
  BY DEF AccessInv, AccessTypeOK, AddProperty
<1>3. \A d \in Classes : d # c => Declared'[d] = Declared[d]
  BY <1>2 DEF Declared
<1>4. /\ Declared = [d \in Classes |-> Declared[d]]
      /\ Declared' = [d \in Classes |-> Declared'[d]]
  BY DEF Declared
<1>5. DOMAIN Declared[c] = DOMAIN properties[c]
  BY DEF Declared
<1>6. CASE n \in DOMAIN properties[c]
  <2>1. properties'[c] = properties[c]
    <3>1. properties[c] = [k \in DOMAIN properties[c] |-> properties[c][k]]
      BY DEF AccessInv, AccessTypeOK
    <3>2. DOMAIN properties[c] \cup {n} = DOMAIN properties[c]
      BY <1>6
    <3> QED
      BY <1>2, <3>1, <3>2 DEF With
  <2>2. Declared'[c] = Declared[c]
    BY <2>1 DEF Declared
  <2>3. Declared' = Declared
    BY <1>3, <1>4, <2>2
  <2> QED
    BY <1>1, <2>3 DEF Promise!vars
<1>7. CASE n \notin DOMAIN properties[c]
  <2> DEFINE After == [k \in DOMAIN Declared[c] \cup {n} |->
                         IF k = n THEN [get |-> Getter(kind), set |-> Setter(kind)]
                         ELSE Declared[c][k]]
  <2>1. Declared'[c] = After
    <3>1. DOMAIN properties'[c] = DOMAIN properties[c] \cup {n}
      BY <1>2 DEF With
    <3>2. Declared'[c] = [k \in DOMAIN properties[c] \cup {n} |->
                            [get |-> properties'[c][k].get, set |-> properties'[c][k].set]]
      BY <3>1 DEF Declared
    <3>3. /\ properties'[c][n].get = Getter(kind)
          /\ properties'[c][n].set = Setter(kind)
          /\ \A k \in DOMAIN properties[c] : k # n /\ properties'[c][k] = properties[c][k]
      BY <1>2, <1>7 DEF With
    <3>4. \A k \in DOMAIN properties[c] :
            Declared[c][k] = [get |-> properties[c][k].get, set |-> properties[c][k].set]
      BY DEF Declared
    <3>5. \A k \in DOMAIN properties[c] \cup {n} :
            [get |-> properties'[c][k].get, set |-> properties'[c][k].set]
              = IF k = n THEN [get |-> Getter(kind), set |-> Setter(kind)] ELSE Declared[c][k]
      <4>1. \A k \in DOMAIN properties[c] :
              k # n /\ [get |-> properties'[c][k].get, set |-> properties'[c][k].set] = Declared[c][k]
        BY <3>3, <3>4
      <4> QED
        BY <3>3, <4>1
    <3> QED
      BY ONLY <1>5, <3>2, <3>5
  <2>2. Declared' = [Declared EXCEPT ![c] = After]
    BY <1>3, <1>4, <2>1
  <2>3. Promise!Declare(c, n, Getter(kind), Setter(kind))
    BY <1>1, <1>5, <1>7, <2>2 DEF Promise!Declare
  <2>4. Getter(kind) \in BOOLEAN /\ Setter(kind) \in BOOLEAN
    BY DEF Getter, Setter
  <2> QED
    BY <2>3, <2>4 DEF Promise!Next
<1> QED
  BY <1>6, <1>7

LEMMA BindPromised ==
  ASSUME AccessInv, NEW c \in Classes, Bind(c)
  PROVE  UNCHANGED Promise!vars
<1>1. /\ bound' = bound \cup {c} /\ c \notin bound
      /\ \A d \in Classes : d # c => index'[d] = index[d] /\ newindex'[d] = newindex[d]
      /\ UNCHANGED <<properties, members, answer>>
      /\ bound \subseteq Classes
  BY DEF AccessInv, Bind, AccessTypeOK, wrapper, object
<1>2. \A d \in bound : Guarded(d)' = Guarded(d)
  BY <1>1 DEF Guarded
<1>3. Reply' = Reply
  <2>1. CASE answer = << >>
    BY <1>1, <2>1 DEF Reply
  <2>2. CASE answer # << >>
    <3>1. ClassOf[answer[2]] \in bound /\ answer' = answer
      BY <1>1, <2>2 DEF AccessInv, ObjectInv
    <3> QED
      BY <1>2, <3>1 DEF Reply
  <2> QED
    BY <2>1, <2>2
<1> QED
  BY <1>1, <1>3, DeclaredKept DEF Promise!vars

\* What a guarded class knows of its properties, as Attributes has it.
LEMMA SameProperties ==
  ASSUME AccessInv, NEW o \in Objects
  PROVE  /\ DOMAIN Promise!PropertiesOf(o) = DOMAIN PropertiesOf(o)
         /\ \A n \in DOMAIN PropertiesOf(o) :
              /\ Promise!PropertiesOf(o)[n].get = PropertiesOf(o)[n].get
              /\ Promise!PropertiesOf(o)[n].set = PropertiesOf(o)[n].set
<1>1. ClassOf[o] \in Classes
  BY AccessAssumption
<1>2. Declared[ClassOf[o]] =
        [n \in DOMAIN properties[ClassOf[o]] |->
           [get |-> properties[ClassOf[o]][n].get, set |-> properties[ClassOf[o]][n].set]]
  BY <1>1 DEF Declared
<1> QED
  BY <1>2 DEF Promise!PropertiesOf, PropertiesOf

LEMMA GetPromised ==
  ASSUME AccessInv, NEW o \in Objects, NEW k \in Keys, Get(o, k)
  PROVE  Promise!Next
<1>1. Declared' = Declared /\ members' = members
  BY DeclaredKept DEF Get, wrapper, object
<1>2. \/ answer' = << >> /\ k # Odd /\ GetOther(o, k)
      \/ answer' # << >> /\ answer'[2] = o
  BY DEF Get, GetProperty, GetOther, GetRaw
<1>3. Guarded(ClassOf[o])' = Guarded(ClassOf[o])
  BY DEF Get, class, Guarded
<1>4. CASE answer' = << >> \/ ~Guarded(ClassOf[o])
  <2>1. Reply' = << >>
    BY <1>2, <1>3, <1>4 DEF Reply
  <2> QED
    BY <1>1, <2>1 DEF Promise!Next, Promise!Elsewhere
<1>5. CASE answer' # << >> /\ Guarded(ClassOf[o])
  <2>1. Reply' = <<answer'[1], answer'[2], answer'[3], answer'[4]>>
    BY <1>2, <1>3, <1>5 DEF Reply
  <2>2. Missing(o, k)
    BY <1>5 DEF Guarded, AccessInv, ObjectInv, Missing
  <2>3. DOMAIN PropertiesOf(o) \subseteq Names
    BY AccessAssumption DEF AccessInv, AccessTypeOK, PropertiesOf
  <2>4. CASE k \in DOMAIN PropertiesOf(o)
    <3>1. answer' = <<"get", o, k, IF PropertiesOf(o)[k].get THEN members[o][k] ELSE Error>>
      BY <1>5, <2>2, <2>4 DEF Get, GetProperty, GetOther, GetRaw, Guarded
    <3>2. Promise!Read(o, k)
      BY <1>1, <2>1, <2>4, <3>1, SameProperties DEF Promise!Read
    <3> QED
      BY <2>3, <2>4, <3>2 DEF Promise!Next
  <2>5. CASE k \notin DOMAIN PropertiesOf(o)
    <3>1. answer' = <<"get", o, k, Nil>>
      BY <1>5, <2>2, <2>5 DEF Get, GetProperty, GetOther, GetRaw
    <3>2. Reply' \in {<<"get", o, k, r>> : r \in {Nil, Method}}
      BY <2>1, <3>1
    <3>3. Promise!LookUp(o, k)
      BY <1>1, <2>5, <3>2, SameProperties DEF Promise!LookUp
    <3> QED
      BY <3>3 DEF Promise!Next, Keys
  <2> QED
    BY <2>4, <2>5
<1> QED
  BY <1>4, <1>5

LEMMA SetPromised ==
  ASSUME AccessInv, NEW o \in Objects, NEW k \in Keys, NEW v \in Values \cup {Nil}, Set(o, k, v)
  PROVE  Promise!Next
<1>1. Declared' = Declared
  BY DeclaredKept DEF Set, wrapper
<1>2. answer' # << >> /\ answer'[2] = o
  BY DEF Set, SetRaw, SetProperty, SetRefused, SetIgnored
<1>3. Guarded(ClassOf[o])' = Guarded(ClassOf[o])
  BY DEF Set, class, Guarded
<1>4. DOMAIN PropertiesOf(o) \subseteq Names
  BY AccessAssumption DEF AccessInv, AccessTypeOK, PropertiesOf
<1>5. CASE ~Guarded(ClassOf[o])
  <2>1. Reply' = << >>
    BY <1>2, <1>3, <1>5 DEF Reply
  <2>2. CASE SetProperty(o, k, v)
    <3>1. k \in Names /\ v \in Values
      BY <1>4, <2>2 DEF SetProperty, Writable
    <3>2. Promise!Assign(o, k, v)
      BY <1>1, <2>1, <2>2 DEF SetProperty, Promise!Assign
    <3> QED
      BY <3>1, <3>2 DEF Promise!Next
  <2>3. CASE ~SetProperty(o, k, v)
    <3>1. members' = members
      BY <2>3 DEF Set, SetRaw, SetRefused, SetIgnored, object
    <3> QED
      BY <1>1, <2>1, <3>1 DEF Promise!Next, Promise!Elsewhere
  <2> QED
    BY <2>2, <2>3
<1>6. CASE Guarded(ClassOf[o])
  <2>1. Reply' = answer'
    <3>1. Reply' = <<answer'[1], answer'[2], answer'[3], answer'[4]>>
      BY <1>2, <1>3, <1>6 DEF Reply
    <3>2. answer' = <<answer'[1], answer'[2], answer'[3], answer'[4]>>
      BY DEF Set, SetRaw, SetProperty, SetRefused, SetIgnored
    <3> QED
      BY <3>1, <3>2
  <2>2. ~IsRaw(o, k)
    BY <1>6 DEF Guarded, AccessInv, ObjectInv, Missing, IsRaw
  <2>3. Promise!Writable(o, k, v) <=> Writable(o, k, v)
    BY SameProperties DEF Promise!Writable, Writable
  <2>4. CASE SetProperty(o, k, v)
    <3>1. k \in Names /\ v \in Values
      BY <1>4, <2>4 DEF SetProperty, Writable
    <3>2. Promise!Write(o, k, v)
      BY <1>1, <2>1, <2>3, <2>4 DEF SetProperty, Promise!Write
    <3> QED
      BY <3>1, <3>2 DEF Promise!Next
  <2>5. CASE SetRefused(o, k, v)
    <3>1. k \in Names
      BY <2>5 DEF SetRefused, Keys
    <3>2. Promise!Refuse(o, k, v)
      BY <1>1, <2>1, <2>3, <2>5 DEF SetRefused, object, Promise!Refuse
    <3> QED
      BY <3>1, <3>2 DEF Promise!Next
  <2>6. CASE SetIgnored(o, k)
    <3>1. Promise!Ignore(o)
      BY <1>1, <2>1, <2>6 DEF SetIgnored, object, Promise!Ignore
    <3> QED
      BY <3>1 DEF Promise!Next
  <2> QED
    BY <2>2, <2>4, <2>5, <2>6 DEF Set, SetRaw
<1> QED
  BY <1>5, <1>6

LEMMA AssignPromised ==
  ASSUME AccessInv, NEW o \in Objects, NEW n \in Names, NEW v \in Values, Assign(o, n, v)
  PROVE  Promise!Next
<1>1. Declared' = Declared
  BY DeclaredKept DEF Assign, wrapper
<1>2. Reply' = Reply
  BY ReplyKept DEF Assign, class
<1>3. Promise!Assign(o, n, v)
  BY <1>1, <1>2 DEF Assign, Promise!Assign
<1> QED
  BY <1>3 DEF Promise!Next

LEMMA SearchPromised ==
  ASSUME AccessInv, Hit \/ Descend \/ Miss \/ Nowhere
  PROVE  [Promise!Next]_(Promise!vars)
<1>1. /\ UNCHANGED <<wrapper, class, object, wanted>> /\ ~Idle
      /\ Declared' = Declared /\ members' = members
  BY DeclaredKept DEF Hit, Descend, Miss, Nowhere, Ended, wrapper, object
<1>2. CASE Descend \/ Miss
  <2>1. Reply' = Reply
    BY <1>1, <1>2, ReplyKept DEF Descend, Miss, class
  <2> QED
    BY <1>1, <2>1 DEF Promise!vars
<1>3. CASE Hit \/ Nowhere
  <2>0. PICK o \in Objects, n \in Names : wanted[1] = o /\ wanted[2] = n
    BY <1>1, HereLemma DEF AccessInv
  <2>1. /\ answer' # << >> /\ answer'[1] = "get" /\ answer'[2] = o /\ answer'[3] = n
        /\ answer'[4] \in {Nil, Method}
    BY <1>3, <2>0 DEF Hit, Nowhere, Ended
  <2>3. Guarded(ClassOf[o])' = Guarded(ClassOf[o])
    BY <1>1 DEF class, Guarded
  <2>4. CASE ~Guarded(ClassOf[o])
    <3>1. Reply' = << >>
      BY <2>1, <2>3, <2>4 DEF Reply
    <3> QED
      BY <1>1, <3>1 DEF Promise!Next, Promise!Elsewhere
  <2>5. CASE Guarded(ClassOf[o])
    <3>1. Reply' = <<"get", o, n, answer'[4]>>
      BY <2>1, <2>3, <2>5 DEF Reply
    <3>2. Reply' \in {<<"get", o, n, r>> : r \in {Nil, Method}}
      BY <2>1, <3>1
    <3>3. n \notin DOMAIN PropertiesOf(o)
      BY <1>1, <2>0, <2>5 DEF Guarded, AccessInv, ObjectInv, Idle
    <3>4. Promise!LookUp(o, n)
      BY <1>1, <3>2, <3>3, SameProperties DEF Promise!LookUp
    <3> QED
      BY <3>4 DEF Promise!Next
  <2> QED
    BY <2>4, <2>5
<1> QED
  BY <1>2, <1>3

LEMMA NextPromised == AccessInv /\ [AccessNext]_accessVars => [Promise!Next]_(Promise!vars)
<1> SUFFICES ASSUME AccessInv, [AccessNext]_accessVars PROVE [Promise!Next]_(Promise!vars)
  OBVIOUS
<1>1. ASSUME NEW c \in Classes, NEW n \in Names, AddMethod(c, n)
      PROVE  UNCHANGED Promise!vars
  <2>1. Reply' = Reply /\ Declared' = Declared /\ members' = members
    BY <1>1, ReplyKept, DeclaredKept DEF AddMethod, class, object
  <2> QED
    BY <2>1 DEF Promise!vars
<1>2. ASSUME UNCHANGED accessVars PROVE UNCHANGED Promise!vars
  <2>1. Reply' = Reply /\ Declared' = Declared /\ members' = members
    BY <1>2, ReplyKept, DeclaredKept DEF accessVars, wrapper, class, object
  <2> QED
    BY <2>1 DEF Promise!vars
<1>3. CASE \E c \in Classes :
             \/ \E n \in Names : AddMethod(c, n) \/ \E kind \in Kinds : AddProperty(c, n, kind)
             \/ Bind(c)
  BY <1>1, <1>3, AddPropertyPromised, BindPromised
<1>4. CASE \E o \in Objects :
             \/ \E k \in Keys : Get(o, k) \/ \E v \in Values \cup {Nil} : Set(o, k, v)
             \/ \E n \in Names, v \in Values : Assign(o, n, v)
  BY <1>4, GetPromised, SetPromised, AssignPromised
<1> QED
  BY <1>2, <1>3, <1>4, SearchPromised DEF AccessNext

(* The objects of every class whose bind() saw a getter and a setter keep  *)
(* what Attributes promises of their properties: a read gives the member,  *)
(* a write changes that member alone, and what is refused changes nothing. *)
THEOREM AccessKeepsPromise == AccessSpec => KeepsPromise
<1>1. AccessInit => Promise!Init
  BY InitPromise
<1>2. AccessInv /\ [AccessNext]_accessVars => [Promise!Next]_(Promise!vars)
  BY NextPromised
<1> QED
  BY <1>1, <1>2, AccessInvariant, PTL DEF AccessSpec, KeepsPromise, Promise!Spec

------------------------------------------------------------------------------
(***************************************************************************)
(* CLOSURE.  Which of its properties hold whatever the program does, and   *)
(* which risk each of the others excludes.                                 *)
(***************************************************************************)

(***************************************************************************)
(* The inductive invariant.                                                *)
(***************************************************************************)

\* The std::functions that live share an auto_unref.
BlockInv == \A b \in Living : block[b] \in [ref : Refs, state : Threads, made : Function]

WholeInv == "finaliser" \notin Rash => ClosuresWhole

FunctorInv == "reset" \notin Rash => FunctorThere

\* Once the state closes C++ has no std::function of Lua left, but those that
\* the finalisers are about to destroy.
ClosedInv ==
  closed /\ "outlive" \notin Rash =>
    /\ \A s \in Slots : slots[s] = None
    /\ \A c \in Closures : data[c] \in Functor => c \in doomed
    /\ Arguments = {}
    /\ "finaliser" \notin Rash => frames = << >>

CallsInv == Rash \cap {"outlive", "finaliser"} = {} => CallsWhole

StateInv == Rash \cap {"outlive", "coroutine"} = {} => StateThere

IInv ==
  /\ TypeOK /\ BlockInv /\ RefsExact
  /\ WholeInv /\ FunctorInv /\ ClosedInv /\ CallsInv /\ StateInv

\* What the stack of calls is made of.
FramesOK ==
  /\ frames \in Seq(Frame)
  /\ \A i \in 2..Len(frames) : frames[i].kind = "lua" => frames[i].of # None

\* What Lua and C++ refer to.
Kept == named \cup OnStack \cup {block[b].made : b \in Living}

LEMMA InitInv == Init => IInv
<1> SUFFICES ASSUME Init PROVE IInv
  OBVIOUS
<1>1. Running = {} /\ frames \in Seq(Frame) /\ Len(frames) = 0
  BY DEF Init, Running
<1>2. TypeOK
  <2>1. \A i \in 2..Len(frames) : frames[i].kind = "lua" => frames[i].of # None
    BY <1>1
  <2> QED
    BY <1>1, <2>1 DEF Init, TypeOK, Function
<1>3. Living = {} /\ OnStack = {} /\ Arguments = {}
  BY <1>1, ClosureAssumption DEF Init, Living, OnStack, Arguments
<1>4. BlockInv /\ RefsExact /\ StateInv
  BY <1>3 DEF Init, BlockInv, RefsExact, StateInv, StateThere
<1>5. WholeInv
  BY <1>3, ClosureAssumption DEF Init, WholeInv, ClosuresWhole, ReachedFrom
<1>6. FunctorInv /\ CallsInv /\ ClosedInv
  BY <1>1 DEF Init, FunctorInv, FunctorThere, CallsInv, CallsWhole, ClosedInv
<1> QED
  BY <1>2, <1>4, <1>5, <1>6 DEF IInv

(***************************************************************************)
(* The calls that run.                                                     *)
(***************************************************************************)

LEMMA RunningLemma ==
  ASSUME FramesOK
  PROVE  /\ Running \subseteq Frame
         /\ frames # << >> => Inner \in Running /\ Inner \in Frame /\ Len(frames) \in Nat \ {0}
         /\ frames = << >> => Running = {}
<1>1. Len(frames) \in Nat /\ frames \in Seq(Frame)
  BY DEF FramesOK
<1> QED
  BY <1>1 DEF Running, Inner

LEMMA FrameLemma ==
  ASSUME NEW fr \in Frame
  PROVE  /\ fr.kind \in {"lua", "native", "closure"}
         /\ fr.kind = "lua" => fr.of \in Functions \cup {None} /\ fr.via \in Slots \cup {None}
         /\ fr.kind = "native" => fr.of \in Blocks /\ fr.via = None
         /\ fr.kind = "closure" => fr.of \in Closures /\ fr.via \in Slots \cup {None}
BY DEF Frame

\* A call is entered.
LEMMA EnteredLemma ==
  ASSUME FramesOK, NEW k, NEW x, NEW s, Entered(k, x, s),
         [kind |-> k, of |-> x, via |-> s] \in Frame,
         k = "lua" /\ frames # << >> => x # None
  PROVE  FramesOK' /\ Running' = Running \cup {[kind |-> k, of |-> x, via |-> s]}
<1> DEFINE fr == [kind |-> k, of |-> x, via |-> s]
           n == Len(frames)
<1>1. frames \in Seq(Frame) /\ n \in Nat /\ frames' = Append(frames, fr) /\ fr \in Frame
  BY DEF FramesOK, Entered
<1>2. fr.kind = k /\ fr.of = x
  OBVIOUS
<1> HIDE DEF fr
<1>3. /\ frames' \in Seq(Frame) /\ Len(frames') = n + 1 /\ frames'[n + 1] = fr
      /\ \A i \in 1..n : frames'[i] = frames[i]
  BY <1>1
<1>4. n >= 1 => frames # << >>
  OBVIOUS
<1> HIDE DEF n
<1>5. \A i \in 1..(n + 1) : i \in 1..n \/ i = n + 1
  BY <1>1
<1>6. FramesOK'
  <2>1. ASSUME NEW i \in 2..(n + 1), frames'[i].kind = "lua" PROVE frames'[i].of # None
    <3>1. CASE i = n + 1
      BY <1>1, <1>2, <1>3, <1>4, <2>1, <3>1
    <3>2. CASE i # n + 1
      <4>1. i \in 1..n /\ i \in 2..Len(frames)
        BY <1>1, <3>2 DEF n
      <4> QED
        BY <1>3, <2>1, <4>1 DEF FramesOK
    <3> QED
      BY <3>1, <3>2
  <2> QED
    BY <1>3, <2>1 DEF FramesOK
<1>7. Running' = {frames'[i] : i \in 1..(n + 1)} /\ Running = {frames[i] : i \in 1..n}
  BY <1>3 DEF Running, n
<1>8. Running' = Running \cup {fr}
  BY <1>1, <1>3, <1>5, <1>7
<1> QED
  BY <1>6, <1>8 DEF fr

\* Only the k outermost calls go on.
LEMMA CutLemma ==
  ASSUME FramesOK, NEW k \in 0..Len(frames), frames' = SubSeq(frames, 1, k)
  PROVE  /\ FramesOK' /\ Running' = {frames[i] : i \in 1..k} /\ Running' \subseteq Running
         /\ \A i \in 1..Len(frames) :
              frames[i] \in Running' \/ i \in (k + 1)..Len(frames)
         /\ k = 0 => frames' = << >>
<1> DEFINE n == Len(frames)
<1>1. n \in Nat /\ k \in Nat /\ \A i \in 1..k : frames[i] \in Frame
  BY DEF FramesOK
<1>2. /\ frames' \in Seq(Frame) /\ Len(frames') = k
      /\ \A i \in 1..k : frames'[i] = frames[i]
  <2>1. /\ SubSeq(frames, 1, k) \in Seq(Frame)
        /\ Len(SubSeq(frames, 1, k)) = IF 1 <= k THEN k - 1 + 1 ELSE 0
        /\ \A i \in 1..(k - 1 + 1) : SubSeq(frames, 1, k)[i] = frames[1 + i - 1]
    BY <1>1, SubSeqProperties
  <2>2. (IF 1 <= k THEN k - 1 + 1 ELSE 0) = k
    BY <1>1
  <2>3. \A i \in 1..k : i \in 1..(k - 1 + 1) /\ 1 + i - 1 = i
    BY <1>1
  <2> QED
    BY <2>1, <2>2, <2>3
<1>3. \A i \in 2..k : i \in 1..k /\ i \in 2..n
  BY <1>1
<1>4. FramesOK'
  BY <1>2, <1>3 DEF FramesOK
<1>5. Running' = {frames[i] : i \in 1..k}
  BY <1>2 DEF Running
<1>6. \A i \in 1..k : i \in 1..n
  BY <1>1
<1>7. Running' \subseteq Running
  BY <1>5, <1>6 DEF Running
<1>8. \A i \in 1..n : i \in 1..k \/ i \in (k + 1)..n
  BY <1>1
<1>9. k = 0 => frames' = << >>
  BY <1>2
<1> QED
  BY <1>4, <1>5, <1>7, <1>8, <1>9

\* The innermost call ends.
LEMMA PoppedLemma ==
  ASSUME FramesOK, frames # << >>, frames' = Popped
  PROVE  FramesOK' /\ Running' \subseteq Running /\ Running \subseteq Running' \cup {Inner}
<1> DEFINE k == Len(frames) - 1
<1>1. k \in 0..Len(frames) /\ Len(frames) = k + 1 /\ k \in Nat
  BY DEF FramesOK
<1>2. frames' = SubSeq(frames, 1, k)
  BY DEF Popped
<1> HIDE DEF k
<1>3. /\ FramesOK' /\ Running' \subseteq Running
      /\ \A i \in 1..Len(frames) : frames[i] \in Running' \/ i \in (k + 1)..Len(frames)
  BY <1>1, <1>2, CutLemma
<1>4. \A i \in (k + 1)..Len(frames) : i = Len(frames)
  BY <1>1
<1> QED
  BY <1>3, <1>4 DEF Running, Inner

(***************************************************************************)
(* Blocks and references.                                                  *)
(***************************************************************************)

LEMMA LivingLemma ==
  ASSUME NEW b
  PROVE  b \in Living <=>
           /\ b \in Blocks
           /\ \/ \E s \in Slots : slots[s] = b
              \/ \E c \in Closures : data[c] = b
              \/ \E fr \in Running : fr.kind = "native" /\ fr.of = b
              \/ b \in lost
BY DEF Living, Arguments

LEMMA OnStackLemma ==
  ASSUME NEW x
  PROVE  x \in OnStack <=> \E fr \in Running : fr.kind \in {"lua", "closure"} /\ fr.of = x
BY DEF OnStack

\* What holds of blocks and references.
HeldInv ==
  /\ registry \in [Refs -> Function \cup {None}]
  /\ block \in [Blocks -> [ref : Refs, state : Threads, made : Function] \cup {None}]
  /\ BlockInv /\ RefsExact

LEMMA BlockLemma ==
  ASSUME IInv, NEW b \in Living
  PROVE  /\ b \in Blocks /\ block[b] \in [ref : Refs, state : Threads, made : Function]
         /\ registry[block[b].ref] = block[b].made /\ block[b].made \in Function
BY LivingLemma DEF IInv, TypeOK, BlockInv, RefsExact

\* No std::function is made or destroyed.
LEMMA SameLemma ==
  ASSUME IInv, UNCHANGED <<registry, block>>, Living' = Living
  PROVE  HeldInv'
BY DEF HeldInv, IInv, TypeOK, BlockInv, RefsExact

\* Some copies are destroyed.
LEMMA ReleasedLemma ==
  ASSUME IInv, NEW xs, Released(xs), Living' \subseteq Living,
         Living \subseteq Living' \cup xs, xs \cap Blocks \subseteq Living
  PROVE  HeldInv' /\ \A b \in Living' : block'[b] = block[b]
<1> DEFINE bs == (xs \cap Blocks) \ Living'
<1>1. bs \cap Living' = {} /\ Living = bs \cup Living' /\ Living \subseteq Blocks
  BY LivingLemma
<1>2. /\ registry' = [r \in Refs |->
           IF \E b \in bs : block[b].ref = r THEN None ELSE registry[r]]
      /\ block' = [b \in Blocks |-> IF b \in Living' THEN block[b] ELSE None]
  BY DEF Released, Unreferenced
<1> HIDE DEF bs
<1>3. \A b \in Living' : b \in Living /\ b \in Blocks /\ block'[b] = block[b]
  BY <1>1, <1>2
<1>4. /\ registry' \in [Refs -> Function \cup {None}]
      /\ block' \in [Blocks -> [ref : Refs, state : Threads, made : Function] \cup {None}]
  BY <1>2 DEF IInv, TypeOK
<1>5. BlockInv'
  BY <1>1, <1>2 DEF IInv, BlockInv
<1>6. ASSUME NEW b \in Living'
      PROVE  /\ registry'[block'[b].ref] = block'[b].made
             /\ \A d \in Living' : block'[b].ref = block'[d].ref => b = d
  <2>1. b \in Living /\ block'[b] = block[b] /\ block[b].ref \in Refs
    BY <1>3, BlockLemma
  <2>2. ~ \E d \in bs : block[d].ref = block[b].ref
    BY <1>1, <2>1 DEF IInv, RefsExact
  <2>3. registry'[block[b].ref] = registry[block[b].ref]
    BY <1>2, <2>1, <2>2
  <2> QED
    BY <1>3, <2>1, <2>3 DEF IInv, RefsExact
<1>7. ASSUME NEW r \in Refs, registry'[r] # None
      PROVE  \E b \in Living' : block'[b].ref = r
  <2>1. registry[r] # None /\ ~ \E b \in bs : block[b].ref = r
    BY <1>2, <1>7
  <2>2. PICK b \in Living : block[b].ref = r
    BY <2>1 DEF IInv, RefsExact
  <2> QED
    BY <1>1, <1>3, <2>1, <2>2
<1> QED
  BY <1>3, <1>4, <1>5, <1>6, <1>7 DEF HeldInv, RefsExact

(***************************************************************************)
(* What can be reached.                                                    *)
(***************************************************************************)

LEMMA ReachedLemma ==
  ASSUME NEW R, NEW x
  PROVE  x \in ReachedFrom(R) <=>
           /\ x \in Function
           /\ x \in R \/ \E f \in Functions \cap R : upvalue[f] = x
BY DEF ReachedFrom

\* A function is reached if it is referred to.
LEMMA FunctionReached ==
  ASSUME TypeOK, NEW R, NEW f \in Functions, f \in ReachedFrom(R)
  PROVE  f \in R
<1>1. \A g \in Functions : upvalue[g] # f
  BY ClosureAssumption DEF TypeOK
<1> QED
  BY <1>1, ReachedLemma

LEMMA AccessibleKept == Accessible \subseteq ReachedFrom(Kept)
BY DEF Accessible, Kept, ReachedFrom

\* ClosuresWhole, of what is Kept.
LEMMA WholeLemma ==
  ClosuresWhole <=>
    (~closed => \A c \in Closures \cap ReachedFrom(Kept) : data[c] \in Functor /\ c \notin doomed)
BY DEF ClosuresWhole, Kept

\* No more is referred to than could be reached, and to that nothing happens.
LEMMA WholeStays ==
  ASSUME TypeOK, WholeInv, closed' = closed,
         Kept' \cap Function \subseteq ReachedFrom(Kept),
         \A f \in Functions \cap Kept :
           upvalue'[f] \in ReachedFrom(Kept) \cup {None},
         \A c \in Closures \cap ReachedFrom(Kept) :
           data[c] \in Functor /\ c \notin doomed =>
             data'[c] = data[c] /\ c \notin doomed'
  PROVE  WholeInv'
<1> SUFFICES ASSUME "finaliser" \notin Rash, ~closed', NEW c \in Closures,
                    c \in ReachedFrom(Kept)'
             PROVE  data'[c] \in Functor /\ c \notin doomed'
  BY WholeLemma DEF WholeInv, ClosuresWhole, Kept
<1>1. c \in Kept' \/ \E f \in Functions \cap Kept' : upvalue'[f] = c
  BY DEF ReachedFrom
<1>2. c \in ReachedFrom(Kept)
  <2>1. CASE c \in Kept'
    BY <2>1 DEF Function
  <2>2. CASE \E f \in Functions \cap Kept' : upvalue'[f] = c
    <3>1. PICK f \in Functions \cap Kept' : upvalue'[f] = c
      BY <2>2
    <3>2. f \in Kept
      BY FunctionReached DEF Function
    <3> QED
      BY <3>1, <3>2, ClosureAssumption
  <2> QED
    BY <1>1, <2>1, <2>2
<1>3. data[c] \in Functor /\ c \notin doomed
  BY <1>2, WholeLemma DEF WholeInv
<1> QED
  BY <1>2, <1>3

\* Blocks that live keep their states, and no state goes.
LEMMA StateStays ==
  ASSUME StateInv, gone' = gone, lost \subseteq lost', Living' \subseteq Living,
         \A b \in Living' : block'[b] = block[b]
  PROVE  StateInv'
BY DEF StateInv, StateThere

(***************************************************************************)
(* Calls.                                                                  *)
(***************************************************************************)

LEMMA TypeFrames == TypeOK => FramesOK
BY DEF TypeOK, FramesOK

\* The calls of Lua functions and closures change, and nothing else.
LEMMA CallsChange ==
  ASSUME IInv, FramesOK', UNCHANGED <<registry, block, slots, data, lost, luaVars>>,
         \A fr \in Running : fr.kind = "native" => fr \in Running',
         \A fr \in Running' \ Running :
           /\ fr.kind \in {"lua", "closure"}
           /\ "finaliser" \notin Rash => fr.of \in ReachedFrom(Kept) \cup {None}
           /\ fr.via # None => slots[fr.via] \in Blocks
           /\ fr.kind = "closure" /\ Rash \cap {"outlive", "finaliser"} = {} =>
                data[fr.of] \in Functor,
         closed /\ Rash \cap {"outlive", "finaliser"} = {} => frames' = << >>
  PROVE  IInv'
<1>1. UNCHANGED <<registry, block, slots, data, lost, doomed, named, upvalue, closed, gone>>
  BY DEF luaVars
<1>2. \A fr : fr.kind = "native" => (fr \in Running <=> fr \in Running')
  OBVIOUS
<1>3. Living' = Living /\ Arguments' = Arguments
  BY <1>1, <1>2 DEF Living, Arguments
<1>4. HeldInv'
  BY <1>1, <1>3, SameLemma
<1>5. TypeOK'
  BY <1>1, <1>4 DEF IInv, TypeOK, HeldInv, FramesOK
<1>6. WholeInv'
  <2>1. CASE "finaliser" \in Rash
    BY <2>1 DEF WholeInv
  <2>2. CASE "finaliser" \notin Rash
    <3>1. ASSUME NEW x \in Kept', x \in Function
          PROVE  x \in ReachedFrom(Kept)
      <4>1. CASE x \in OnStack'
        <5>1. PICK fr \in Running' : fr.kind \in {"lua", "closure"} /\ fr.of = x
          BY <4>1 DEF OnStack
        <5>2. CASE fr \in Running
          BY <3>1, <5>1, <5>2, ReachedLemma DEF OnStack, Kept
        <5>3. CASE fr \notin Running
          BY <2>2, <3>1, <5>1, <5>3, ClosureAssumption DEF Function
        <5> QED
          BY <5>2, <5>3
      <4>2. CASE x \notin OnStack'
        BY <1>1, <1>3, <3>1, <4>2, ReachedLemma DEF Kept
      <4> QED
        BY <4>1, <4>2
    <3>2. \A f \in Functions \cap Kept : upvalue[f] \in ReachedFrom(Kept) \cup {None}
      BY ReachedLemma DEF IInv, TypeOK, Function
    <3> QED
      BY <1>1, <3>1, <3>2, WholeStays DEF IInv
  <2> QED
    BY <2>1, <2>2
<1>7. FunctorInv'
  BY <1>1 DEF IInv, FunctorInv, FunctorThere
<1>8. CallsInv'
  BY <1>1 DEF IInv, CallsInv, CallsWhole
<1>9. ClosedInv'
  BY <1>1, <1>3 DEF IInv, ClosedInv
<1>10. StateInv'
  BY <1>1, <1>3, StateStays DEF IInv
<1> QED
  BY <1>4, <1>5, <1>6, <1>7, <1>8, <1>9, <1>10 DEF IInv, HeldInv

LEMMA RunStep == ASSUME IInv, Run PROVE IInv'
<1> DEFINE fr == [kind |-> "lua", of |-> None, via |-> None]
<1>1. /\ frames = << >> /\ ~closed /\ Entered("lua", None, None) /\ FramesOK
      /\ UNCHANGED <<registry, block, slots, data, lost, luaVars>>
  BY TypeFrames DEF Run, IInv
<1>2. fr \in Frame /\ fr.kind = "lua" /\ fr.of = None /\ fr.via = None
  BY DEF Frame
<1>3. FramesOK' /\ Running' = Running \cup {fr}
  BY <1>1, <1>2, EnteredLemma
<1> HIDE DEF fr
<1> QED
  BY <1>1, <1>2, <1>3, CallsChange

LEMMA ReturnStep == ASSUME IInv, Return PROVE IInv'
<1>1. /\ frames # << >> /\ Inner.kind = "lua" /\ frames' = Popped /\ FramesOK
      /\ UNCHANGED <<registry, block, slots, data, lost, luaVars>>
  BY TypeFrames DEF Return, LuaRuns, IInv
<1>2. FramesOK' /\ Running' \subseteq Running /\ Running \subseteq Running' \cup {Inner}
  BY <1>1, PoppedLemma
<1>3. closed /\ Rash \cap {"outlive", "finaliser"} = {} => FALSE
  BY <1>1 DEF IInv, ClosedInv
<1> QED
  BY <1>1, <1>2, <1>3, CallsChange

\* What can be called lives, and the variable that it is called through has it.
LEMMA CallableLemma ==
  ASSUME IInv, ~LuaRuns, NEW b \in Blocks, NEW s, <<b, s>> \in Callable
  PROVE  b \in Living /\ (s # None => s \in Slots /\ slots[s] = b)
         /\ (frames = << >> => \E q \in Slots : slots[q] = b)
<1>1. FramesOK
  BY TypeFrames DEF IInv
<1>2. CASE frames # << >> /\ Inner.kind = "closure"
  <2>1. Inner.of \in Closures /\ b = data[Inner.of] /\ s = None
    BY <1>1, <1>2, RunningLemma, FrameLemma DEF Callable
  <2> QED
    BY <1>2, <2>1, LivingLemma
<1>3. CASE ~(frames # << >> /\ Inner.kind = "closure")
  <2>1. \/ \E q \in Slots : b = slots[q] /\ s = q
        \/ \E fr \in Running : fr = Inner /\ b = fr.of /\ s = None
    BY <1>3 DEF Callable
  <2>2. CASE \E q \in Slots : b = slots[q] /\ s = q
    BY <2>2, LivingLemma
  <2>3. CASE \E fr \in Running : fr = Inner /\ b = fr.of /\ s = None
    <3>1. frames # << >> /\ Inner \in Running /\ Inner.of = b
      BY <1>1, <2>3, RunningLemma
    <3>2. Inner.kind = "native"
      BY <1>1, <1>3, <3>1, RunningLemma, FrameLemma DEF LuaRuns
    <3> QED
      BY <2>3, <3>1, <3>2, LivingLemma
  <2> QED
    BY <2>1, <2>2, <2>3
<1> QED
  BY <1>2, <1>3

LEMMA InvokeStep ==
  ASSUME IInv, NEW b \in Blocks, NEW s \in Slots \cup {None}, Invoke(b, s)
  PROVE  IInv'
<1> DEFINE f == registry[block[b].ref]
           k == IF f \in Closures THEN "closure" ELSE "lua"
           fr == [kind |-> k, of |-> f, via |-> s]
<1>1. /\ ~LuaRuns /\ <<b, s>> \in Callable /\ Entered(k, f, s) /\ FramesOK
      /\ UNCHANGED <<registry, block, slots, data, lost, luaVars>>
  BY TypeFrames DEF Invoke, IInv
<1>2. /\ b \in Living /\ (s # None => s \in Slots /\ slots[s] = b)
      /\ (frames = << >> => \E q \in Slots : slots[q] = b)
  BY <1>1, CallableLemma
<1>3. f = block[b].made /\ f \in Function /\ f # None
  BY <1>2, BlockLemma, ClosureAssumption DEF Function
<1>4. k \in {"lua", "closure"} /\ (k = "closure" <=> f \in Closures)
  OBVIOUS
<1> HIDE DEF f, k
<1>5. fr \in Frame /\ fr.kind = k /\ fr.of = f /\ fr.via = s
  BY <1>3, <1>4 DEF Frame, Function
<1>6. FramesOK' /\ Running' = Running \cup {fr}
  BY <1>1, <1>3, <1>5, EnteredLemma
<1> HIDE DEF fr
<1>7. f \in ReachedFrom(Kept)
  BY <1>2, <1>3, ReachedLemma DEF Kept
<1>8. closed /\ Rash \cap {"outlive", "finaliser"} = {} => FALSE
  BY <1>2, ClosureAssumption DEF IInv, ClosedInv
<1>9. f \in Closures /\ Rash \cap {"outlive", "finaliser"} = {} => data[f] \in Functor
  BY <1>7, <1>8, WholeLemma DEF IInv, WholeInv
<1>10. s # None => slots[s] \in Blocks
  BY <1>2
<1> QED
  BY <1>1, <1>4, <1>5, <1>6, <1>7, <1>8, <1>9, <1>10, CallsChange

LEMMA CallStep == ASSUME IInv, NEW c \in Closures, Call(c) PROVE IInv'
<1> DEFINE fr == [kind |-> "closure", of |-> c, via |-> None]
<1>1. /\ Entered("closure", c, None) /\ FramesOK
      /\ UNCHANGED <<registry, block, slots, data, lost, luaVars>>
      /\ "finaliser" \notin Rash => LuaRuns /\ c \in Accessible
  BY TypeFrames DEF Call, IInv
<1>2. fr \in Frame /\ fr.kind = "closure" /\ fr.of = c /\ fr.via = None
  BY DEF Frame
<1>3. FramesOK' /\ Running' = Running \cup {fr}
  BY <1>1, <1>2, EnteredLemma
<1> HIDE DEF fr
<1>4. "finaliser" \notin Rash => c \in ReachedFrom(Kept)
  BY <1>1, AccessibleKept
<1>5. closed /\ Rash \cap {"outlive", "finaliser"} = {} => FALSE
  BY <1>1 DEF IInv, ClosedInv, LuaRuns
<1>6. Rash \cap {"outlive", "finaliser"} = {} => data[c] \in Functor
  BY <1>4, <1>5, WholeLemma DEF IInv, WholeInv
<1> QED
  BY <1>1, <1>2, <1>3, <1>4, <1>5, <1>6, CallsChange

(***************************************************************************)
(* auto_unref, made and destroyed.                                         *)
(***************************************************************************)

LEMMA FromStep ==
  ASSUME IInv, NEW f \in Function, NEW b \in Blocks, NEW r \in Refs, NEW t \in Threads,
         From(f, b, r, t)
  PROVE  IInv'
<1> DEFINE fr == [kind |-> "native", of |-> b, via |-> None]
           new == [ref |-> r, state |-> t, made |-> f]
<1>1. /\ LuaRuns /\ ~closed /\ f \in Accessible /\ b \notin Living /\ registry[r] = None
      /\ t \notin gone /\ registry' = [registry EXCEPT ![r] = f]
      /\ block' = [block EXCEPT ![b] = new] /\ Entered("native", b, None)
      /\ UNCHANGED <<slots, data, lost, doomed, named, upvalue, closed, gone>>
      /\ FramesOK
  BY TypeFrames DEF From, Fresh, luaVars, IInv
<1>2. fr \in Frame /\ fr.kind = "native" /\ fr.of = b /\ fr.via = None
  BY DEF Frame
<1>3. /\ new \in [ref : Refs, state : Threads, made : Function]
      /\ new.ref = r /\ new.state = t /\ new.made = f
  OBVIOUS
<1>4. FramesOK' /\ Running' = Running \cup {fr}
  BY <1>1, <1>2, EnteredLemma
<1> HIDE DEF fr, new
<1>5. Arguments' = Arguments \cup {b} /\ OnStack' = OnStack
  BY <1>2, <1>4 DEF Arguments, OnStack
<1>6. Living' = Living \cup {b}
  BY <1>1, <1>5 DEF Living
<1>7. /\ registry \in [Refs -> Function \cup {None}]
      /\ block \in [Blocks -> [ref : Refs, state : Threads, made : Function] \cup {None}]
  BY DEF IInv, TypeOK
<1>8. /\ block'[b] = new /\ registry'[r] = f
      /\ \A d \in Blocks : d # b => block'[d] = block[d]
      /\ \A q \in Refs : q # r => registry'[q] = registry[q]
  BY <1>1, <1>7
<1>9. /\ registry' \in [Refs -> Function \cup {None}]
      /\ block' \in [Blocks -> [ref : Refs, state : Threads, made : Function] \cup {None}]
  BY <1>1, <1>3, <1>7
<1>10. ASSUME NEW d \in Living
       PROVE  /\ d # b /\ block'[d] = block[d] /\ block[d].ref # r /\ block[d].ref \in Refs
              /\ registry'[block[d].ref] = block[d].made
  <2>1. d # b /\ d \in Blocks /\ block[d].ref \in Refs
    BY <1>1, BlockLemma
  <2>2. block[d].ref # r
    BY <1>1, BlockLemma, ClosureAssumption DEF Function
  <2> QED
    BY <1>8, <2>1, <2>2, BlockLemma
<1>11. HeldInv'
  <2>1. BlockInv'
    BY <1>3, <1>6, <1>8, <1>10 DEF IInv, BlockInv
  <2>2. \A d \in Living' : registry'[block'[d].ref] = block'[d].made
    BY <1>3, <1>6, <1>8, <1>10
  <2>3. \A d, e \in Living' : block'[d].ref = block'[e].ref => d = e
    BY <1>3, <1>6, <1>8, <1>10 DEF IInv, RefsExact
  <2>4. \A q \in Refs : registry'[q] # None => \E d \in Living' : block'[d].ref = q
    BY <1>3, <1>6, <1>8, <1>10 DEF IInv, RefsExact
  <2> QED
    BY <1>9, <2>1, <2>2, <2>3, <2>4 DEF HeldInv, RefsExact
<1>12. TypeOK'
  BY <1>1, <1>4, <1>11 DEF IInv, TypeOK, HeldInv, FramesOK
<1>13. WholeInv'
  <2>1. \A x \in Kept' : x \in Kept \/ x = f
    BY <1>1, <1>3, <1>5, <1>6, <1>8, <1>10 DEF Kept
  <2>2. Kept' \cap Function \subseteq ReachedFrom(Kept)
    BY <1>1, <2>1, AccessibleKept, ReachedLemma
  <2>3. \A g \in Functions \cap Kept : upvalue'[g] \in ReachedFrom(Kept) \cup {None}
    BY <1>1, ReachedLemma DEF IInv, TypeOK, Function
  <2> QED
    BY <1>1, <2>2, <2>3, WholeStays DEF IInv
<1>14. FunctorInv' /\ CallsInv'
  BY <1>1, <1>2, <1>4 DEF IInv, FunctorInv, FunctorThere, CallsInv, CallsWhole
<1>15. ClosedInv'
  BY <1>1 DEF ClosedInv
<1>16. StateInv'
  BY <1>1, <1>3, <1>6, <1>8, <1>10 DEF IInv, StateInv, StateThere
<1> QED
  BY <1>11, <1>12, <1>13, <1>14, <1>15, <1>16 DEF IInv, HeldInv

\* Copies of xs are destroyed, and the calls of functions and closures go on.
LEMMA ReleasedStep ==
  ASSUME IInv, NEW xs, Released(xs), FramesOK', Running' \subseteq Running,
         UNCHANGED <<lost, luaVars>>,
         Living' \subseteq Living, Living \subseteq Living' \cup xs,
         xs \cap Blocks \subseteq Living,
         slots' \in [Slots -> Blocks \cup {None}],
         \A s \in Slots : slots'[s] \in {slots[s], None},
         "reset" \in Rash \/ \A fr \in Running : fr.via # None => slots'[fr.via] = slots[fr.via],
         data' = data,
         closed /\ "outlive" \notin Rash /\ "finaliser" \notin Rash => frames' = << >>
  PROVE  IInv'
<1>1. UNCHANGED <<lost, doomed, named, upvalue, closed, gone>>
  BY DEF luaVars
<1>2. HeldInv' /\ \A b \in Living' : block'[b] = block[b]
  BY ReleasedLemma
<1>3. TypeOK'
  BY <1>1, <1>2 DEF IInv, TypeOK, HeldInv, FramesOK
<1>4. OnStack' \subseteq OnStack /\ Arguments' \subseteq Arguments
  BY DEF OnStack, Arguments
<1>5. WholeInv'
  <2>1. \A x \in Kept' : x \in Kept
    BY <1>1, <1>2, <1>4 DEF Kept
  <2>2. Kept' \cap Function \subseteq ReachedFrom(Kept)
    BY <2>1, ReachedLemma
  <2>3. \A f \in Functions \cap Kept : upvalue'[f] \in ReachedFrom(Kept) \cup {None}
    BY <1>1, ReachedLemma DEF IInv, TypeOK, Function
  <2> QED
    BY <1>1, <2>2, <2>3, WholeStays DEF IInv
<1>6. FunctorInv'
  BY DEF IInv, FunctorInv, FunctorThere
<1>7. CallsInv'
  BY DEF IInv, CallsInv, CallsWhole
<1>8. ClosedInv'
  BY <1>1, <1>4 DEF IInv, ClosedInv
<1>9. StateInv'
  BY <1>1, <1>2, StateStays DEF IInv
<1> QED
  BY <1>2, <1>3, <1>5, <1>6, <1>7, <1>8, <1>9 DEF IInv, HeldInv

LEMMA LeaveStep == ASSUME IInv, Leave PROVE IInv'
<1>1. /\ frames # << >> /\ Inner.kind \in {"native", "closure"} /\ frames' = Popped
      /\ UNCHANGED <<slots, data, lost, luaVars>> /\ Released({Inner.of}) /\ FramesOK
  BY TypeFrames DEF Leave, IInv
<1>2. FramesOK' /\ Running' \subseteq Running /\ Running \subseteq Running' \cup {Inner}
  BY <1>1, PoppedLemma
<1>3. Living' \subseteq Living /\ Living \subseteq Living' \cup {Inner.of}
  BY <1>1, <1>2 DEF Living, Arguments
<1>4. {Inner.of} \cap Blocks \subseteq Living
  <2>1. Inner \in Running /\ Inner \in Frame
    BY <1>1, RunningLemma
  <2>2. CASE Inner.kind = "native"
    BY <2>1, <2>2, LivingLemma
  <2>3. CASE Inner.kind = "closure"
    BY <2>1, <2>3, FrameLemma, ClosureAssumption
  <2> QED
    BY <1>1, <2>2, <2>3
<1>5. closed /\ "outlive" \notin Rash /\ "finaliser" \notin Rash => frames' = << >>
  BY <1>1 DEF IInv, ClosedInv
<1>6. slots' \in [Slots -> Blocks \cup {None}] /\ \A s \in Slots : slots'[s] \in {slots[s], None}
  BY <1>1 DEF IInv, TypeOK
<1>7. slots' = slots /\ data' = data
  BY <1>1
<1> QED
  BY <1>1, <1>2, <1>3, <1>4, <1>5, <1>6, <1>7, ReleasedStep

LEMMA DropStep == ASSUME IInv, NEW s \in Slots, Drop(s) PROVE IInv'
<1>1. /\ slots[s] # None /\ slots' = [slots EXCEPT ![s] = None]
      /\ "reset" \in Rash \/ \A fr \in Running : fr.via # s
      /\ UNCHANGED <<data, frames, lost, luaVars>> /\ Released({slots[s]}) /\ FramesOK
  BY TypeFrames DEF Drop, IInv
<1>2. Running' = Running /\ FramesOK'
  BY <1>1 DEF Running, FramesOK
<1>3. slots \in [Slots -> Blocks \cup {None}]
  BY DEF IInv, TypeOK
<1>4. /\ slots' \in [Slots -> Blocks \cup {None}]
      /\ \A q \in Slots : slots'[q] = IF q = s THEN None ELSE slots[q]
  BY <1>1, <1>3
<1>5. Arguments' = Arguments
  BY <1>2 DEF Arguments
<1>6. Living' \subseteq Living /\ Living \subseteq Living' \cup {slots[s]}
  BY <1>1, <1>4, <1>5, ClosureAssumption DEF Living
<1>7. {slots[s]} \cap Blocks \subseteq Living
  BY LivingLemma
<1>8. "reset" \in Rash \/ \A fr \in Running : fr.via # None => slots'[fr.via] = slots[fr.via]
  <2>1. \A fr \in Running : fr.via \in Slots \cup {None}
    BY <1>1, RunningLemma, FrameLemma
  <2> QED
    BY <1>1, <1>4, <2>1
<1>9. closed /\ "outlive" \notin Rash /\ "finaliser" \notin Rash => frames' = << >>
  BY <1>1 DEF IInv, ClosedInv
<1>10. \A q \in Slots : slots'[q] \in {slots[q], None}
  BY <1>4
<1>11. Running' \subseteq Running /\ UNCHANGED <<lost, luaVars>> /\ data' = data
  BY <1>1, <1>2
<1> QED
  BY <1>1, <1>2, <1>4, <1>6, <1>7, <1>8, <1>9, <1>10, <1>11, ReleasedStep

\* One more copy of what lives: nothing else changes.
LEMMA CopiedStep ==
  ASSUME IInv, FramesOK', UNCHANGED <<registry, block, data, doomed, named, upvalue, closed, gone>>,
         lost \subseteq lost', lost' \subseteq Blocks,
         slots' \in [Slots -> Blocks \cup {None}],
         \A s \in Slots : slots[s] # None => slots'[s] = slots[s],
         Running' \subseteq Running, Living' = Living,
         ~closed \/ "outlive" \in Rash \/ (slots' = slots /\ "finaliser" \in Rash)
  PROVE  IInv'
<1>1. HeldInv'
  BY SameLemma
<1>2. TypeOK'
  BY <1>1 DEF IInv, TypeOK, HeldInv, FramesOK
<1>3. OnStack' \subseteq OnStack /\ Arguments' \subseteq Arguments
  BY DEF OnStack, Arguments
<1>4. WholeInv'
  <2>1. \A x \in Kept' : x \in Kept
    BY <1>3 DEF Kept
  <2>2. Kept' \cap Function \subseteq ReachedFrom(Kept)
    BY <2>1, ReachedLemma
  <2>3. \A f \in Functions \cap Kept : upvalue'[f] \in ReachedFrom(Kept) \cup {None}
    BY ReachedLemma DEF IInv, TypeOK, Function
  <2> QED
    BY <2>2, <2>3, WholeStays DEF IInv
<1>5. FunctorInv'
  <2>1. ASSUME NEW fr \in Running, fr.via # None, slots[fr.via] \in Blocks
        PROVE  slots'[fr.via] \in Blocks
    <3>1. fr.via \in Slots
      BY <2>1, TypeFrames, RunningLemma, FrameLemma DEF IInv
    <3>2. slots[fr.via] # None
      BY <2>1, ClosureAssumption
    <3> QED
      BY <2>1, <3>1, <3>2
  <2> QED
    BY <2>1 DEF IInv, FunctorInv, FunctorThere
<1>6. CallsInv'
  BY DEF IInv, CallsInv, CallsWhole
<1>7. ClosedInv'
  BY <1>3 DEF IInv, ClosedInv
<1>8. StateInv'
  BY StateStays DEF IInv
<1> QED
  BY <1>1, <1>2, <1>4, <1>5, <1>6, <1>7, <1>8 DEF IInv, HeldInv

LEMMA KeepStep == ASSUME IInv, NEW s \in Slots, Keep(s) PROVE IInv'
<1>1. /\ frames # << >> /\ Inner.kind = "native" /\ slots[s] = None
      /\ slots' = [slots EXCEPT ![s] = Inner.of]
      /\ UNCHANGED <<registry, block, data, frames, lost, luaVars>> /\ FramesOK
  BY TypeFrames DEF Keep, IInv
<1>2. Running' = Running /\ FramesOK' /\ Arguments' = Arguments
  BY <1>1 DEF Running, FramesOK, Arguments
<1>3. Inner.of \in Blocks /\ Inner.of \in Arguments
  BY <1>1, RunningLemma, FrameLemma DEF Arguments
<1>4. /\ slots' \in [Slots -> Blocks \cup {None}]
      /\ \A q \in Slots : slots'[q] = IF q = s THEN Inner.of ELSE slots[q]
  BY <1>1, <1>3 DEF IInv, TypeOK
<1>5. Living' = Living
  BY <1>1, <1>2, <1>3, <1>4, ClosureAssumption DEF Living
<1>6. ~closed \/ "outlive" \in Rash \/ (slots' = slots /\ "finaliser" \in Rash)
  BY <1>3 DEF IInv, ClosedInv
<1>7. UNCHANGED <<registry, block, data, doomed, named, upvalue, closed, gone>> /\ lost' = lost
  BY <1>1 DEF luaVars
<1>8. lost \subseteq lost' /\ lost' \subseteq Blocks /\ Running' \subseteq Running
  BY <1>2, <1>7 DEF IInv, TypeOK
<1>9. \A q \in Slots : slots[q] # None => slots'[q] = slots[q]
  BY <1>1, <1>4
<1> QED
  BY <1>2, <1>4, <1>5, <1>6, <1>7, <1>8, <1>9, CopiedStep

\* An error skips the destructors of the arguments.
LEMMA RaiseStep == ASSUME IInv, Raise PROVE IInv'
<1>1. PICK k \in {i \in 1..(Len(frames) - 1) : frames[i].kind = "lua"} \cup {0} :
        /\ frames' = SubSeq(frames, 1, k)
        /\ lost' = lost \cup
             {frames[i].of : i \in {j \in (k + 1)..Len(frames) : frames[j].kind = "native"}}
  BY DEF Raise
<1>2. /\ FramesOK /\ frames # << >> /\ Inner.kind = "lua"
      /\ UNCHANGED <<registry, block, slots, data, luaVars>>
  BY TypeFrames DEF Raise, LuaRuns, IInv
<1>3. k \in 0..Len(frames) /\ \A i \in (k + 1)..Len(frames) : i \in 1..Len(frames)
  BY <1>2, RunningLemma
<1>4. /\ FramesOK' /\ Running' \subseteq Running
      /\ \A i \in 1..Len(frames) : frames[i] \in Running' \/ i \in (k + 1)..Len(frames)
  BY <1>1, <1>2, <1>3, CutLemma
<1>5. \A b \in lost' : b \in lost \/ b \in Arguments
  BY <1>1, <1>3 DEF Arguments, Running
<1>6. \A b \in Arguments : b \in Arguments' \/ b \in lost'
  BY <1>1, <1>4 DEF Arguments, Running
<1>7. Arguments' \subseteq Arguments
  BY <1>4 DEF Arguments
<1>8. lost \subseteq lost'
  BY <1>1
<1>9. Living' = Living
  BY <1>2, <1>5, <1>6, <1>7, <1>8 DEF Living
<1>10. Arguments \subseteq Blocks /\ lost \subseteq Blocks
  BY <1>2, RunningLemma, FrameLemma DEF Arguments, IInv, TypeOK
<1>11. ~closed \/ "outlive" \in Rash \/ (slots' = slots /\ "finaliser" \in Rash)
  BY <1>2 DEF IInv, ClosedInv
<1>12. /\ UNCHANGED <<registry, block, data, doomed, named, upvalue, closed, gone>>
       /\ slots' = slots
  BY <1>2 DEF luaVars
<1>13. /\ slots' \in [Slots -> Blocks \cup {None}]
       /\ \A s \in Slots : slots[s] # None => slots'[s] = slots[s]
  BY <1>12 DEF IInv, TypeOK
<1>14. lost' \subseteq Blocks
  BY <1>5, <1>10
<1> QED
  BY <1>4, <1>8, <1>9, <1>11, <1>12, <1>13, <1>14, CopiedStep

(***************************************************************************)
(* Closures.                                                               *)
(***************************************************************************)

LEMMA ToStep ==
  ASSUME IInv, NEW c \in Closures, NEW x \in Functor, To(c, x) PROVE IInv'
<1>1. /\ frames # << >> /\ Inner.kind = "native" /\ data[c] = None
      /\ x \in {Plain, Inner.of} \cup {slots[s] : s \in Slots}
      /\ data' = [data EXCEPT ![c] = x] /\ named' = named \cup {c}
      /\ UNCHANGED <<registry, block, slots, doomed, upvalue, frames, lost, closed, gone>>
      /\ FramesOK
  BY TypeFrames DEF To, Fresh, Unused, IInv
<1>2. Running' = Running /\ FramesOK' /\ Arguments' = Arguments /\ OnStack' = OnStack
  BY <1>1 DEF Running, FramesOK, Arguments, OnStack
<1>3. Inner.of \in Arguments
  BY <1>1, RunningLemma, FrameLemma DEF Arguments
<1>4. /\ data' \in [Closures -> Functor \cup {None, Gone}]
      /\ \A d \in Closures : data'[d] = IF d = c THEN x ELSE data[d]
  BY <1>1 DEF IInv, TypeOK
<1>5. c \notin doomed
  BY <1>1, ClosureAssumption DEF IInv, TypeOK, Functor
<1>6. Living' = Living
  <2>1. x \in Blocks => x \in Arguments \/ \E s \in Slots : slots[s] = x
    BY <1>1, <1>3, ClosureAssumption
  <2> QED
    BY <1>1, <1>2, <1>4, <2>1, ClosureAssumption DEF Living
<1>7. HeldInv'
  BY <1>1, <1>6, SameLemma
<1>8. TypeOK'
  BY <1>1, <1>2, <1>4, <1>5, <1>7 DEF IInv, TypeOK, HeldInv, FramesOK, Function
<1>9. WholeInv'
  <2>1. \A y \in Kept' : y \in Kept \/ y = c
    BY <1>1, <1>2, <1>6 DEF Kept
  <2>2. ASSUME NEW d \in Closures, d \in ReachedFrom(Kept)'
        PROVE  d \in ReachedFrom(Kept) \/ d = c
    <3>1. d \in Kept' \/ \E f \in Functions \cap Kept' : upvalue[f] = d
      BY <1>1, <2>2 DEF ReachedFrom
    <3> QED
      BY <2>1, <3>1, ClosureAssumption, ReachedLemma DEF Function
  <2> QED
    BY <1>1, <1>4, <1>5, <2>2, WholeLemma DEF IInv, WholeInv, ClosuresWhole, Kept
<1>10. FunctorInv'
  BY <1>1, <1>2 DEF IInv, FunctorInv, FunctorThere
<1>11. CallsInv'
  <2>1. \A fr \in Running : fr.kind = "closure" => fr.of \in Closures
    BY <1>1, RunningLemma, FrameLemma
  <2> QED
    BY <1>2, <1>4, <2>1 DEF IInv, CallsInv, CallsWhole
<1>12. ClosedInv'
  BY <1>1, <1>3 DEF IInv, ClosedInv
<1>13. StateInv'
  BY <1>1, <1>6, StateStays DEF IInv
<1> QED
  BY <1>7, <1>8, <1>9, <1>10, <1>11, <1>12, <1>13 DEF IInv, HeldInv

LEMMA GcStep == ASSUME IInv, NEW c \in Closures, Gc(c) PROVE IInv'
<1>1. /\ c \in doomed /\ c \notin OnStack /\ doomed' = doomed \ {c}
      /\ UNCHANGED <<slots, named, frames, lost, closed, gone>>
      /\ Released({data[c]}) /\ FramesOK
  BY TypeFrames DEF Gc, IInv
<1>2. /\ data' = [x \in Closures |->
           IF x # c /\ data[x] # Gone THEN data[x]
           ELSE IF doomed' = {} /\ "finaliser" \notin Rash THEN None ELSE Gone]
      /\ upvalue' = [f \in Functions |->
           IF upvalue[f] # None /\ data'[upvalue[f]] = None THEN None ELSE upvalue[f]]
  BY DEF Gc
<1>3. Running' = Running /\ FramesOK' /\ Arguments' = Arguments /\ OnStack' = OnStack
  BY <1>1 DEF Running, FramesOK, Arguments, OnStack
<1>4. /\ data' \in [Closures -> Functor \cup {None, Gone}]
      /\ \A d \in Closures : d # c /\ data[d] # Gone => data'[d] = data[d]
      /\ \A d \in Closures : d = c \/ data[d] = Gone => data'[d] \in {None, Gone}
  BY <1>2 DEF IInv, TypeOK
<1>5. data[c] \in Functor /\ Gone \notin Functor /\ None \notin Functor
  BY <1>1, ClosureAssumption DEF IInv, TypeOK, Functor
<1>6. \A d \in Closures : data'[d] \in Functor => d # c /\ data'[d] = data[d]
  BY <1>4, <1>5
<1>7. Living' \subseteq Living /\ Living \subseteq Living' \cup {data[c]}
  <2>1. \A d \in Closures : data[d] \in Blocks => d = c \/ data'[d] = data[d]
    BY <1>4, ClosureAssumption
  <2>2. \A d \in Closures : data'[d] \in Blocks => data'[d] = data[d]
    BY <1>6 DEF Functor
  <2> QED
    BY <1>1, <1>3, <2>1, <2>2 DEF Living
<1>8. {data[c]} \cap Blocks \subseteq Living
  BY LivingLemma
<1>9. HeldInv' /\ \A b \in Living' : block'[b] = block[b]
  BY <1>1, <1>7, <1>8, ReleasedLemma
<1>10. upvalue' \in [Functions -> Closures \cup {None}]
       /\ \A f \in Functions : upvalue'[f] \in {upvalue[f], None}
  BY <1>2 DEF IInv, TypeOK
<1>11. TypeOK'
  <2>1. doomed' \subseteq {d \in Closures : data'[d] \in Functor}
    BY <1>1, <1>4, <1>5 DEF IInv, TypeOK
  <2> QED
    BY <1>1, <1>3, <1>4, <1>9, <1>10, <2>1 DEF IInv, TypeOK, HeldInv, FramesOK
<1>12. WholeInv'
  <2>1. \A x \in Kept' : x \in Kept
    BY <1>1, <1>3, <1>7, <1>9 DEF Kept
  <2>2. Kept' \cap Function \subseteq ReachedFrom(Kept)
    BY <2>1, ReachedLemma
  <2>3. \A f \in Functions \cap Kept : upvalue'[f] \in ReachedFrom(Kept) \cup {None}
    BY <1>10, ReachedLemma DEF IInv, TypeOK, Function
  <2>4. \A d \in Closures : data[d] \in Functor /\ d \notin doomed =>
          data'[d] = data[d] /\ d \notin doomed'
    BY <1>1, <1>4, <1>5
  <2> QED
    BY <1>1, <2>2, <2>3, <2>4, WholeStays DEF IInv
<1>13. FunctorInv'
  BY <1>1, <1>3 DEF IInv, FunctorInv, FunctorThere
<1>14. CallsInv'
  <2>1. \A fr \in Running : fr.kind = "closure" => fr.of \in Closures /\ fr.of # c
    BY <1>1, RunningLemma, FrameLemma, OnStackLemma
  <2> QED
    BY <1>3, <1>4, <1>5, <2>1 DEF IInv, CallsInv, CallsWhole
<1>15. ClosedInv'
  BY <1>1, <1>3, <1>6 DEF IInv, ClosedInv
<1>16. StateInv'
  BY <1>1, <1>7, <1>9, StateStays DEF IInv
<1> QED
  BY <1>9, <1>11, <1>12, <1>13, <1>14, <1>15, <1>16 DEF IInv, HeldInv

(***************************************************************************)
(* Lua and the engine.                                                     *)
(***************************************************************************)

\* No std::function is touched and no call changes.
LEMMA QuietLemma ==
  ASSUME IInv, UNCHANGED <<registry, block, slots, data, frames, lost>>
  PROVE  /\ Running' = Running /\ Living' = Living /\ Arguments' = Arguments
         /\ OnStack' = OnStack
         /\ HeldInv' /\ FunctorInv' /\ CallsInv' /\ FramesOK'
<1>1. Running' = Running
  BY DEF Running
<1>2. Arguments' = Arguments /\ OnStack' = OnStack
  BY <1>1 DEF Arguments, OnStack
<1>3. Living' = Living
  BY <1>2 DEF Living
<1>4. HeldInv'
  BY <1>3, SameLemma
<1>5. FunctorInv' /\ CallsInv'
  BY <1>1 DEF IInv, FunctorInv, FunctorThere, CallsInv, CallsWhole
<1> QED
  BY <1>1, <1>2, <1>3, <1>4, <1>5 DEF FramesOK, IInv, TypeOK

LEMMA ForgetStep ==
  ASSUME IInv, NEW x \in Function, Forget(x) PROVE IInv'
<1>1. /\ named' = named \ {x}
      /\ UNCHANGED <<registry, block, slots, data, frames, lost>>
      /\ UNCHANGED <<doomed, upvalue, closed, gone>>
  BY DEF Forget
<1>2. /\ Living' = Living /\ Arguments' = Arguments /\ OnStack' = OnStack
      /\ HeldInv' /\ FunctorInv' /\ CallsInv' /\ FramesOK'
  BY <1>1, QuietLemma
<1>3. TypeOK'
  BY <1>1, <1>2 DEF IInv, TypeOK, HeldInv, FramesOK
<1>4. WholeInv'
  <2>1. \A y \in Kept' : y \in Kept
    BY <1>1, <1>2 DEF Kept
  <2>2. Kept' \cap Function \subseteq ReachedFrom(Kept)
    BY <2>1, ReachedLemma
  <2>3. \A f \in Functions \cap Kept : upvalue'[f] \in ReachedFrom(Kept) \cup {None}
    BY <1>1, ReachedLemma DEF IInv, TypeOK, Function
  <2> QED
    BY <1>1, <2>2, <2>3, WholeStays DEF IInv
<1>5. ClosedInv'
  BY <1>1, <1>2 DEF IInv, ClosedInv
<1>6. StateInv'
  BY <1>1, <1>2, StateStays DEF IInv
<1> QED
  BY <1>2, <1>3, <1>4, <1>5, <1>6 DEF IInv, HeldInv

LEMMA CaptureStep ==
  ASSUME IInv, NEW f \in Functions, NEW c \in Closures, Capture(f, c) PROVE IInv'
<1>1. /\ c \in Accessible /\ upvalue' = [upvalue EXCEPT ![f] = c]
      /\ UNCHANGED <<registry, block, slots, data, frames, lost>>
      /\ UNCHANGED <<doomed, named, closed, gone>>
  BY DEF Capture
<1>2. /\ Living' = Living /\ Arguments' = Arguments /\ OnStack' = OnStack
      /\ HeldInv' /\ FunctorInv' /\ CallsInv' /\ FramesOK'
  BY <1>1, QuietLemma
<1>3. /\ upvalue' \in [Functions -> Closures \cup {None}]
      /\ \A g \in Functions : upvalue'[g] \in {upvalue[g], c}
  BY <1>1 DEF IInv, TypeOK
<1>4. TypeOK'
  BY <1>1, <1>2, <1>3 DEF IInv, TypeOK, HeldInv, FramesOK
<1>5. WholeInv'
  <2>1. \A y \in Kept' : y \in Kept
    BY <1>1, <1>2 DEF Kept
  <2>2. Kept' \cap Function \subseteq ReachedFrom(Kept)
    BY <2>1, ReachedLemma
  <2>3. \A g \in Functions \cap Kept : upvalue[g] \in ReachedFrom(Kept) \cup {None}
    BY ReachedLemma DEF IInv, TypeOK, Function
  <2>4. \A g \in Functions \cap Kept : upvalue'[g] \in ReachedFrom(Kept) \cup {None}
    BY <1>1, <1>3, <2>3, AccessibleKept
  <2> QED
    BY <1>1, <2>2, <2>4, WholeStays DEF IInv
<1>6. ClosedInv'
  BY <1>1, <1>2 DEF IInv, ClosedInv
<1>7. StateInv'
  BY <1>1, <1>2, StateStays DEF IInv
<1> QED
  BY <1>2, <1>4, <1>5, <1>6, <1>7 DEF IInv, HeldInv

LEMMA CollectStep == ASSUME IInv, Collect PROVE IInv'
<1>1. /\ ~closed /\ doomed' = {c \in Closures : data[c] \in Functor /\ c \notin LuaReach}
      /\ UNCHANGED <<registry, block, slots, data, frames, lost>>
      /\ UNCHANGED <<named, upvalue, closed, gone>>
  BY DEF Collect
<1>2. /\ Living' = Living /\ Arguments' = Arguments /\ OnStack' = OnStack
      /\ HeldInv' /\ FunctorInv' /\ CallsInv' /\ FramesOK'
  BY <1>1, QuietLemma
<1>3. TypeOK'
  BY <1>1, <1>2 DEF IInv, TypeOK, HeldInv, FramesOK
<1>4. WholeInv'
  <2>1. \A b \in Living : block[b].made \in {registry[r] : r \in Refs}
    BY BlockLemma
  <2>2. Kept \subseteq named \cup OnStack \cup {registry[r] : r \in Refs}
    BY <2>1 DEF Kept
  <2>3. ReachedFrom(Kept) \subseteq LuaReach
    BY <2>2 DEF ReachedFrom, LuaReach
  <2>4. Kept' = Kept /\ ReachedFrom(Kept)' = ReachedFrom(Kept)
    BY <1>1, <1>2 DEF Kept, ReachedFrom
  <2>5. \A c \in Closures \cap ReachedFrom(Kept) : c \notin doomed'
    BY <1>1, <2>3
  <2> QED
    BY <1>1, <2>4, <2>5, WholeLemma DEF IInv, WholeInv, ClosuresWhole, Kept
<1>5. ClosedInv'
  BY <1>1 DEF ClosedInv
<1>6. StateInv'
  BY <1>1, <1>2, StateStays DEF IInv
<1> QED
  BY <1>2, <1>3, <1>4, <1>5, <1>6 DEF IInv, HeldInv

LEMMA EndThreadStep == ASSUME IInv, NEW t \in Threads, EndThread(t) PROVE IInv'
<1>1. /\ "coroutine" \in Rash \/ \A b \in Living \ lost : block[b].state # t
      /\ gone' = gone \cup {t}
      /\ UNCHANGED <<registry, block, slots, data, frames, lost>>
      /\ UNCHANGED <<doomed, named, upvalue, closed>>
  BY DEF EndThread
<1>2. /\ Living' = Living /\ Arguments' = Arguments /\ OnStack' = OnStack
      /\ HeldInv' /\ FunctorInv' /\ CallsInv' /\ FramesOK'
  BY <1>1, QuietLemma
<1>3. TypeOK'
  BY <1>1, <1>2 DEF IInv, TypeOK, HeldInv, FramesOK
<1>4. WholeInv'
  BY <1>1, <1>2 DEF IInv, WholeInv, ClosuresWhole, ReachedFrom
<1>5. ClosedInv'
  BY <1>1, <1>2 DEF IInv, ClosedInv
<1>6. StateInv'
  BY <1>1, <1>2 DEF IInv, StateInv, StateThere
<1> QED
  BY <1>2, <1>3, <1>4, <1>5, <1>6 DEF IInv, HeldInv

LEMMA CloseStep == ASSUME IInv, Close PROVE IInv'
<1>1. /\ frames = << >>
      /\ "outlive" \in Rash \/ \A s \in Slots : slots[s] = None
      /\ closed' = TRUE /\ named' = {}
      /\ doomed' = {c \in Closures : data[c] \in Functor}
      /\ UNCHANGED <<registry, block, slots, data, frames, lost>>
      /\ UNCHANGED <<upvalue, gone>>
  BY DEF Close
<1>2. /\ Living' = Living /\ Arguments' = Arguments /\ OnStack' = OnStack
      /\ HeldInv' /\ FunctorInv' /\ CallsInv' /\ FramesOK'
  BY <1>1, QuietLemma
<1>3. TypeOK'
  BY <1>1, <1>2 DEF IInv, TypeOK, HeldInv, FramesOK
<1>4. WholeInv'
  BY <1>1 DEF WholeInv, ClosuresWhole
<1>5. ClosedInv'
  <2>1. Arguments = {}
    BY <1>1, TypeFrames, RunningLemma DEF IInv, Arguments
  <2> QED
    BY <1>1, <1>2, <2>1 DEF ClosedInv
<1>6. StateInv'
  BY <1>1, <1>2, StateStays DEF IInv
<1> QED
  BY <1>2, <1>3, <1>4, <1>5, <1>6 DEF IInv, HeldInv

LEMMA ClosedStep == ASSUME IInv, Closed PROVE IInv'
<1>1. /\ closed /\ doomed = {} /\ gone' = Threads
      /\ UNCHANGED <<registry, block, slots, data, frames, lost>>
      /\ UNCHANGED <<doomed, named, upvalue, closed>>
  BY DEF Closed
<1>2. /\ Living' = Living /\ Arguments' = Arguments /\ OnStack' = OnStack
      /\ HeldInv' /\ FunctorInv' /\ CallsInv' /\ FramesOK'
  BY <1>1, QuietLemma
<1>3. TypeOK'
  BY <1>1, <1>2 DEF IInv, TypeOK, HeldInv, FramesOK
<1>4. WholeInv'
  BY <1>1 DEF WholeInv, ClosuresWhole
<1>5. ClosedInv'
  BY <1>1, <1>2 DEF IInv, ClosedInv
<1>6. StateInv'
  <2>1. ASSUME "outlive" \notin Rash, NEW b \in Living PROVE b \in lost
    <3>1. b \in Blocks /\ b # None /\ b \in Functor /\ b \notin Arguments
      BY <1>1, <2>1, LivingLemma, ClosureAssumption DEF IInv, ClosedInv, Functor
    <3>2. \A s \in Slots : slots[s] # b
      BY <1>1, <2>1, <3>1 DEF IInv, ClosedInv
    <3>3. \A c \in Closures : data[c] # b
      BY <1>1, <2>1, <3>1 DEF IInv, ClosedInv
    <3> QED
      BY <3>1, <3>2, <3>3 DEF Living
  <2> QED
    BY <1>1, <1>2, <2>1 DEF StateInv, StateThere
<1> QED
  BY <1>2, <1>3, <1>4, <1>5, <1>6 DEF IInv, HeldInv

LEMMA StutterStep == ASSUME IInv, UNCHANGED vars PROVE IInv'
<1>1. UNCHANGED <<registry, block, slots, data, frames, lost>>
      /\ UNCHANGED <<doomed, named, upvalue, closed, gone>>
  BY DEF vars
<1>2. /\ Living' = Living /\ Arguments' = Arguments /\ OnStack' = OnStack
      /\ HeldInv' /\ FunctorInv' /\ CallsInv' /\ FramesOK'
  BY <1>1, QuietLemma
<1>3. TypeOK'
  BY <1>1, <1>2 DEF IInv, TypeOK, HeldInv, FramesOK
<1>4. WholeInv'
  BY <1>1, <1>2 DEF IInv, WholeInv, ClosuresWhole, ReachedFrom
<1>5. ClosedInv' /\ StateInv'
  BY <1>1, <1>2 DEF IInv, ClosedInv, StateInv, StateThere
<1> QED
  BY <1>2, <1>3, <1>4, <1>5 DEF IInv, HeldInv

(***************************************************************************)
(* Theorems.                                                               *)
(***************************************************************************)

LEMMA NextInv == IInv /\ [Next]_vars => IInv'
<1> SUFFICES ASSUME IInv, [Next]_vars PROVE IInv'
  OBVIOUS
<1>1. CASE Run \/ Leave \/ Return \/ Raise \/ Collect \/ Close \/ Closed
  BY <1>1, RunStep, LeaveStep, ReturnStep, RaiseStep, CollectStep, CloseStep, ClosedStep
<1>2. ASSUME NEW f \in Function, NEW b \in Blocks, NEW r \in Refs, NEW t \in Threads,
             From(f, b, r, t)
      PROVE  IInv'
  BY <1>2, FromStep
<1>3. ASSUME NEW s \in Slots, Keep(s) \/ Drop(s) PROVE IInv'
  BY <1>3, KeepStep, DropStep
<1>4. ASSUME NEW b \in Blocks, NEW s \in Slots \cup {None}, Invoke(b, s) PROVE IInv'
  BY <1>4, InvokeStep
<1>5. ASSUME NEW c \in Closures, Call(c) \/ Gc(c) PROVE IInv'
  BY <1>5, CallStep, GcStep
<1>6. ASSUME NEW c \in Closures, NEW x \in Functor, To(c, x) PROVE IInv'
  BY <1>6, ToStep
<1>7. ASSUME NEW x \in Function, Forget(x) PROVE IInv'
  BY <1>7, ForgetStep
<1>8. ASSUME NEW f \in Functions, NEW c \in Closures, Capture(f, c) PROVE IInv'
  BY <1>8, CaptureStep
<1>9. ASSUME NEW t \in Threads, EndThread(t) PROVE IInv'
  BY <1>9, EndThreadStep
<1>10. CASE UNCHANGED vars
  BY <1>10, StutterStep
<1> QED
  BY <1>1, <1>2, <1>3, <1>4, <1>5, <1>6, <1>7, <1>8, <1>9, <1>10 DEF Next

LEMMA InvariantHolds == Spec => []IInv
BY InitInv, NextInv, PTL DEF Spec

(* Whatever the program does every variable keeps its type; in particular  *)
(* the reference through which a std::function calls Lua gives a function, *)
(* never the nil of a reference that was given back.                       *)
THEOREM TypeCorrect == Spec => []TypeOK
<1>1. IInv => TypeOK
  BY DEF IInv
<1> QED
  BY <1>1, InvariantHolds, PTL

(* Whatever the program does, the reset of a std::function that runs and   *)
(* the finalisers that call closures included, the registry has exactly    *)
(* the functions of the std::functions that live, each under a reference   *)
(* of its own: auto_unref neither leaks nor gives back twice.              *)
THEOREM RefsAreExact == Spec => []RefsExact
<1>1. IInv => RefsExact
  BY DEF IInv
<1> QED
  BY <1>1, InvariantHolds, PTL

(* If no finaliser calls a closure that is collected with it, a closure    *)
(* that Lua or a function kept by C++ can reach has its std::function:     *)
(* the reference of auto_unref is what keeps the collector away from it.   *)
THEOREM ClosuresAreWhole == "finaliser" \notin Rash => (Spec => []ClosuresWhole)
<1> SUFFICES ASSUME "finaliser" \notin Rash PROVE Spec => []ClosuresWhole
  OBVIOUS
<1>1. IInv => ClosuresWhole
  BY DEF IInv, WholeInv
<1> QED
  BY <1>1, InvariantHolds, PTL

(* If the program drops what it keeps before lua_close(), and what a       *)
(* coroutine gave it before that ends, each std::function gives its        *)
(* reference back to a state that is still there.                          *)
THEOREM StatesAreThere == Rash \cap {"outlive", "coroutine"} = {} => (Spec => []StateThere)
<1> SUFFICES ASSUME Rash \cap {"outlive", "coroutine"} = {} PROVE Spec => []StateThere
  OBVIOUS
<1>1. IInv => StateThere
  BY DEF IInv, StateInv
<1> QED
  BY <1>1, InvariantHolds, PTL

(* If the program does not reset the std::function through which it is     *)
(* calling Lua, it is there when the call ends or fails.                   *)
THEOREM FunctorsAreThere == "reset" \notin Rash => (Spec => []FunctorThere)
<1> SUFFICES ASSUME "reset" \notin Rash PROVE Spec => []FunctorThere
  OBVIOUS
<1>1. IInv => FunctorThere
  BY DEF IInv, FunctorInv
<1> QED
  BY <1>1, InvariantHolds, PTL

(* If moreover no call comes after lua_close() has begun nor from a        *)
(* finaliser, a closure that is called has its std::function until it      *)
(* returns.                                                                *)
THEOREM CallsAreWhole == Rash \cap {"outlive", "finaliser"} = {} => (Spec => []CallsWhole)
<1> SUFFICES ASSUME Rash \cap {"outlive", "finaliser"} = {} PROVE Spec => []CallsWhole
  OBVIOUS
<1>1. IInv => CallsWhole
  BY DEF IInv, CallsInv
<1> QED
  BY <1>1, InvariantHolds, PTL
================================================================================
