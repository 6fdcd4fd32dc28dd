------------------------------ MODULE Inheritance ------------------------------
(***************************************************************************)
(* common_class_type_info: how an object that Lua holds as one class is    *)
(* handed to C++ as another.  A type_info lists the classes that name it   *)
(* as a base, with the cast from each (bases_); get_instance() searches    *)
(* these lists depth first for the class of the object (build_mapping_)    *)
(* and keeps the casts it found (convert_mappings_).  Classes are bound    *)
(* while such searches have already been made.                             *)
(*                                                                         *)
(* One call of bind() is one step; the recursion of build_mapping_ is      *)
(* modelled frame by frame, on an explicit stack.                          *)
(***************************************************************************)
EXTENDS Integers, Sequences, FiniteSets

CONSTANTS
  Classes,   \* classes registered with make_class
  Needs,     \* Needs[d]: the bases d was declared with
  Derives,   \* Derives[x][t]: x is t or derives from it (std::is_base_of)
  Null       \* the class field of nil: a null pointer

ASSUME ClassesAssumption ==
  /\ Needs \in [Classes -> SUBSET Classes]
  /\ Derives \in [Classes -> [Classes -> BOOLEAN]]
  /\ Null \notin Classes

\* Derives is the order Needs generates: it unfolds at either end.
ASSUME DerivesAssumption ==
  \A x, t \in Classes :
    /\ Derives[x][t] <=> x = t \/ \E d \in Classes : t \in Needs[d] /\ Derives[x][d]
    /\ Derives[x][t] <=> x = t \/ \E b \in Needs[x] : Derives[b][t]

VARIABLES
  bound,     \* classes whose wrapper has been bound
  bases,     \* bases[t]: bases_ of the type_info of t, the classes in it
  mappings,  \* convert_mappings_: casts by <<class wanted, class held>>
  pc,        \* "idle", or where get_instance() is: "search", "unwind"
  query,     \* the class wanted and the class held
  frames,    \* calls of build_mapping_: the type_info, the loop's position
  casts,     \* map.casts_: the casts, each as <<from, to>>
  asked,     \* the last question answered
  passes     \* whether an instance was returned

search == <<pc, query, frames, casts>>
answer == <<asked, passes>>
vars   == <<bound, bases, mappings, search, answer>>

\* Slip: the loop starts before the first entry.
FrameBefore(t) == [info |-> t, next |-> 0]

Frame(t) == [info |-> t, next |-> 1]

Inner == frames[Len(frames)]

Outer == frames[Len(frames) - 1]

------------------------------------------------------------------------------

CheckDependency(d) == Needs[d] \subseteq bound

\* Slip: the cast is filed with one of the bases only.
AddedToOne(d) ==
  [t \in Classes |-> IF Needs[d] # {} /\ t = CHOOSE b \in Needs[d] : TRUE
                     THEN Append(bases[t], d) ELSE bases[t]]

\* add_base() of each base.
Added(d) ==
  [t \in Classes |-> IF t \in Needs[d] THEN Append(bases[t], d) ELSE bases[t]]

Bind(d) ==
  /\ pc = "idle"
  /\ d \in Classes \ bound
  /\ CheckDependency(d)
  /\ bound' = bound \cup {d}
  /\ bases' = Added(d)
  /\ UNCHANGED <<mappings, search, answer>>

(***************************************************************************)
(* get_instance(): t asks for an object that says it is an x.              *)
(***************************************************************************)

Reply(t, x, found) == asked' = <<t, x>> /\ passes' = found

\* Its own class, or a null pointer, which is converted whatever it says.
AskOwn(t, x) ==
  /\ pc = "idle"
  /\ t \in bound
  /\ x \in {t, Null}
  /\ Reply(t, x, TRUE)
  /\ UNCHANGED <<bound, bases, mappings, search>>

AskKnown(t, x) ==
  /\ pc = "idle"
  /\ t \in bound /\ x \in bound \ {t}
  /\ <<t, x>> \in DOMAIN mappings
  /\ Reply(t, x, TRUE)
  /\ UNCHANGED <<bound, bases, mappings, search>>

AskUnknown(t, x) ==
  /\ pc = "idle"
  /\ t \in bound /\ x \in bound \ {t}
  /\ <<t, x>> \notin DOMAIN mappings
  /\ pc' = "search"
  /\ query' = <<t, x>>
  /\ frames' = <<Frame(t)>>
  /\ casts' = << >>
  /\ UNCHANGED <<bound, bases, mappings, answer>>

\* The type_info of the class of the object: to_any_ is set.
Hit ==
  /\ pc = "search"
  /\ Inner.info = query[2]
  /\ pc' = "unwind"
  /\ UNCHANGED <<bound, bases, mappings, query, frames, casts, answer>>

Descend ==
  /\ pc = "search"
  /\ Inner.info # query[2]
  /\ Inner.next <= Len(bases[Inner.info])
  /\ frames' = Append(frames, Frame(bases[Inner.info][Inner.next]))
  /\ UNCHANGED <<bound, bases, mappings, pc, query, casts, answer>>

Popped == SubSeq(frames, 1, Len(frames) - 1)

\* Slip: the loop of the caller does not go on.
Stay(up) == up

Advance(up) == [up EXCEPT ![Len(up)].next = @ + 1]

\* A call that found nothing returns: its caller goes on with the next entry.
Miss ==
  /\ pc = "search"
  /\ Inner.info # query[2]
  /\ Inner.next > Len(bases[Inner.info])
  /\ Len(frames) > 1
  /\ frames' = Advance(Popped)
  /\ UNCHANGED <<bound, bases, mappings, pc, query, casts, answer>>

\* The outermost call found nothing: no mapping is kept, the any is empty.
Refuse ==
  /\ pc = "search"
  /\ Inner.info # query[2]
  /\ Inner.next > Len(bases[Inner.info])
  /\ Len(frames) = 1
  /\ pc' = "idle"
  /\ query' = << >> /\ frames' = << >>
  /\ Reply(query[1], query[2], FALSE)
  /\ UNCHANGED <<bound, bases, mappings, casts>>

\* Slip: the casts are listed from the class wanted to the class held.
Prepended(cast) == <<cast>> \o casts

Pushed(cast) == Append(casts, cast)

\* A call that found something returns: its caller adds its cast.
Unwind ==
  /\ pc = "unwind"
  /\ Len(frames) > 1
  /\ casts' = Pushed(<<Inner.info, Outer.info>>)
  /\ frames' = Popped
  /\ UNCHANGED <<bound, bases, mappings, pc, query, answer>>

\* The mapping is kept, and the casts are applied to the object.
Keep ==
  /\ pc = "unwind"
  /\ Len(frames) = 1
  /\ mappings' = [q \in DOMAIN mappings \cup {query} |->
                    IF q = query THEN casts ELSE mappings[q]]
  /\ pc' = "idle"
  /\ query' = << >> /\ frames' = << >> /\ casts' = << >>
  /\ Reply(query[1], query[2], TRUE)
  /\ UNCHANGED <<bound, bases>>

------------------------------------------------------------------------------

Init ==
  /\ bound = {}
  /\ bases = [t \in Classes |-> << >>]
  /\ mappings = [q \in {} |-> << >>]
  /\ pc = "idle"
  /\ query = << >> /\ frames = << >> /\ casts = << >>
  /\ asked = << >> /\ passes = FALSE

SearchStep == Hit \/ Descend \/ Miss \/ Refuse \/ Unwind \/ Keep

Next ==
  \/ \E d \in Classes : Bind(d)
  \/ \E t \in Classes, x \in Classes \cup {Null} :
       AskOwn(t, x) \/ AskKnown(t, x) \/ AskUnknown(t, x)
  \/ SearchStep

Spec == Init /\ [][Next]_vars

\* A search is a recursive call of a running thread: it goes on.
FairSpec == Spec /\ WF_vars(SearchStep)

------------------------------------------------------------------------------
(***************************************************************************)
(* Properties                                                              *)
(***************************************************************************)

Pairs == Classes \X Classes

FrameOK == [info : Classes, next : Nat \ {0}]

(* The type invariant. *)
TypeOK ==
  /\ bound \subseteq Classes
  /\ bases \in [Classes -> Seq(Classes)]
  /\ DOMAIN mappings \subseteq Pairs
  /\ mappings \in [DOMAIN mappings -> Seq(Pairs)]
  /\ pc \in {"idle", "search", "unwind"}
  /\ query \in Pairs \cup {<< >>}
  /\ frames \in Seq(FrameOK)
  /\ casts \in Seq(Pairs)
  /\ asked \in (Classes \X (Classes \cup {Null})) \cup {<< >>}
  /\ passes \in BOOLEAN
  /\ pc # "idle" => query \in Pairs /\ frames # << >>

\* s leads from the class x to the class t, one declared base at a time.
Chain(s, x, t) ==
  IF s = << >> THEN x = t
  ELSE /\ s[1][1] = x
       /\ s[Len(s)][2] = t
       /\ \A k \in 1..Len(s) : s[k][2] \in Needs[s[k][1]]
       /\ \A k \in 1..(Len(s) - 1) : s[k][2] = s[k + 1][1]

(* A mapping that is kept leads from the class the object has to the class *)
(* that is wanted, so that the assertion in cast_type_ never fails: each   *)
(* cast is given an object of the class it casts from.                     *)
MappingsChain ==
  \A q \in DOMAIN mappings : mappings[q] # << >> /\ Chain(mappings[q], q[2], q[1])

(* The last answer is still right: an object passes exactly when its class *)
(* derives from the one wanted, and no class bound since changes that,     *)
(* which is what allows a mapping to be kept for ever.                     *)
AnswersRight ==
  asked # << >> =>
    passes = (IF asked[2] = Null THEN TRUE ELSE Derives[asked[2]][asked[1]])

(* What makes a search sound and complete.  The bases of a bound class are *)
(* bound, and list it; a mapping that is kept is between relatives; what a *)
(* frame has passed in its loop does not lead to the class of the object;  *)
(* while unwinding, what has been collected leads from that class to the   *)
(* innermost frame.                                                        *)
BasesInv ==
  /\ \A d \in bound, t \in Classes : Derives[d][t] => t \in bound
  /\ \A d, t \in Classes :
       (d \in bound /\ t \in Needs[d])
         <=> \E j \in 1..Len(bases[t]) : bases[t][j] = d

MappingsInv == \A q \in DOMAIN mappings : Derives[q[2]][q[1]]

StackInv ==
  pc # "idle" =>
    /\ query[1] \in bound /\ query[2] \in bound
    /\ frames[1].info = query[1]
    /\ query[1] # query[2]
    /\ \A k \in 1..(Len(frames) - 1) :
         /\ frames[k].next \in 1..Len(bases[frames[k].info])
         /\ bases[frames[k].info][frames[k].next] = frames[k + 1].info

ExploredInv ==
  pc = "search" =>
    \A k \in 1..Len(frames) : \A j \in 1..Len(bases[frames[k].info]) :
      j < frames[k].next => ~Derives[query[2]][bases[frames[k].info][j]]

UnwindInv ==
  /\ pc = "search" => casts = << >>
  /\ pc = "unwind" =>
       /\ Derives[query[2]][Inner.info]
       /\ Chain(casts, query[2], Inner.info)
       /\ Len(frames) = 1 => casts # << >>

SearchInv == BasesInv /\ MappingsInv /\ StackInv /\ ExploredInv /\ UnwindInv

(* The search implements the promise of Kinship.                           *)
Promise == INSTANCE Kinship

KeepsPromise == Promise!Spec

(* build_mapping_ never comes to a class that it is already searching, so  *)
(* that its recursion is at most as deep as there are classes bound: a     *)
(* class comes after its bases, even one that was declared to derive from  *)
(* itself, which is never bound.                                           *)
DepthBounded == Len(frames) <= Cardinality(bound)

(* Every search ends, whatever the hierarchy.                              *)
SearchEnds == pc # "idle" ~> pc = "idle"
================================================================================
