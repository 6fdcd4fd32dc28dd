------------------------------- MODULE Binding -------------------------------
(***************************************************************************)
(* Registration and binding: engine, global_module, sub_module, the        *)
(* bindables they hold (classes, enums, globals, functions) and the        *)
(* lookup_type they share.                                                 *)
(*                                                                         *)
(* A program hands bindables to make_class, make_enum, make_global and     *)
(* make_function, which file them by name in a module, and then calls      *)
(* engine.bind().  bind() walks the root module again and again, in the    *)
(* order of the names, until nothing is left or a walk achieves nothing.   *)
(* The code is single threaded: an action is one iteration of one of its   *)
(* loops.                                                                  *)
(***************************************************************************)
EXTENDS Integers, Sequences, FiniteSets

CONSTANTS
  Items,        \* bindables, one for each call of a make_ function
  Subs,         \* names a sub-module may have
  Types,        \* C++ types bindables provide or need
  Root,         \* the module named ""
  NoType,       \* what a global or a function provides
  Nil,          \* the Lua value nil
  LoadedTable,  \* the registry table _LOADED, which require() reads
  Module,       \* Module[i]: where i is filed, Root or a sub-module
  Key,          \* Key[e]: rank of the name of e in its std::map
  Kind,         \* Kind[i]: "class", "enum" or "value" (global, function)
  Provides,     \* Provides[i]: the type i describes
  Needs,        \* Needs[i]: types that must be known when i is bound
  Litter,       \* Litter[i]: a failed bind of i leaves a table on the stack
  MaxBinds      \* bound on the calls of engine.bind()

Entries == Items \cup Subs

ASSUME NamesAssumption ==
  /\ Items \cap Subs = {}
  /\ Root \notin Entries
  /\ Nil \notin Entries \cup {LoadedTable}
  /\ LoadedTable \notin Entries
  /\ NoType \notin Types
  /\ MaxBinds \in Nat

ASSUME ItemsAssumption ==
  /\ Module \in [Items -> Subs \cup {Root}]
  /\ Key \in [Entries -> Nat \ {0}]
  /\ Kind \in [Items -> {"class", "enum", "value"}]
  /\ Provides \in [Items -> Types \cup {NoType}]
  /\ \A i \in Items : (Kind[i] = "value") <=> (Provides[i] = NoType)
  /\ Needs \in [Items -> SUBSET Types]
  /\ Litter \in [Items -> BOOLEAN]
  /\ \A i, j \in Items :   \* std::is_base_of: the base of a class is a class
       Kind[i] = "class" /\ Provides[j] \in Needs[i] => Kind[j] = "class"

(***************************************************************************)
(* What the programs we consider do not do: file a bindable and a          *)
(* sub-module under one name (the sub-module would be destroyed while      *)
(* modules_ still points to it), or describe one C++ type under two names  *)
(* (the assertion of wrapper_class::bind forbids it).                      *)
(***************************************************************************)
ASSUME ProgramAssumption ==
  /\ \A s \in Subs : \A e \in Entries \ {s} :
       (e \in Subs \/ Module[e] = Root) => Key[e] # Key[s]
  /\ \A i, j \in Items :
       Provides[i] = Provides[j] /\ Kind[i] # "value"
         => Kind[i] = Kind[j] /\ Module[i] = Module[j] /\ Key[i] = Key[j]

VARIABLES
  made,      \* bindables that have been constructed and passed to add()
  held,      \* those that sit in a bindables_ map
  subs,      \* sub-modules get_module() has created
  status,    \* bindable_data::status, for bindables and for sub-modules
  binded,    \* sub_module::binded_
  lookup,    \* types lookup_type knows
  links,     \* links[<<t, d>>]: casts from d in bases_ of the type_info of t
  index,     \* index[d]: __index of the instance metatable of class d
  stack,     \* the Lua stack, from bottom to top
  globals,   \* globals[e]: Lua global with the name of e
  loaded,    \* loaded[s]: _LOADED[s]
  fields,    \* fields[t]: the bindables whose value is a field of table t
  pc,        \* where bind() is: "idle", "root", "sub" or "aborted"
  position,  \* the names the loop over the root module has passed
  current,   \* the sub-module being bound
  inner,     \* the names the loop over the sub-module has passed
  before,    \* before_binding
  result,    \* what bind() returned last
  binds,     \* number of calls of bind(), bounded by MaxBinds
  underflow  \* a value was popped from an empty stack

registry == <<made, held, subs>>
lua      == <<stack, globals, loaded, fields, underflow>>
loop     == <<pc, position, current, inner, before, result, binds>>
vars     == <<registry, status, binded, lookup, links, index, lua, loop>>

Values == Entries \cup {LoadedTable}

(***************************************************************************)
(* Reading the maps.                                                       *)
(***************************************************************************)

\* The bindables_ map of a module; a sub-module is an entry of the root one.
EntriesOf(m) ==
  {i \in held : Module[i] = m} \cup (IF m = Root THEN subs ELSE {})

\* The names need_to_bind() returns: an unchanged vector is an unchanged set.
NeedToBind == {e \in held \cup subs : ~status[e]}

\* What a range-for over a map has still to bind after the rank p, and the
\* entry it tries next.
Left(m, p) == {e \in EntriesOf(m) : ~status[e] /\ Key[e] > p}

IsNext(e, m, p) == e \in Left(m, p) /\ \A f \in Left(m, p) : Key[e] <= Key[f]

\* Slip: one known base is taken for all of them.
AnyDependency(i) == Needs[i] = {} \/ Needs[i] \cap lookup # {}

CheckDependency(i) == Needs[i] \subseteq lookup

Top(s) == s[Len(s)]

(***************************************************************************)
(* Registration.                                                           *)
(***************************************************************************)

\* std::map::insert keeps the entry that was there.
Kept(i) == \A j \in held : ~(Module[j] = Module[i] /\ Key[j] = Key[i])

\* Slip: every wrapper announces its type at once.
LookupAtOnce(i) == IF Kept(i) THEN lookup \cup ({Provides[i]} \ {NoType}) ELSE lookup

\* A bindable filed in a sub-module creates it and has it bound again.
StatusAfterMake(i) ==
  IF Module[i] = Root THEN status ELSE [status EXCEPT ![Module[i]] = FALSE]

SubsAfterMake(i) == IF Module[i] = Root THEN subs ELSE subs \cup {Module[i]}

\* enum_wrapper announces its type when it is constructed; a wrapper that
\* insert() refuses is destroyed, and its destructor resets the type.
LookupAfterMake(i) ==
  IF ~Kept(i) THEN lookup \ {Provides[i]}
  ELSE IF Kind[i] = "enum" THEN lookup \cup {Provides[i]}
  ELSE lookup

Make(i) ==
  /\ pc = "idle"
  /\ i \in Items \ made
  /\ made' = made \cup {i}
  /\ held' = IF Kept(i) THEN held \cup {i} ELSE held
  /\ lookup' = LookupAfterMake(i)
  /\ subs' = SubsAfterMake(i)
  /\ status' = StatusAfterMake(i)
  /\ UNCHANGED <<binded, links, index, lua, loop>>

(***************************************************************************)
(* engine.bind()                                                           *)
(***************************************************************************)

Start ==
  /\ pc = "idle"
  /\ binds < MaxBinds
  /\ ~underflow
  /\ binds' = binds + 1
  /\ before' = NeedToBind
  /\ position' = 0
  /\ IF NeedToBind = {}
       THEN pc' = "idle" /\ result' = TRUE
       ELSE pc' = "root" /\ UNCHANGED result
  /\ UNCHANGED <<registry, status, binded, lookup, links, index, lua,
                 current, inner>>

\* A class with one base copies the table of the base into its instance
\* metatable when it is bound: inheritance_index reads it with get_symbol().
SingleBase(i, t) == Kind[i] = "class" /\ Needs[i] = {t}

Symbol(b) ==
  IF Module[b] = Root THEN globals[b]
  ELSE IF b \in fields[loaded[Module[b]]] THEN b ELSE Nil

\* get_symbol() of a sub-module indexes _LOADED[name], an error when it is
\* still nil.
Readable(i) ==
  \A t \in Types, b \in held :
    SingleBase(i, t) /\ Provides[b] = t /\ Module[b] # Root
      => loaded[Module[b]] # Nil

\* link(): a class appends its cast to the type_info of each base.
Linked(i) == [l \in Types \X Items |->
                IF Kind[i] = "class" /\ l[2] = i /\ l[1] \in Needs[i]
                THEN links[l] + 1 ELSE links[l]]

IndexWith(i) ==
  IF \E t \in Types, b \in held : SingleBase(i, t) /\ Provides[b] = t
  THEN [index EXCEPT ![i] = Symbol(CHOOSE b \in held : {Provides[b]} = Needs[i])]
  ELSE index

\* What bind() of a bindable changes besides the stack: a class makes its
\* type known; of the others only the value is pushed.
Publish(i) ==
  /\ status' = [status EXCEPT ![i] = TRUE]
  /\ lookup' = IF Kind[i] = "class" THEN lookup \cup {Provides[i]} ELSE lookup
  /\ links' = Linked(i)
  /\ index' = IndexWith(i)

Bind(i) == CheckDependency(i) /\ Readable(i) /\ Publish(i)

\* bind() returned false: nothing changes but what it left on the stack.
Fail(i) ==
  /\ ~CheckDependency(i)
  /\ stack' = IF Litter[i] THEN Append(stack, i) ELSE stack
  /\ UNCHANGED <<status, lookup, links, index, globals, fields>>

RootItem(i) ==
  /\ pc = "root"
  /\ i \in Items
  /\ IsNext(i, Root, position)
  /\ position' = Key[i]
  /\ \/ /\ Bind(i)
        /\ globals' = [globals EXCEPT ![i] = i]
        /\ UNCHANGED <<stack, fields>>
     \/ Fail(i)
  /\ UNCHANGED <<registry, binded, loaded, underflow,
                 pc, current, inner, before, result, binds>>

\* A Lua error outside of any protected call ends the program.
Panic(i) ==
  /\ i \in Items
  /\ \/ pc = "root" /\ IsNext(i, Root, position)
     \/ pc = "sub" /\ IsNext(i, current, inner)
  /\ CheckDependency(i) /\ ~Readable(i)
  /\ pc' = "aborted"
  /\ UNCHANGED <<registry, status, binded, lookup, links, index, lua,
                 position, current, inner, before, result, binds>>

\* Slips: binded_ is not asked; the two values come in the other order.
OpenedAlways(s) == <<LoadedTable, loaded[s]>>
OpenedSwapped(s) == IF binded[s] THEN <<loaded[s], LoadedTable>> ELSE <<s>>

\* A new table the first time, then the one _LOADED has.
Opened(s) == IF binded[s] THEN <<LoadedTable, loaded[s]>> ELSE <<s>>

SubEnter(s) ==
  /\ pc = "root"
  /\ s \in Subs
  /\ IsNext(s, Root, position)
  /\ position' = Key[s]
  /\ pc' = "sub"
  /\ current' = s
  /\ inner' = 0
  /\ stack' = stack \o Opened(s)
  /\ UNCHANGED <<registry, status, binded, lookup, links, index,
                 globals, loaded, fields, underflow, before, result, binds>>

\* lua_setfield(state, -2, name): the table is whatever lies below the value.
SubItem(i) ==
  /\ pc = "sub"
  /\ i \in Items
  /\ IsNext(i, current, inner)
  /\ inner' = Key[i]
  /\ \/ /\ Bind(i)
        /\ fields' = [fields EXCEPT ![Top(stack)] = @ \cup {i}]
        /\ UNCHANGED <<stack, globals>>
     \/ Fail(i)
  /\ UNCHANGED <<registry, binded, loaded, underflow,
                 pc, position, current, before, result, binds>>

\* Slip: the table is not registered in _LOADED.
NotEntered == loaded

Entered == [loaded EXCEPT ![current] = Top(stack)]

\* The sub-module returns true whatever its items did; the first time it
\* leaves two copies of its table, of which the lua_setglobal of the root
\* loop pops one.
SubLeaveFirst ==
  /\ pc = "sub"
  /\ Left(current, inner) = {}
  /\ ~binded[current]
  /\ binded' = [binded EXCEPT ![current] = TRUE]
  /\ loaded' = Entered
  /\ globals' = [globals EXCEPT ![current] = Top(stack)]
  /\ status' = [status EXCEPT ![current] = TRUE]
  /\ pc' = "root"
  /\ UNCHANGED <<registry, lookup, links, index, stack, fields, underflow,
                 position, current, inner, before, result, binds>>

\* Every later time it pops its two values and pushes none, and
\* lua_setglobal pops one more: undefined when the stack has only two.
SubLeaveAgain ==
  /\ pc = "sub"
  /\ Left(current, inner) = {}
  /\ binded[current]
  /\ LET rest == SubSeq(stack, 1, Len(stack) - 2) IN
       IF rest = << >>
         THEN /\ \E v \in Values \cup {Nil} :
                   globals' = [globals EXCEPT ![current] = v]
              /\ underflow' = TRUE
              /\ stack' = << >>
         ELSE /\ globals' = [globals EXCEPT ![current] = Top(rest)]
              /\ stack' = SubSeq(rest, 1, Len(rest) - 1)
              /\ UNCHANGED underflow
  /\ status' = [status EXCEPT ![current] = TRUE]
  /\ pc' = "root"
  /\ UNCHANGED <<registry, binded, lookup, links, index, loaded, fields,
                 position, current, inner, before, result, binds>>

\* Slips: one walk only; walks until all is bound.
GoesOnNever == FALSE
GoesOnForever == NeedToBind # {}

GoesOn == NeedToBind # before /\ NeedToBind # {}

\* The end of a walk: stop when all is bound or when nothing changed.
EndWalk ==
  /\ pc = "root"
  /\ Left(Root, position) = {}
  /\ position' = 0
  /\ before' = NeedToBind
  /\ IF GoesOn
       THEN UNCHANGED <<pc, result>>
       ELSE pc' = "idle" /\ result' = (NeedToBind # before)
  /\ UNCHANGED <<registry, status, binded, lookup, links, index, lua,
                 current, inner, binds>>

------------------------------------------------------------------------------

Init ==
  /\ made = {} /\ held = {} /\ subs = {}
  /\ status = [e \in Entries |-> FALSE]
  /\ binded = [s \in Subs |-> FALSE]
  /\ lookup = {}
  /\ links = [l \in Types \X Items |-> 0]
  /\ index = [i \in Items |-> Nil]
  /\ stack = << >>
  /\ globals = [e \in Entries |-> Nil]
  /\ loaded = [s \in Subs |-> Nil]
  /\ fields = [e \in Entries |-> {}]
  /\ pc = "idle" /\ position = 0 /\ current = Root /\ inner = 0
  /\ before = {} /\ result = TRUE /\ binds = 0 /\ underflow = FALSE

BindStep ==
  \/ \E i \in Items : RootItem(i) \/ SubItem(i) \/ Panic(i)
  \/ \E s \in Subs : SubEnter(s)
  \/ SubLeaveFirst
  \/ SubLeaveAgain
  \/ EndWalk

Next ==
  \/ \E i \in Items : Make(i)
  \/ Start
  \/ BindStep

Spec == Init /\ [][Next]_vars

\* bind() is a loop of a running thread: once started it goes on.
FairSpec == Spec /\ WF_vars(BindStep)

------------------------------------------------------------------------------
(***************************************************************************)
(* Properties                                                              *)
(***************************************************************************)

(* The type invariant. *)
TypeOK ==
  /\ made \subseteq Items /\ held \subseteq made /\ subs \subseteq Subs
  /\ status \in [Entries -> BOOLEAN]
  /\ binded \in [Subs -> BOOLEAN]
  /\ lookup \subseteq Types
  /\ links \in [Types \X Items -> Nat]
  /\ index \in [Items -> Values \cup {Nil}]
  /\ stack \in Seq(Values)
  /\ globals \in [Entries -> Values \cup {Nil}]
  /\ loaded \in [Subs -> Entries \cup {Nil}]
  /\ fields \in [Entries -> SUBSET Items]
  /\ pc \in {"idle", "root", "sub", "aborted"}
  /\ position \in Nat /\ inner \in Nat
  /\ current \in Subs \cup {Root}
  /\ before \subseteq Entries
  /\ result \in BOOLEAN /\ binds \in Nat /\ underflow \in BOOLEAN

\* A bindable of type t was refused by a map and destroyed.
Dropped(t) == \E i \in made \ held : Provides[i] = t

(* What the maps and the loops maintain from one step to the next, so that *)
(* the promises below can hold.  Filing: a map has one entry for a name,   *)
(* and only what it holds is marked bound.  Tables: the table a sub-module *)
(* works on is the one on the stack.  Walk: the unbound names are among    *)
(* those bind() started with, the walk has left no sub-module behind, and  *)
(* as long as it has achieved nothing each bindable of the root module it  *)
(* has passed still lacks a type.  Inside: what is bound in a sub-module    *)
(* that was never completed is in the one being worked on.                 *)
FilingInv ==
  /\ \A i \in Items : status[i] => i \in held
  /\ \A i, j \in held : Module[i] = Module[j] /\ Key[i] = Key[j] => i = j

TablesInv ==
  /\ \A s \in Subs : binded[s] => loaded[s] \in Entries
  /\ pc = "sub" =>
       /\ current \in subs /\ ~status[current] /\ position = Key[current]
       /\ Len(stack) >= (IF binded[current] THEN 2 ELSE 1)
       /\ Top(stack) \in Entries

WalkInv ==
  pc \in {"root", "sub"} =>
    /\ before # {} /\ NeedToBind \subseteq before
    /\ \A s \in subs : ~status[s] /\ Key[s] <= position
                      => pc = "sub" /\ s = current
    /\ NeedToBind = before =>
         \A i \in EntriesOf(Root) \cap Items :
           ~status[i] /\ Key[i] <= position => ~CheckDependency(i)

InsideInv ==
  \A i \in held : status[i] /\ Module[i] # Root =>
    binded[Module[i]] \/ (pc \in {"sub", "aborted"} /\ current = Module[i])

LoopInv == FilingInv /\ TablesInv /\ WalkInv /\ InsideInv

(* Whatever order the names impose and however often bind() is called, a   *)
(* class that Lua can see has every base known to the lookup, and its cast *)
(* sits exactly once in the type_info of each base; a class that is not    *)
(* bound has left no cast behind (check_dependency, link and the status    *)
(* flag together).  A dropped namesake of a base may have reset it.        *)
ClassesLinked ==
  \A d \in {i \in Items : Kind[i] = "class"}, t \in Types :
    /\ links[<<t, d>>] = IF status[d] /\ t \in Needs[d] THEN 1 ELSE 0
    /\ status[d] /\ t \in Needs[d] => t \in lookup \/ Dropped(t)

(* A type is known exactly while the one bindable that describes it is     *)
(* ready: an enum from its construction, a class once bound.  Hence the    *)
(* assertion of wrapper_class::bind, that its type is not known yet, never *)
(* fails.                                                                  *)
LookupExact ==
  /\ \A t \in lookup : \E i \in held : Provides[i] = t
  /\ \A i \in {j \in held : Kind[j] # "value"} :
       LET ready == Kind[i] = "enum" \/ status[i] IN
       /\ Provides[i] \in lookup => ready
       /\ ready => Provides[i] \in lookup \/ Dropped(Provides[i])

\* A call of bind() that ends with this step.
Returns == pc' = "idle" /\ (pc # "idle" \/ binds' # binds)

(* bind() answers true when, and only when, need_to_bind() is empty.       *)
ResultExact == [][Returns => (result' <=> NeedToBind' = {})]_vars

(* bind() gives up only when it has to: when it returns false, no bindable *)
(* of the root module is left whose dependencies are all known.            *)
RootComplete ==
  [][Returns => \A i \in held : (Module[i] = Root /\ ~status[i])' => ~CheckDependency(i)']_vars

(* The same promise for every module.                                      *)
Complete ==
  [][Returns => \A i \in held : ~status[i]' => ~CheckDependency(i)']_vars

(* Inside bind() nothing bound is lost and no type is forgotten: what the  *)
(* loop of engine.bind() needs in order to stop.                           *)
BindOnlyAdds ==
  [][pc # "idle" => NeedToBind' \subseteq NeedToBind /\ lookup \subseteq lookup']_vars

(* Symbols read back, as get_symbol() and require() do: a bound bindable   *)
(* of the root module is the global of its name; _LOADED has the table of  *)
(* each bound sub-module, whose fields are its bound bindables, no more.   *)
SymbolsReadBack ==
  pc = "idle" =>
    /\ \A i \in held : Module[i] = Root /\ status[i] => globals[i] = i
    /\ \A s \in subs : binded[s] =>
         /\ loaded[s] = s
         /\ fields[s] = {i \in held : Module[i] = s /\ status[i]}

(* Static methods are inherited: the instance metatable of a bound class   *)
(* with one base reads on in the table of that base, wherever it is filed. *)
IndexReadsBase ==
  \A d \in Items, t \in Types : status[d] /\ SingleBase(d, t)
    => index[d] \in Items /\ Provides[index[d]] = t

(* bind() never dies of a Lua error.                                       *)
NeverAborts == pc # "aborted"

(* It can only die on a class that shares a sub-module with its base.      *)
AbortsOnlyInside ==
  pc = "aborted" => \E b, d \in held, t \in Types :
    SingleBase(d, t) /\ Provides[b] = t /\ Module[b] = Module[d] /\ Module[d] # Root

(* The same for the global that carries the name of a sub-module.          *)
SubModuleGlobal ==
  pc = "idle" => \A s \in subs : binded[s] => globals[s] = s

(* The detailed binding implements the promise of Registry.                *)
Bound == {i \in held : status[i]}

Promise ==
  INSTANCE Registry WITH
    Slot    <- [i \in Items |-> <<Module[i], Key[i]>>],
    AtOnce  <- {i \in Items : Kind[i] = "enum"},
    OnBind  <- {i \in Items : Kind[i] = "class"},
    Retried <- {i \in Items : Module[i] = Root},
    bound   <- Bound,
    known   <- lookup,
    answer  <- result

KeepsPromise == Promise!Spec

(* Every call of bind() returns, unless it dies of a Lua error.            *)
BindReturns == pc \in {"root", "sub"} ~> pc \in {"idle", "aborted"}
==============================================================================
