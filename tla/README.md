# luacxx: a verification project

luacxx is a header-only C++14 library that binds C++ classes, enums, values and
functions to Lua 5.3. A program registers *bindables* with an `engine`, calls
`engine.bind()`, and then runs Lua code that creates objects, calls methods and
reads properties; C++ code calls Lua functions through a `caller` or a
`std::function`. Everything runs on one thread; the difficulty is elsewhere: in
the order in which things are bound, in the Lua stack that all functions share
and address by position, in calls that nest (C++ calls Lua calls C++), in
counters and caches that outlive a call, and in objects two languages own.

This directory holds TLA+ modules translated from `src/include/luacxx`, the TLC
configurations that check them, and TLAPS proofs about them. Every definition
that models code is listed with its source lines in `PROJECT.json` under `map`;
what stands for Lua, `std::shared_ptr` or the C++ program is marked external.

## 1. Inventory

Paths are below `src/include/luacxx`.

| component | source | state | operations | what makes it correct | module |
|---|---|---|---|---|---|
| engine | `binding/engine.hpp` | the Lua state, the root module, the lookup | `bind`, `need_to_bind`, `get_module`, `do_file`, `do_string` | `bind` returns, answers true exactly when everything is bound, and gives up only when nothing more can be bound | Binding |
| modules | `binding/module.hpp` | `bindables_` (name → wrapper, `status`), `modules_`, `binded_` | `add`, `get_module`, `bind`, `get_symbol` | a bound name reads back as what was bound under it | Binding |
| bindables | `binding/class.hpp`, `enum.hpp`, `global.hpp`, `function.hpp` | what each wraps | `bind` | a bindable is visible only once what it needs is known | Binding |
| lookup | `core/lookup_type.hpp` | type id → `type_info` | `set`, `reset`, `exist`, `get` | a type is known exactly while its wrapper is ready | Binding |
| inheritance | `core/type_info.hpp`, `binding/class.hpp` 379-445 | `bases_`, the cache `convert_mappings_` | `add_base`, `get_instance` | an object passes for every class it derives from, whatever was asked before | Inheritance |
| access to instances | `binding/class.hpp` 53-232, 447-523, 599-797 | `properties_`, `class_bindables_`, the metatables | registration, `__index`, `__newindex` | reads and writes reach the member that was registered, and only as registered | Access |
| calls from Lua | `core/request.hpp` 15-194, `binding/method.hpp`, `function.hpp`, … | the Lua stack, `nb_return_` | `invoke` | each argument reaches its parameter, each result is returned once | Request |
| calls from C++ | `core/request.hpp` 196-400, `binding/caller.hpp` | the Lua stack, `nb_output_`, `return_value_` | `invoke` | arguments and results pair up; nothing else of the stack is touched | Caller |
| objects | `binding/class.hpp` 234-377, 818-874, `dtor_method.hpp` | Lua tables, userdata, shared owners | `to_lua`, `__gc`, `cast_to`, `instance_of` | an object lives while somebody holds it and is destroyed once | Objects |
| containers, numbers, enumerators | `core/utility.hpp` 545-577, 700-843, `core/basic_type_info.hpp`, `enum_type_info` in `binding/enum.hpp` | the stack during the walk of a table, `reverse_values_` | `convert_from`, `convert_to` | what is read back equals what was written | Convert |
| `std::function` | `core/utility.hpp` 579-697 | registry references, userdata | `from`, `to`, `gc_`, `call_` | a reference names the function it was made for and is given back once, by the last copy | Closure |
| argument passing | `core/utility.hpp` 30-520, `default_initializer.hpp`, `to_lua` in `binding/class.hpp` | what the any of each argument holds, and how | `check_arg_call`, `cast_arg_call`, `convert_from`, `convert_to` | an argument fits its parameter or is refused; const stays const; nothing gets an owner nobody asked for | Passing |
| policy | `core/policy.hpp` | a tree of nodes, flags of each parameter | `make_arg_policies`, `set_*`, `get_attr` | whoever reads a node finds it | Policy, Passing |

How they interact. The wrappers share the `lookup_type` by reference and the
Lua state through the stack. `engine.bind()` walks the root module, which calls
its sub-modules, which call the bindables; a class, when it is bound, adds a
cast to the `type_info` of each of its bases. A `method` asks the `type_info` of
its class for the instance in the first argument, and its `request_from_lua`
converts what is left of the stack, by `convert_from` of each parameter; results
go back through `convert_to`. A `caller` is the same in the other direction.
`to_lua` of a class creates the table that stands for an object, whose metatable
is the one the wrapper built when it was bound, and whose `__gc` gives the
ownership back. A `std::function` crosses both ways: one made of a Lua function
is a reference in the registry of Lua, shared by its copies, and calls with a
`request_to_lua`; one given to Lua is a userdata below a C closure, and is called
with a `request_from_lua`. Both read the policies of its parameters, which are
nodes below that of the parameter it is.

What is hard: the walk order of `std::map` decides who is tried first (Binding);
a depth-first search with early exit over lists that grow while its results are
cached (Inheritance); decisions made once, in `bind()`, about what may be
registered later (Access); positions on a stack that are right only because a
conversion removed, or did not remove, a value (Request, Caller, Convert);
counters that are members and not locals, when calls nest (Request, Caller);
failures half way (everywhere); errors of Lua that leave C++ functions without
running their destructors (Closure); the garbage collector, which may run
whenever Lua does (Objects, Closure); values whose static type is gone while
they are in an any, and is cast back by a table of what is allowed (Passing).
The full list, each with its line and the properties that watch it, is under
`hazards` in `PROJECT.json`.

## 2. Modules, and how they correspond to the code

Each component has one module, an `MC…` module with the constants of its small
instances, `.cfg` files, and, where there is one, an abstract specification that
says what the component promises without its mechanism.

| module | abstract | instances | proofs |
|---|---|---|---|
| Binding | Registry | MCBinding | BindingProofs |
| Inheritance | Kinship | MCInheritance | InheritanceProofs |
| Access | Attributes | MCAccess | CallableProofs |
| Request | | MCRequest | RequestProofs |
| Caller | | MCCaller | CallerProofs |
| Objects | Ownership | MCObjects | ObjectsProofs |
| Convert | | MCConvert | ConvertProofs |
| Closure | | MCClosure | CallableProofs |
| Policy, Passing (extends Policy) | | MCPassing | PassingProofs |

Definitions marked *Slip* are plausible mistakes in the code (a dropped guard, a
swapped order, a missing reset). No specification uses them; each property of a
passing run is broken by one of them, put in the place of the definition it
follows, which shows that the property depends on the code.

**Binding.** `made`, `held`, `subs`, `status`, `binded` are the maps of the
modules and their flags, `lookup` and `links` the known types and the casts
filed in them, `stack`, `globals`, `loaded`, `fields` what Lua has, and `pc`,
`position`, `current`, `inner`, `before` where the nested loops of `bind()` are.
One step is one iteration: `Make` is a `make_…` call with `module::add` (and the
destructor of a wrapper the map refuses); `Start` and `EndWalk` are the ends of
the loop of `engine::bind`; `RootItem`, `SubEnter`, `SubItem`, `SubLeaveFirst`
and `SubLeaveAgain` are the bodies of the two range-for loops, with the stack
they leave; `Panic` is an error of Lua outside of any protected call. When
`lua_setglobal` finds the stack empty, what it stores is any value
(`SubLeaveAgain`), and no further call of `bind()` is followed.

**Inheritance.** `bases` is `bases_` of each `type_info`, `mappings` is
`convert_mappings_`, `frames` the recursion of `build_mapping_`, one frame per
call with its loop position. `AskOwn`, `AskKnown` and `AskUnknown` are the three
ways `get_instance` starts, `Hit`, `Descend`, `Miss`, `Refuse` the search,
`Unwind` and `Keep` its way back. `Bind` may come between any two questions.

**Access.** `properties`, `versions`, `newindexed` are what `wrapper_class`
collects; `index`, `newindex`, `fields` what `bind()` makes of it; `members` the
C++ object, `raw` the keys the Lua table of the object itself has. `Get` and
`Set` are one indexing by Lua each, with the metamethod that answers it, `Assign`
a change made by C++. A name that is no property of the class is searched from
table to table: `GetOther` starts with that of the class, `Hit` and `Nowhere` are
the two ends, `Descend` asks the next base and `Miss` comes back from one that had
nothing, with its own bases asked first; `walk` is the stack of the nested
`__index` calls. A class without properties or with one base has a table as its
`__index` and not a closure, which gives the same steps. `versions` tells apart
the methods that a class was given under one name: only the last can be called,
although `doc/class.md:81` says that two may have the same name. `Late` says
whether the program registers after `bind()`.

**Request.** A frame per call of a bound function, method or constructor, with
the Lua stack of the call, the arguments converted so far and the phase of
`invoke()`; `nbReturn` is `nb_return_` of each callable. `TakeBasic`,
`TakeObject`, `TakeMissing`, `TakeNothing` are `initialize_` for one parameter,
`Return` and `Throw` are `call_` with `append_output_`. While a body runs Lua
may call again. `Place` is the intent: which argument a parameter is for.

**Caller.** A level per C++ function with a Lua stack of its own; `nbOutput` is
`nb_output_` of each caller (a closure has a local one). `Invoke` and
`PushFails` push, `CallReturns` and `CallFails` are `lua_pcall`, `Read`,
`ReadFails` and `ReadOutside` one conversion of a result, addressed from the top
of the stack by the unsigned counter. A push that fails has counted only the
outputs it looked at, and in a member counter that an outer call of the same
caller still reads. Each result has its number, so that the order in which they
arrive can be seen.

**Objects.** `boxes` are the Lua tables with `__id`, `__type` and
`__ptr_private`, `owned` and `uses` the control blocks of `std::shared_ptr`,
`program` the copies that C++ holds, `call` what a running C++ function borrows.
`GiveShared`, `GiveRaw`, `GiveOwned`, `GiveValue` are the branches of `to_lua_`,
`Construct` is `ctor_method`, `CastTo` is `cast_to_impl_`, `Enter` and `Leave`
bracket a call, `Collect` is `__gc`, `Close` is `~engine`, which runs every
`__gc` that is left.

**Convert.** `containers` are the containers being converted, with the position of
the table on the stack and what has been inserted or is still to be written;
`pc` is what the innermost conversion does next. `FromNext` is `lua_next` with
the test of `error_msg`, in the order in which the code has them; `FromRaise` is
`lua_next` given a key that the table does not have. Integers have their width:
`Narrow` and `ToInteger` are the two casts. An enumerator is written as its
underlying value (`ToEnum`); when it is read (`FromEnum`) the underlying value
is converted, and so removed, before it is looked up. `Values` are the C++
values, those that are parts of others included, `Scripts` the tables that Lua
made; `Plain` are the types without objects in them, `Registered` the values
without an enumerator that was never registered, `Exact` those without a string
that has a NUL in it: the assumptions say so by one step of the structure each,
without recursion. A string is written with `lua_pushstring` and read into a
`std::string` made of a `const char*`: both end at the first NUL, which is
`UpToNul`. `Settled` is `lua_settable`, which replaces the value of a key that is
there: two keys of a map that are equal up to a NUL become one pair of the
table. nil is an empty `std::shared_ptr` for a class.

**Closure.** `registry` is what `luaL_ref` has filed under each reference,
`block` the `auto_unref` that all copies of one `std::function` share, with the
state it captured; `slots` are the variables in which C++ keeps a copy, `data`
the `to_data` of each closure (`Gone` after its `__gc`), `frames` the calls that
run, of Lua functions, C++ functions and closures. `From` and `To` are the two
conversions, `Invoke` and `Call` the two calls, `Gc` is `gc_`, `Released` the
destructor of the last copy. What Lua refers to is `named` and `upvalue`;
`Collect` finds what is not reached, as Lua does, which sees neither through a
userdata nor through a block, and puts it in `doomed` for `Gc`. `Raise` is a Lua
function that fails: the `std::function` raises the error again with
`luaL_error`, a `longjmp`, over the C++ functions up to the Lua code that called
them, and their copies stay in `lost`. The error is raised in the state that the
`std::function` captured; when that is another coroutine than the one that runs,
its handler may be further out, and Lua code is left as well: which one has it is
left open once a `std::function` was made in a coroutine. A function that C++ gets
may also be a closure that C++ made itself before (`lua_isfunction`, line 612):
its calls nest a `std::function` in another. `Close` and `Closed` are `lua_close`.
`Rash` lists the risks a program may take: to keep a `std::function` beyond the
engine (`outlive`) or beyond the coroutine that passed it (`coroutine`), to
assign to it while it runs (`reset`), to call closures from finalisers
(`finaliser`).

**Policy and Passing.** `type` is the signature of one callable, a tree: a
function from paths to what is there (`T`, `T&`, `const T*`,
`std::shared_ptr<T>`, …, a function with its arity, a list); `nodes` its
`policy_node`s, which `Made` builds from the type as `make_arg_policies` does and
`Configure` changes with the setters. An any is a pair of how it holds an object
and which; `Accepted` collects the six tables of `arg_call`, which follow from
the specialisations in `utility.hpp`; `Boxed` is `to_lua` of a class, `FromLua`
its `from_lua`, `Argument` and `Returned` the any that each form of parameter or
result is put into. `frames` are nested calls, Lua to C++ and C++ to Lua in
turn, each with the path of its type in the tree; `FetchInput`, `FetchDefault`,
`FetchFresh` and `FetchFails` are `initialize_` of `request_from_lua`, `Push` that
of `request_to_lua`, `Append_output` and `Output_arg` what they do after the
call. The stack is left out, which Request and Caller are about. `Rash`: default
values that do not fit (`default`), nil for a reference (`nil`), Lua functions
that return another box than the parameter has (`output`).

## 3. What is checked

`PROJECT.json` lists the runs with their properties. Per module there is one
type invariant; the others are about what several steps do together.

| run | states | what it shows |
|---|---|---|
| `binding` | 78 566 | Seven bindables: a family of classes across two modules whose names sort in the wrong order, a namesake, an enum that can never be bound, values that need a class; three calls of `bind()` with registrations between them. The loops stop, the answer is exact, nothing of the root module is left behind, classes are linked once, symbols read back, and the whole implements Registry. |
| `binding_inside` | 39 999 | Bases that sit in a sub-module: the only way to die is a class next to its only base in a sub-module that was never bound. |
| `inheritance` | 197 282 | A diamond, a second root and a class below both, bound in every legal order while every class is asked for every object: cached chains compose, each search ends, and the whole implements Kinship, whose answers are right and stay right. |
| `access` | 69 336 | A diamond of four classes and an object of the lowest, properties of several kinds, a name declared twice, a method overridden on one side, a name that is a property of one class and a method of another, methods replaced before `bind()`: the method found is the first one in the order of the bases, depth first, and the last that its class registered, and the whole implements Attributes for objects whose class saw a getter and a setter. |
| `request` | 576 488 | Functions, a method, a constructor with defaults, output parameters, a `lua_State`, objects, with every list of up to two arguments, two calls deep, with failures. |
| `caller` | 145 342 | Two callers and a closure with results of both kinds, three levels deep, with failures of every step. |
| `objects` | 108 173 | An object of a derived class and a temporary, three boxes, two control blocks, every order of sharing, casting, borrowing, collecting and closing; implements Ownership. |
| `convert` | 174 592 | Lists, sets, maps, lists of enumerators, lists of lists and maps of lists written and read back; every table of two pairs that a script makes, and nil, read as each of these types. An enumerator that is not registered is written and then refused; a string with a NUL is cut, and keys that are equal up to it become one. |
| `closure` | 596 797 | Two Lua functions and a closure given to C++ from two coroutines, kept, called, failing, given back as a closure, captured, forgotten, collected and closed in every order, five calls deep: references are shared, reused and released exactly, and whatever nothing keeps is freed in the end. |
| `passing` | 441 776 | Ninety signatures, with a parameter and a result of every form or a `std::function` of them; two policies set; Lua calls C++ calls Lua calls C++, with failures of every step. No const object is had as one that may change, each argument fits its cast, each node that is read exists, and no pointer gets an owner that nobody asked for. |

Runs that find what the code does *not* keep:

| run | property | what the code does |
|---|---|---|
| `request_objects` | ArgsAlwaysInOrder | the conversion of an object leaves it on the stack, and the next parameter reads it again |
| `objects_self` | SelfAlive | the object of a running method can be collected |

Further configurations are kept for use by hand, `tlc -config X.cfg MC….tla`:

| configuration | property | what TLC shows |
|---|---|---|
| `BindingGlobal.cfg` | SubModuleGlobal | binding a sub-module again sets the global of its name to whatever is on the stack (`module.hpp:181`) |
| `BindingLitter.cfg` | SymbolsReadBack | an enum that cannot be bound leaves its table, and the sub-module takes it for its own (`enum.hpp:65`) |
| `BindingRetry.cfg` | Complete | a sub-module reports success whatever its items did, and is not entered again (`module.hpp:184`) |
| `BindingAbort.cfg` | NeverAborts | a class next to its base in a new sub-module indexes nil outside of a protected call (`class.hpp:186`) |
| `AccessReadOnly.cfg` | Truthful | without a writable property there is no `__newindex`, and an assignment hides the read-only property (`class.hpp:789`) |
| `AccessReplaced.cfg` | MethodsCurrent | a method replaced after `bind()` is still bound with the address of the one that was destroyed (`class.hpp:662`) |
| `AccessWriteOnly.cfg` | WriteOnlyUnread | `property_writeonly` without a policy registers a getter (`class.hpp:732`) |
| `AccessLate.cfg` | KeepsPromise and others | holds: registration after `bind()` keeps the promise for classes that saw a getter and a setter |
| `RequestAgain.cfg` | ReturnsAlwaysExact | a callable that is called from its own body returns a wrong number of values (`request.hpp:31`) |
| `CallerAgain.cfg` | ResultsAlwaysInOrder | a caller invoked from its own Lua function reads its result from the wrong place (`request.hpp:260`) |
| `CallerInOut.cfg` | ResultsAlwaysInOrder | an output that is an input as well is read but not asked for (`request.hpp:375`) |
| `ConvertRaises.cfg` | NeverRaises | a container of objects, or one whose element does not convert, ends in an error of Lua (`utility.hpp:716`) |
| `ClosureRash.cfg`, a risk at a time | StateThere | `outlive`: a `std::function` kept beyond the engine gives its reference back to a closed state (`utility.hpp:591`); `coroutine`: one passed by a coroutine keeps the state of that coroutine, which may be collected before it (`utility.hpp:619`) |
| | FunctorThere | `reset`: one that its own Lua function has replaced raises the error with a captured state that is destroyed (`utility.hpp:628`) |
| | CallsWhole | `finaliser`: a closure called by a finaliser collected with it may have lost its `std::function` (`utility.hpp:678`) |
| `PassingLists.cfg` | ReadsExist | functions inside a container have no nodes, and a call of one asks for them (`policy.hpp:155`) |
| `PassingRash.cfg`, with `-continue` | CastsFit, ConstKept, NoNullReference, ReturnsFit, NoDangling | a default value of another type, or a const one, is cast unchecked (`request.hpp:110`); nil is an empty `std::shared_ptr`, which a reference takes (`utility.hpp:431`); what Lua returns is cast unchecked (`request.hpp:334`); a box of an object returned by value points to the copy in the any (`request.hpp:76`) |

The properties of the passing runs are stated so that they hold around these:
`RootComplete` speaks of the root module, `ArgsInOrder` of callables with at
most a last object, `ReturnsExact` and `ResultsInOrder` of calls that are not
made from within themselves, `ArgumentAlive` of arguments, `RoundTrip` of types
without objects and of strings without a NUL, `ConversionEnds` of types without
objects, `MethodsReached` of methods registered before `bind()`; the runs
`closure` and `passing` have an empty `Rash`. Each says so in its definition or
in its configuration.

### Bounds

- Binding: `MaxBinds = 3` calls of `bind()`: a first one, one that rebinds a
  sub-module, and one that finds the stack the second left. The ranks of the
  names put a class before its base and a sub-module before, between and after
  items of the root module. The theorems have no bound.
- Inheritance: five classes, enough for two paths to one base and a third root.
- Access: four classes are the smallest hierarchy in which the order of the
  search matters: the base that both sides share has a method that one of them
  overrides. `MaxVersion = 2`: a method can be replaced once, which tells an old
  one from a new one; two values do the same for properties.
- Request: `MaxArgs = 2` covers one argument too few, exact and one too many for
  functions of one argument, and one too few for those of two; `MaxDepth = 2`
  is the first depth at which `nb_return_` is shared.
- Caller: `MaxLevels = 3`, so that a caller is invoked from another that was
  invoked from it; `MaxLeft = 2` leftovers below a call.
- Objects: three boxes are two for one object and one for the next; two control
  blocks are one more than an object ever needs.
- Convert: `MaxStack = 12` is above what any conversion of the run needs and
  stops a loop that pushes without end; Lua integers have 4 bits and the narrow
  type 2, so that each value that is out of range occurs. One enum is written as
  such a narrow integer, one as a string.
- Closure: two references and blocks for two functions, so that a reference is
  reused while another is in use; one closure and one variable, with which a
  function can be kept by C++, by Lua and by itself; a second coroutine besides
  the main one; `MaxDepth = 5` is the first depth at which an error that leaves a
  Lua function has two others below to end in.
- Passing: `MaxChanges = 2` policies, which is an input that is turned off and an
  output that is turned on, or a default value with either; `MaxDepth = 3` is a
  C++ function called from the `std::function` that another was given;
  `MaxNesting = 2` reaches the parameters of a `std::function`; one parameter,
  since parameters are converted one after the other and share nothing but the
  stack, which is in Request. One object of each kind: held by nothing, held by
  a `std::shared_ptr`, const.

`CHECK_DEADLOCK FALSE` is set where the program may be done: the last call of
`bind()`, the last call of a program, a closed state. The runs `inheritance` and
`passing` have no such state and check for deadlock.

### Fairness

Weak fairness of the steps *inside* a call only: `WF_vars(BindStep)`,
`WF_vars(SearchStep)`, `WF_vars(Step)` of Convert. These are loops and recursion
of the one thread that runs, which goes on once it has begun. Objects assumes
that `lua_close` calls the finaliser of each table that is left, which Lua
documents. Closure assumes of Lua that its collector runs, calls the finaliser
of what it has found, and that `lua_close` ends: `WF_vars(Collect)`,
`WF_vars(Gc(c))`, `WF_vars(Closed)`. Nothing is assumed of the program: it need
never register, bind, ask, call or close. Request, Caller and Passing state no
liveness: what a C++ body or a Lua function does is the environment's.

## 4. What is proved

All proofs are checked by TLAPS with Z3, Zenon and LS4, for every value of the
constants that the named assumptions of the modules allow.

**Binding** (assumptions `NamesAssumption`, `ItemsAssumption`,
`ProgramAssumption`). The inductive invariant is `AllInv`, the conjunction of
`TypeOK`, `TablesInv` (the table a sub-module works on is on the stack),
`ItemsInv` (filing, links and lookup of each bindable) and `WalkInv` (what the
walk has passed). None of them is inductive alone: popping is type-correct
because of `TablesInv`; a link is filed once because a bound item is never tried
again, which is `ItemsInv`; a walk that achieved nothing has seen every name,
which is `WalkInv`. From it:

| theorem | says |
|---|---|
| `InvariantHolds` | `Spec => []AllInv` |
| `ClassesAreLinked`, `LookupIsExact` | the casts and the lookup are exact in every reachable state |
| `InsideHolds`, `LoopIsSound` | no walk abandons a half-bound sub-module; what the loops maintain |
| `AbortsOnlyInsideHolds`, `ApartNeverAborts` | `bind()` dies only on a class next to its only base in a sub-module; a program without one is safe |
| `ResultIsExact`, `RootIsComplete` | the answer of `bind()` is exact, and it gives up on nothing of the root module that it could bind |
| `BindOnlyAddsHolds` | inside `bind()` nothing bound is lost |
| `BindAdvances` | each step uses up unbound names, or entries ahead of one of the two loops: why `bind()` ends |
| `SymbolsAreRead` | what is bound reads back under its name, and a table of a sub-module has nothing else |
| `StaticsAreInherited` | a class with one base reads on in the table of that base |
| `BindingKeepsPromise` | Binding implements Registry |

`SymbolsAreRead` and `StaticsAreInherited` have a hypothesis, `NoLitterInside`: no
bindable of a sub-module leaves its table when it fails; without it the first is
false (`BindingLitter.cfg`). They follow from a second invariant, `SymbolsInv`,
which says of every state, not only between calls, what the globals and the
tables hold, and that the table on top of the stack is that of the sub-module
being bound. `StaticsAreInherited` combines it with `ItemsInv`: a base that is
known is bound, so its symbol is there to be read.

**Inheritance** (assumptions `ClassesAssumption` and `DerivesAssumption`, which
says that `Derives`, the `std::is_base_of` of the code, is what the declared
bases generate). The inductive invariant `IInv` joins `TypeOK` to `SearchInv`:
the lists have exactly the bound children, consecutive frames are linked by the
entry the outer loop is at, what a frame has passed does not lead to the class
of the object, and what was collected on the way back is a chain from that class
to the innermost frame. From it `TypeCorrect`, `SearchInvHolds`,
`MappingsAreChains` (the assertion of `cast_type_` cannot fail),
`AnswersAreRight` (a cached answer is never made wrong by a class bound later),
and `InheritanceKeepsPromise`: the search implements Kinship. `DepthIsBounded`
says that no class is on the stack of `build_mapping_` twice, and
`SearchAdvances` that no path is searched twice: the end of its recursion rests
on both. `DepthIsBounded` needs no assumption that the declared bases
have no cycle: `DepthInv` has that no class that was bound is below one of its
own bases, since `check_dependency` wants these first.

**Access** (assumptions `AccessAssumption` and `HierarchyAssumption`, which says
that `Derives` is what the declared bases generate and that `Chains` has the
ways down from a class). The inductive invariant `AccessInv` joins to
`AccessTypeOK` what `bind()` fixed (`ClassInv`: a class with a setter is noted,
a class is bound after its ancestors, and what a bound class has is what was
registered, unless the program registers late) and what objects and answers owe
to it (`ObjectInv`: only an object of a bound class without `__newindex` is
written to, and the last answer and the search are about an object of a bound
class). `ObjectsClosed` is not inductive alone: `bind()` could close a class
over an object that was written to before; that an object is written to only
after its class is bound excludes it. `MethodsAreReached` needs a second
invariant, `SearchInv`: the classes that the search has open are a way down the
hierarchy on which nothing is left out, and behind the bases that they have
passed by there is nobody with the name (`WalkInv`); so a hit is the first there
is, and the end of the search means that there is none (`AnswerInv`). From these
`AccessTypes`, `ObjectsStayClosed`, `SettersAreSeen`, `MethodsAreReached`, and
`AccessKeepsPromise`: Access implements Attributes. A declaration of a known
name, a method and `bind()` map to stutters, and so do the steps of a search but
the last; an access to an object of a guarded class maps to a read, a write, a
refusal or a lookup; any other access to `Elsewhere`, or to a change of the
member by the program when it does write one.

**Request** (assumptions `RequestAssumption` and `PlaceAssumption`, which says of
`Place`, the intent, that each parameter that reads is for the next argument).
The inductive invariant `IInv` adds to `TypeOK` and `ReturnsExact` what the stack
of a frame is (`OrderInv`: as long as no object was converted it is what is left
of the arguments, so position 1 is the argument of the next parameter), who was
called again (`AgainInv`) and that the counter of a callable which was not is 0
when its results are about to be counted (`CountInv`). `ArgsInOrder` is not
inductive without `OrderInv`: what was taken so far does not say what comes
next. `ReturnsExact` needs `CountInv`, because `nb_return_` is a member that is
reset at the start of `invoke()` and counted up only after the body, which may
have other callables called. From it `TypeCorrect`, `ArgumentsInOrder`,
`ReturnsAreExact` and `MethodsGetSelf`.

**Caller** (assumption `CallerAssumption`). The inductive invariant `IInv` adds
to the properties where the results are (`ReadInv`: the stack of a level is what
it was before the call, the objects that were read, and the results that are
not, in their order), that the member counter of a caller which was not invoked
again says how many are left (`CountersInv`), and who was invoked again
(`AgainInv`). The distance from the top that the code uses is right because
`ReadInv` and `CountersInv` count the same thing in two ways. From it
`TypeCorrect`, `ResultsAreInOrder`, `LeftIsExact` (a call that succeeds leaves a
slot per object read and no more) and, as an action property, `NothingIsTaken`.

**Objects** (assumption `ObjectsAssumption`). The inductive invariant `IInv`
adds to `TypeOK` that the count of each block is the number of boxes, copies and
calls that keep it, that no object has two blocks, that an object with a block
is alive exactly while something keeps it (`BlocksInv`), and that a call borrows
from the block of its own object (`CallInv`). The counts are cardinalities, so
each action comes with a lemma about what it adds to or takes from the set that
keeps a block. From it `TypeCorrect`, `CountsAreExact`, `ArgumentIsAlive` and
`ObjectsKeepPromise`: Objects implements Ownership. Sharing, casting and
borrowing map to a new owner, `Collect` and the end of a call to the loss of
one, and to the end of the object when it is the last.

**Convert** (assumptions `ConvertAssumption`, on types and widths,
`ValuesAssumption`, that a part of a value is a value and which values are
registered and exact, and `ScriptsAssumption`,
that what a script has are Lua values in tables without a key twice). Three
layers of invariants, each inductive with those before it:

- `Shaped`, of every conversion: what the record of the container at each depth
  has, where its table is on the stack, and for a container that is written how
  high the stack is below the conversion inside it. The type invariant is not
  inductive alone, since `lua_settable` finds the table three places below the
  top, and `lua_remove` takes a table from below others.
- `LaidOut`, of the reading of a value without objects, as long as nothing has
  failed: there is one key on the stack for each container and nothing else, and
  it is one that the table has. So what an element pushed, its own conversion
  has removed.
- `Meaningful(M, v)`: an `M` says of tables of Lua what each is as a list, set or
  map of each type, or that it is refused. It is `Consistent` if what it says of
  a table is what it says of the elements, put together. Then each conversion
  that is over has given what `M` says, and each container under way has what
  `M` says of the pairs up to its key. Any consistent `M` will do: it takes the
  place of the induction over nested tables that the prover cannot do.

| theorem | says |
|---|---|
| `ConvertTypes` | the type invariant, with tables in their places at every depth |
| `StackIsKept` | a conversion without error leaves exactly what it had to |
| `RaisesOnlyAfterFailure` | no error of Lua unless something was refused before, when there is no object in the value |
| `ReadsExactly` | `ReadExact`: each list, set or map of a script is read whole and exactly, or refused |
| `WrittenIsReadBack` | `RoundTrip`: what C++ writes, without a NUL in its strings, is read back as the same value by the same type, containers nested to any depth; with an enumerator that is not registered in it, it is refused |

`MeaningStep` is the lemma of the last: every step keeps `Meaningful`, for
containers nested to any depth; `ReadsExactly` applies it to the meaning of the
containers without containers, which is defined outright (`FlatMeaning`).

- `Denoting(M)`, of the writing of a value without objects: `M` now says for
  which value of which type each table was created. The pairs in a table stand
  for elements of that value, and the items left are the others (`Listed`,
  `Gotten`, `Mapped`); a key and a value on the stack stand for those of the
  first item left. Each step keeps this or adds one table to `M`
  (`DenotingStep`), whatever order the elements of a set or map come in. At
  `ReadBack` nothing is left, so `M` is `Consistent` and is what `Meaningful`
  asks for (`WholeRead`, `RememberedInit`), and `MeaningStep` does the rest.
  That no integer is cut is `Narrowed`, from the sizes in `ConvertAssumption`;
  that no string is, and no two keys become one, is `Exactly`: what is left to
  write of a value without a NUL has none.

**Closure** (assumption `ClosureAssumption`: the risks are those named, and
functions, blocks and closures are different things). The inductive invariant
`IInv` joins `TypeOK`, `BlockInv` and `RefsExact`, which hold of every program,
to the properties that hold of a program that does not take a risk, each under
that condition, and to `ClosedInv`: once the state is closed, C++ has no
`std::function` of Lua left but those that finalisers are about to destroy.
The heart is `ClosuresWhole`: what Lua code, or a function that C++ keeps by its
reference, can get hold of is never found by the collector, which sees the
references as well. `WholeStays` is its lemma: a step reaches no more than could
be reached before it, and does nothing to that. From it

| theorem | holds of programs that |
|---|---|
| `TypeCorrect`, `RefsAreExact` | do anything |
| `ClosuresAreWhole` | call no closure from a finaliser collected with it |
| `StatesAreThere` | drop what they keep before the engine, or the coroutine it came from, is gone |
| `FunctorsAreThere` | do not reset a `std::function` while it runs |
| `CallsAreWhole` | neither call from a finaliser nor once the state closes |

`ClosureRash.cfg` shows for each risk a theorem that is false of programs that
take it.

**Passing** (assumptions `PolicyAssumption`: each type is a tree whose functions
have their parts; `PassingAssumption`: the kinds of objects are different). The
inductive invariant `IInv` says of each any what it may be (`Proper`: a const
object is held as such, a `std::shared_ptr` is one of the program unless a policy
asked for it; `Held`: one of a class holds an object; `Taken`: an argument of a
C++ function fits), of the nodes that those which were made are there, with
default values that fit (`NodesInv`), of the boxes that Lua has that they are
proper (`BoxesInv`), and of the calls that Lua and C++ take turns and that each
is at a function of the type (`TurnsInv`). `ConstKept` is not inductive by
itself: a result that C++ returns as `const T*` is held by an any that may go to
any parameter next, and what keeps it from Lua is how it is held. From it

| theorem | hypothesis |
|---|---|
| `TypeCorrect`, `OwnersAreAsked` | none |
| `ConstIsKept`, `CastsAlwaysFit` | each default value fits its parameter |
| `PoliciesAreThere` | no function is the element of a container |
| `ReferencesAreThere` | no nil is passed for a reference |
| `ReturnsAlwaysFit` | Lua functions return what their callers declare |

`PassingRash.cfg` and `PassingLists.cfg` show that they are false without their
hypotheses. The hypothesis of `ReturnsAlwaysFit` is what the code would have
to check; the theorem says only that nothing else is in the way.

`LoopIsSound`, `BindOnlyAddsHolds`, `BindAdvances`, `SearchAdvances`,
`StaticsAreInherited`, `SearchInvHolds`, `AnswersAreRight`, `DepthIsBounded`,
`ObjectsStayClosed`, `SettersAreSeen`, `MethodsGetSelf`, `LeftIsExact`,
`CountsAreExact`, `StackIsKept`, `RaisesOnlyAfterFailure`, `FunctorsAreThere`,
`CallsAreWhole`, `ReferencesAreThere` and `ReturnsAlwaysFit` say what no run
checks by itself: TLC has checked each of these properties on the instances
above, and the runs keep the ones that are not consequences of another. Each
inductive invariant was checked by TLC as an invariant of its run before it was
proved.

**Only model-checked.** Liveness (`BindReturns`, `SearchEnds`, `ClosedDestroys`,
`ConversionEnds`, `Freed`): fairness and ENABLED are out of the prover's reach.
What is proved of it is that the steps of `bind()` and of a search use something
up (`BindAdvances`, `SearchAdvances`), not that they are taken.
What the recursive function `Keeps` of Closure computes: no theorem is about it.

## 5. What is not modelled, and why

- Floating-point numbers and booleans: they are accepted, removed and refused
  like integers and add no control; rounding is not modelled.
- `instance_of` changes nothing; that it keeps the `type_info` of the first
  engine in a static reference needs a second engine, which no module has.
- Iteration order of `std::set` and `std::map`, and of Lua tables made by
  scripts: any order.
- `const char*` parameters, whose `arg_call` also takes a `std::string`, and
  rvalue references, are not among the forms of Passing.
- A `lua_State` is no kind of Convert: it cannot be written, and to read one takes
  nothing from the stack; as a parameter it is in Request. An empty
  `std::shared_ptr` written to Lua, which becomes nil, is not among its values.
- That the callable whose policies a `std::function` refers to may be destroyed
  before it.
- The setters of a policy are those of a build without assertions, where a
  setting that is not permitted changes nothing.
- `property_readonly` with the default policy cannot be instantiated and has no
  action.
- `cast_to` of a box of a plain pointer: `CastRaw` of Objects models it; no
  property says what becomes of the address it makes.
- `do_file`, `do_string`, `open_lib_`: they run Lua, which is the environment.
- `type_traits.hpp` (compile time), `logger.hpp`, `stack.hpp` and the scoped
  helpers (formatting), the build files.
- `toolsbox` (`any`, `type_uid`) is a git submodule that is not in the
  repository; Lua and `std::shared_ptr` are libraries. They are modelled as the
  code uses them.

## 6. Plan

Done, in this order, the core of the system first: Binding with Registry and
its proofs; Inheritance with Kinship and its proofs; Access with Attributes and
its proofs; Request; Caller; Objects with Ownership; Convert; Closure; Policy and
Passing; enumerators in Convert.

The proofs, done: Binding with Registry, Inheritance with Kinship, Access with
Attributes, Objects with Ownership, Request, Caller, Closure, Passing, Convert.
Every invariant that a run checks is stated by a theorem.

The loops of `bind()` and of `build_mapping_` have their measures as well.

Next, the proofs: what a collection of Closure uses up, as an action property.

Next, the model:

1. Request composed with Objects: arguments that are held while a body lets Lua
   run, and objects given back by value.
2. A second engine, and `instance_of`.
