--------------------------------- MODULE Policy ---------------------------------
(***************************************************************************)
(* The tree of policies of a callable: a node for the result, "0", and one *)
(* for each parameter, with nodes below it if it is a std::function, and   *)
(* those that the program asks for with get_attr().  A node says whether   *)
(* the parameter is read from Lua, written back, has a default value, ...  *)
(*                                                                         *)
(* A type is a tree: of a function the result and the parameters are below *)
(* it, of a list the element.  A path is the list of the names from the    *)
(* root to a node, and a type says what is at each of its paths.           *)
(***************************************************************************)
EXTENDS Naturals, Sequences, FiniteSets

CONSTANTS
  Types,       \* what the callable may be
  MaxNesting   \* the length of the longest path

Names == <<"0", "1", "2">>

PathNames == {"0", "1", "2", "data"}

Paths == UNION {[1..n -> PathNames] : n \in 0..MaxNesting}

\* T, T&, const T&, T*, const T*, std::shared_ptr<T> and std::shared_ptr<T>&,
\* where T is a class, an incomplete one or a number.
Forms == {"value", "ref", "constref", "ptr", "constptr", "shared", "sharedref", "void"}

Classes == {"object", "incomplete", "number"}

\* What is at a path; a function has a result and so many parameters.
Leaf(form, class) == [form |-> form, class |-> class, arity |-> 0]

Function(arity) == [form |-> "function", class |-> "none", arity |-> arity]

List == [form |-> "list", class |-> "none", arity |-> 0]

IsType(t) ==
  /\ DOMAIN t \subseteq Paths /\ <<>> \in DOMAIN t /\ t[<<>>].form = "function"
  /\ \A p \in DOMAIN t :
       \/ t[p] = Leaf("void", "none") \/ t[p] = List
       \/ t[p] \in {Leaf(f, c) : f \in Forms \ {"void"}, c \in Classes}
       \/ \E n \in 0..(Len(Names) - 1) :
            t[p] = Function(n) /\ \A i \in 0..n : Append(p, Names[i + 1]) \in DOMAIN t

ASSUME PolicyAssumption == MaxNesting \in Nat /\ \A t \in Types : IsType(t)

VARIABLES
  type,        \* the type of the callable
  nodes        \* the parameter_policy of each node that there is

policyVars == <<type, nodes>>

Last(p) == p[Len(p)]

NoType == Leaf("none", "none")

\* What the path p leads to in the type of the callable.
TypeAt(p) == IF p \in DOMAIN type THEN type[p] ELSE NoType

\* Nothing that a default value could be.
Empty == [how |-> "empty", of |-> <<>>]

\* in_out_permission: only a pointer or a reference to what is not const can
\* be written back.  An attribute is taken for a void*.
Parameter(form) ==
  [mayIn |-> form # "void",
   mayOut |-> form \in {"ref", "ptr", "sharedref", "attribute"},
   in |-> form # "void", out |-> FALSE,
   discard |-> FALSE, owner |-> FALSE, default |-> Empty]

\* Slip: only the parameters of the callable itself have a node.
Shallow(t) == [p \in {q \in DOMAIN t : Len(q) = 1} |-> Parameter(t[p].form)]

\* All that p is a part of are functions.
Deep(t, p) == \A n \in 0..(Len(p) - 1) : t[SubSeq(p, 1, n)].form = "function"

\* make_arg_policies: a node for the result and each parameter, and below
\* those that are functions themselves; none below a container.
Made(t) == [p \in {q \in DOMAIN t \ {<<>>} : Deep(t, q)} |-> Parameter(t[p].form)]

------------------------------------------------------------------------------
(***************************************************************************)
(* What the program may do to a node while it registers the callable.      *)
(***************************************************************************)

\* Slip: whether the parameter can be written back is not asked.
OutputAnyway(p, b) == nodes' = [nodes EXCEPT ![p].out = b]

\* Without the permission nothing changes, where assertions are left out.
Input(p, b)  == nodes[p].mayIn /\ nodes' = [nodes EXCEPT ![p].in = b]
Output(p, b) == nodes[p].mayOut /\ nodes' = [nodes EXCEPT ![p].out = b]

SetDefaultValue(p, x) == nodes' = [nodes EXCEPT ![p].default = x]
DiscardReturn(p)      == Last(p) = "0" /\ nodes' = [nodes EXCEPT ![p].discard = TRUE]
DelegateOwner(p)      == nodes' = [nodes EXCEPT ![p].owner = TRUE]

\* get_attr(): the node n below p, made if there is none.
GetAttr(p, n) ==
  /\ Append(p, n) \in Paths \ DOMAIN nodes
  /\ nodes' = [q \in DOMAIN nodes \cup {Append(p, n)} |->
                 IF q \in DOMAIN nodes THEN nodes[q] ELSE Parameter("attribute")]

PolicyInit == type \in Types /\ nodes = Made(type)
================================================================================
