------------------------------- MODULE MCBinding -------------------------------
(***************************************************************************)
(* Small programs for Binding.  Names are ranked so that every walk order  *)
(* that matters occurs: a child class that sorts before its father, a      *)
(* sub-module before, between and after the bindables of the root module.  *)
(***************************************************************************)
EXTENDS Binding, TLC

CONSTANTS Father, Child, Again, Size, Nephew, Origin, Fct,
          Colour, Sum, Product, Shape, Square, Cousin,      \* bindables
          M, N,                                             \* sub-modules
          TFather, TChild, TSize, TNephew, TColour,
          TShape, TSquare, TCousin, TOther                  \* types

\* A program of the items I: one record for each.
MCItem(module, key, kind, provides, needs, litter) ==
  [module |-> module, key |-> key, kind |-> kind,
   provides |-> provides, needs |-> needs, litter |-> litter]

MCCatalogue ==
     Father :> MCItem(Root, 5, "class", TFather, {}, FALSE)
  @@ Child  :> MCItem(Root, 1, "class", TChild, {TFather}, FALSE)
  @@ Again  :> MCItem(Root, 5, "class", TFather, {}, FALSE)
  @@ Size   :> MCItem(Root, 7, "enum", TSize, {TOther}, TRUE)
  @@ Nephew :> MCItem(M, 1, "class", TNephew, {TFather, TChild}, FALSE)
  @@ Origin :> MCItem(M, 2, "value", NoType, {TNephew}, FALSE)
  @@ Fct    :> MCItem(N, 1, "value", NoType, {}, FALSE)
  @@ Colour :> MCItem(M, 6, "enum", TColour, {TOther}, TRUE)
  @@ Sum    :> MCItem(M, 4, "value", NoType, {}, FALSE)
  @@ Shape  :> MCItem(M, 7, "class", TShape, {}, FALSE)
  @@ Square :> MCItem(M, 8, "class", TSquare, {TShape}, FALSE)
  @@ Cousin :> MCItem(Root, 2, "class", TCousin, {TShape}, FALSE)
  @@ Product :> MCItem(M, 5, "value", NoType, {}, FALSE)

MCModule   == [i \in Items |-> MCCatalogue[i].module]
MCKey      == [e \in Entries |->
                 IF e = M THEN 3 ELSE IF e = N THEN 6 ELSE MCCatalogue[e].key]
MCKind     == [i \in Items |-> MCCatalogue[i].kind]
MCProvides == [i \in Items |-> MCCatalogue[i].provides]
MCNeeds    == [i \in Items |-> MCCatalogue[i].needs]
MCLitter   == [i \in Items |-> MCCatalogue[i].litter]

==============================================================================
