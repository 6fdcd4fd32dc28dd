----------------------------- MODULE MCInheritance -----------------------------
(***************************************************************************)
(* A hierarchy with a diamond, a class below it and a class apart:         *)
(*                                                                         *)
(*        Base     Mixin                                                   *)
(*        /  \      /                                                      *)
(*     Left  Right /                                                       *)
(*        \  /    /                                                        *)
(*       Bottom -                                                          *)
(***************************************************************************)
EXTENDS Inheritance, TLC

CONSTANTS Base, Mixin, Left, Right, Bottom

MCNeeds == Base :> {} @@ Mixin :> {} @@ Left :> {Base} @@ Right :> {Base}
           @@ Bottom :> {Left, Right, Mixin}

\* The classes a class is or derives from.
MCAncestors ==
  Base :> {Base} @@ Mixin :> {Mixin} @@ Left :> {Left, Base} @@ Right :> {Right, Base}
  @@ Bottom :> {Bottom, Left, Right, Mixin, Base}

MCDerives == [x \in Classes |-> [t \in Classes |-> t \in MCAncestors[x]]]
================================================================================
