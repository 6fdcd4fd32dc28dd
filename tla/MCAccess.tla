-------------------------------- MODULE MCAccess --------------------------------
(***************************************************************************)
(* A diamond of classes, the bottom of which asks two bases in turn, and   *)
(* an object of the bottom.  The first base overrides a method of the top, *)
(* whose name is that of a property of the second; the second has a method *)
(* with the name of a property of the bottom.                              *)
(***************************************************************************)
EXTENDS Access, TLC

CONSTANTS Top, Left, Right, Bottom, d, x, m

MCBases ==
  Top :> << >> @@ Left :> <<Top>> @@ Right :> <<Top>> @@ Bottom :> <<Left, Right>>
MCDerives ==
  [c \in Classes |-> [t \in Classes |->
     c = t \/ c = Bottom \/ (t = Top /\ c \in {Left, Right})]]
MCChains ==
  {<<c>> : c \in Classes} \cup {<<c, Top>> : c \in {Left, Right}}
  \cup {<<Bottom, c>> : c \in {Left, Right}} \cup {<<Bottom, c, Top>> : c \in {Left, Right}}

\* A class and one that derives from it.
TwoBases == Top :> << >> @@ Right :> <<Top>>
TwoChains == {<<Top>>, <<Right>>, <<Right, Top>>}

BottomObject == d :> Bottom
RightObject == d :> Right

\* One class has something here, the others nothing.
Only(c, here) == [k \in Classes |-> IF k = c THEN here ELSE {}]

\* A property of each kind, a name declared twice, a property and a method
\* of one name.
MCOffers ==
  [Only(Bottom, {<<x, "both">>, <<x, "readonly">>, <<x, "writeonly with policy">>}) EXCEPT
     ![Right] = {<<m, "readonly">>}]
MCMethods == Top :> {m} @@ Left :> {m} @@ Right :> {x} @@ Bottom :> {}

\* Registrations after bind(), with one object.
LateOffers == Only(Right, {<<x, "both">>, <<x, "readonly">>, <<m, "readonly">>})
LateMethods == [Only(Top, {m}) EXCEPT ![Right] = {x}]

\* A class with one read-only property.
ReadOnlyOffers == Only(Right, {<<x, "readonly">>})

\* A class with one write-only property, registered without a policy.
WriteOnlyOffers == Only(Right, {<<x, "writeonly">>})

NoMethods == Only(Top, {})
================================================================================
