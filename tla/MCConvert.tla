-------------------------------- MODULE MCConvert --------------------------------
(***************************************************************************)
(* An integer type narrower than Lua's and an unsigned one as wide, enums  *)
(* of which not every value is registered; lists, a set and maps of them,  *)
(* a list and a map of lists; tables of Lua that fit them or not.          *)
(***************************************************************************)
EXTENDS Convert, TLC

CONSTANTS
  byte, word, colour, suit, string, unknown, object,
  bytes, words, colours, suits, ages, names, lists, index, secrets, people

MCKind ==
  [t \in Types |->
    CASE t \in {byte, word} -> "integer"
      [] t \in {colour, suit} -> "enum"
      [] t = string -> "string"
      [] t = unknown -> "unknown"
      [] t = object -> "object"
      [] t = words -> "set"
      [] t \in {ages, names, index} -> "map"
      [] OTHER -> "list"]

MCKey == [t \in Types |-> CASE t = names -> byte [] t = ages -> string [] OTHER -> string]

MCElem ==
  [t \in Types |->
    CASE t \in {bytes, ages, colour} -> byte
      [] t = colours -> colour
      [] t = suits -> suit
      [] t = words -> word
      [] t \in {names, suit} -> string
      [] t \in {lists, index} -> bytes
      [] t = secrets -> unknown
      [] OTHER -> object]

MCPlain ==
  LET plain[t \in Types] ==
        IF Container(t) THEN plain[Elem[t]] /\ (Kind[t] = "map" => plain[Key[t]])
                        ELSE Kind[t] # "object"
  IN {t \in Types : plain[t]}

MCLeast == [t \in Types |-> IF t = word THEN 0 ELSE -2]
MCSize  == [t \in Types |-> IF t = word THEN 16 ELSE 4]

MCEnumerators == (colour :> {-2, 1}) @@ (suit :> {"a", "1"})

MCLuaLeast == -8

MCText == [n \in -8..7 |-> ToString(n)]

\* a|b and a|c have a NUL after the a.
MCUpToNul ==
  [s \in {"a", "b", "a|b", "a|c"} \cup {ToString(n) : n \in -8..7} |->
     IF s \in {"a|b", "a|c"} THEN "a" ELSE s]

Int1(n) == <<"integer", n>>
Str(s) == <<"string", s>>
List(q) == <<"list", [i \in 1..Len(q) |-> Int1(q[i])]>>
UpTo2(S) == {<< >>} \cup {<<x>> : x \in S} \cup (S \X S)
ByteLists == {List(q) : q \in UpTo2(-2..1)}

Scalars ==
  {<<byte, Int1(n)>> : n \in -2..1}
    \cup {<<word, Int1(n)>> : n \in {0, 7, 8, 15}}
    \cup {<<string, Str(s)>> : s \in {"a", "b", "a|b", "a|c"}}
    \cup {<<colour, <<"enum", n>> >> : n \in -2..1}
    \cup {<<suit, <<"enum", s>> >> : s \in {"a", "b"}}
    \cup {<<unknown, <<"object", "o">> >>}

MCValues ==
  Scalars
    \cup {<<bytes, x>> : x \in ByteLists}
    \cup {<<words, <<"set", {Int1(n) : n \in s}>>>> : s \in SUBSET {0, 7, 8, 15}}
    \cup {<<ages, <<"map", {<<Str("a"), Int1(m)>>, <<Str(s), Int1(n)>>}>>>> : m, n \in {-2, 1}, s \in {"b", "a|b"}}
    \cup {<<ages, <<"map", {<<Str("a|b"), Int1(-2)>>, <<Str("a|c"), Int1(1)>>}>>>>}
    \cup {<<names, <<"map", {<<Int1(k), Str("a")>> : k \in s}>>>> : s \in SUBSET (-1..1)}
    \cup {<<lists, <<"list", <<x, y>>>>>> : x, y \in ByteLists}
    \cup {<<index, <<"map", {<<Str("a"), x>>, <<Str("b"), y>>}>>>> : x, y \in ByteLists}
    \cup {<<colours, <<"list", <<<<"enum", m>>, <<"enum", n>> >> >> >> : m, n \in -2..1}
    \cup {<<suits, <<"list", << <<"enum", s>> >> >> >> : s \in {"a", "b"}}
    \cup {<<secrets, <<"list", << <<"object", "o">> >>>>>>}

\* No value of the run has an enumerator deeper than in its elements.
MCRegistered ==
  {vt \in MCValues :
     \A p \in {vt} \cup Parts(vt[1], vt[2]) :
       Kind[p[1]] = "enum" => p[2][2] \in Enumerators[p[1]]}

\* Nor a string.
MCExact ==
  {vt \in MCValues :
     \A p \in {vt} \cup Parts(vt[1], vt[2]) :
       "string" \in {Kind[p[1]], IF Kind[p[1]] = "enum" THEN Kind[Elem[p[1]]] ELSE ""} =>
         MCUpToNul[p[2][2]] = p[2][2]}

\* Tables that a script makes: of integers, strings and, last, a table.
Pairs1 ==
  {<<k, v>> : k \in {Int1(1), Int1(-3), Str("a"), Str("a|b")},
              v \in {Int1(1), Int1(3), Int1(-3), Str("a"), <<"table", 2>>}}

Tables ==
  {q \in {<< >>} \cup {<<p>> : p \in Pairs1} \cup (Pairs1 \X Pairs1) :
     Len(q) = 2 => q[1][1] # q[2][1]}

Inner == << <<Int1(1), Int1(2)>> >>

MCScripts ==
  {<< <<q, Inner>>, v, t >> : q \in Tables, v \in {<<"table", 1>>},
                             t \in {bytes, colours, suits, words, ages, names, lists, index}}
    \cup {<< <<Inner>>, Str("a"), bytes >>, << << >>, <<Nil>>, object >>, << << >>, <<Nil>>, bytes >>}
    \cup {<< << << <<Int1(1), <<"object", "o">> >> >> >>, <<"table", 1>>, people >>}
================================================================================
