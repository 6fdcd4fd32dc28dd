------------------------------ MODULE ConvertProofs ------------------------------
(***************************************************************************)
(* Proofs about Convert: what is on the stack while containers in          *)
(* containers are converted, what a value that Lua made is read as, and    *)
(* that what C++ wrote is read back as it was.                             *)
(*                                                                         *)
(* Shaped and LaidOut say what there is of each container on the stack and *)
(* in the record of it, Meaningful what has been read in the terms of what *)
(* each value of Lua means to each type, which no step can change, and     *)
(* Denoting what has been written in the same terms.                       *)
(***************************************************************************)
EXTENDS Convert, FiniteSetTheorems, SequenceTheorems, TLAPS

(***************************************************************************)
(* Sequences of whatever elements, and what the operators on them give.    *)
(***************************************************************************)

Elements(s) == {s[i] : i \in 1..Len(s)}

LEMMA SeqIn ==
  ASSUME NEW s, IsSeq(s), NEW S, Elements(s) \subseteq S
  PROVE  s \in Seq(S)
<1> DEFINE n == Len(s)
<1>1. n \in Nat /\ s = [i \in 1..n |-> s[i]]
  BY DEF IsSeq
<1>2. \A i \in 1..n : s[i] \in S
  BY DEF Elements
<1> HIDE DEF n
<1>3. s \in [1..n -> S]
  BY <1>1, <1>2
<1> QED
  BY <1>1, <1>3, SeqDef

LEMMA SeqIs ==
  ASSUME NEW S, NEW s \in Seq(S)
  PROVE  IsSeq(s)
<1>1. Len(s) \in Nat /\ DOMAIN s = 1..Len(s)
  OBVIOUS
<1>2. s \in [1..Len(s) -> S]
  OBVIOUS
<1> QED
  BY <1>1, <1>2 DEF IsSeq

LEMMA EmptyIs == IsSeq(<< >>) /\ Len(<< >>) = 0
  BY SeqIs, EmptySeq DEF IsSeq

LEMMA AppendSeq ==
  ASSUME NEW s, IsSeq(s), NEW e
  PROVE  /\ IsSeq(Append(s, e)) /\ Len(Append(s, e)) = Len(s) + 1
         /\ \A i \in 1..Len(s) : Append(s, e)[i] = s[i]
         /\ Append(s, e)[Len(s) + 1] = e
<1> DEFINE S == Elements(s) \cup {e}
<1>0. Elements(s) \subseteq S /\ e \in S
  OBVIOUS
<1> HIDE DEF S
<1>1. s \in Seq(S) /\ e \in S
  BY <1>0, SeqIn
<1>2. Append(s, e) \in Seq(S)
  BY <1>1
<1>3. IsSeq(Append(s, e))
  BY <1>2, SeqIs
<1> QED
  BY <1>1, <1>3

LEMMA CutSeq ==
  ASSUME NEW s, IsSeq(s), NEW a \in Nat \ {0}, NEW b \in Nat, a <= b + 1, b <= Len(s)
  PROVE  /\ IsSeq(SubSeq(s, a, b)) /\ Len(SubSeq(s, a, b)) = b - a + 1
         /\ \A i \in 1..(b - a + 1) : SubSeq(s, a, b)[i] = s[a + i - 1]
<1> DEFINE S == Elements(s)
<1>0. Elements(s) \subseteq S
  OBVIOUS
<1> HIDE DEF S
<1>1. s \in Seq(S)
  BY <1>0, SeqIn
<1>2. /\ SubSeq(s, a, b) \in Seq(S)
      /\ Len(SubSeq(s, a, b)) = b - a + 1
      /\ \A i \in 1..(b - a + 1) : SubSeq(s, a, b)[i] = s[a + i - 1]
  <2>1. CASE a <= b
    BY <1>1, <2>1
  <2>2. CASE a = b + 1
    BY <1>1, <2>2
  <2> QED
    BY <2>1, <2>2
<1> QED
  BY <1>2, SeqIs

LEMMA JoinSeq ==
  ASSUME NEW s, IsSeq(s), NEW r, IsSeq(r)
  PROVE  /\ IsSeq(s \o r) /\ Len(s \o r) = Len(s) + Len(r)
         /\ \A i \in 1..Len(s) : (s \o r)[i] = s[i]
         /\ \A i \in 1..Len(r) : (s \o r)[Len(s) + i] = r[i]
<1> DEFINE S == Elements(s) \cup Elements(r)
<1>0. Elements(s) \subseteq S /\ Elements(r) \subseteq S
  OBVIOUS
<1> HIDE DEF S
<1>1. s \in Seq(S) /\ r \in Seq(S)
  BY <1>0, SeqIn
<1>2. s \o r \in Seq(S)
  BY <1>1
<1>3. IsSeq(s \o r)
  BY <1>2, SeqIs
<1>4. /\ Len(s \o r) = Len(s) + Len(r)
      /\ \A i \in 1..(Len(s) + Len(r)) : (s \o r)[i] = IF i <= Len(s) THEN s[i] ELSE r[i - Len(s)]
  BY <1>1, ConcatProperties
<1>5. Len(s) \in Nat /\ Len(r) \in Nat
  BY DEF IsSeq
<1> DEFINE m == Len(s)  n == Len(r)
<1>6. /\ \A i \in 1..m : (s \o r)[i] = s[i]
      /\ \A i \in 1..n : (s \o r)[m + i] = r[i]
  <2>1. /\ m \in Nat /\ n \in Nat
        /\ \A i \in 1..(m + n) : (s \o r)[i] = IF i <= m THEN s[i] ELSE r[i - m]
    BY <1>4, <1>5
  <2> HIDE DEF m, n
  <2>2. ASSUME NEW i \in 1..m
        PROVE  (s \o r)[i] = s[i]
    <3>1. i \in 1..(m + n) /\ i <= m
      BY <2>1
    <3> QED
      BY <2>1, <3>1
  <2>3. ASSUME NEW i \in 1..n
        PROVE  (s \o r)[m + i] = r[i]
    <3>1. m + i \in 1..(m + n) /\ ~(m + i <= m) /\ (m + i) - m = i
      BY <2>1
    <3> QED
      BY <2>1, <3>1
  <2> QED
    BY <2>2, <2>3
<1> QED
  BY <1>3, <1>4, <1>6

LEMMA RemoveSeq ==
  ASSUME NEW s, IsSeq(s), NEW k \in 1..Len(s)
  PROVE  /\ IsSeq(RemoveAt(s, k)) /\ Len(RemoveAt(s, k)) = Len(s) - 1
         /\ \A i \in 1..(k - 1) : RemoveAt(s, k)[i] = s[i]
         /\ \A i \in k..(Len(s) - 1) : RemoveAt(s, k)[i] = s[i + 1]
<1> DEFINE n == Len(s)  p == SubSeq(s, 1, k - 1)  q == SubSeq(s, k + 1, n)
<1>0. n \in Nat /\ k \in 1..n /\ n = Len(s)
  BY DEF IsSeq
<1> HIDE DEF n
<1>1. /\ IsSeq(p) /\ Len(p) = k - 1
      /\ \A i \in 1..(k - 1) : p[i] = s[i]
  <2>1. 1 \in Nat \ {0} /\ k - 1 \in Nat /\ 1 <= (k - 1) + 1 /\ k - 1 <= Len(s)
    BY <1>0
  <2>2. /\ IsSeq(p) /\ Len(p) = (k - 1) - 1 + 1
        /\ \A i \in 1..((k - 1) - 1 + 1) : p[i] = s[1 + i - 1]
    BY <2>1, CutSeq
  <2> HIDE DEF p
  <2> QED
    BY <1>0, <2>2
<1>2. /\ IsSeq(q) /\ Len(q) = n - k
      /\ \A i \in 1..(n - k) : q[i] = s[k + i]
  <2>1. k + 1 \in Nat \ {0} /\ n \in Nat /\ k + 1 <= n + 1 /\ n <= Len(s)
    BY <1>0
  <2>2. /\ IsSeq(q) /\ Len(q) = n - (k + 1) + 1
        /\ \A i \in 1..(n - (k + 1) + 1) : q[i] = s[(k + 1) + i - 1]
    BY <2>1, CutSeq
  <2> HIDE DEF q
  <2>3. n - (k + 1) + 1 = n - k /\ \A i \in 1..(n - k) : (k + 1) + i - 1 = k + i
    BY <1>0
  <2> QED
    BY <2>2, <2>3
<1>3. RemoveAt(s, k) = p \o q
  BY <1>0 DEF RemoveAt
<1> HIDE DEF p, q
<1>4. /\ IsSeq(p \o q) /\ Len(p \o q) = Len(p) + Len(q)
      /\ \A i \in 1..Len(p) : (p \o q)[i] = p[i]
      /\ \A i \in 1..Len(q) : (p \o q)[Len(p) + i] = q[i]
  BY <1>1, <1>2, JoinSeq
<1>5. \A i \in 1..(k - 1) : (p \o q)[i] = s[i]
  BY <1>1, <1>4
<1>6. \A i \in k..(n - 1) : (p \o q)[i] = s[i + 1]
  <2> TAKE i \in k..(n - 1)
  <2>1. i - k + 1 \in 1..(n - k) /\ (k - 1) + (i - k + 1) = i /\ k + (i - k + 1) = i + 1
    BY <1>0
  <2>2. (p \o q)[(k - 1) + (i - k + 1)] = q[i - k + 1]
    BY <2>1, <1>1, <1>2, <1>4
  <2> QED
    BY <2>1, <2>2, <1>2
<1>7. Len(p \o q) = n - 1
  BY <1>0, <1>1, <1>2, <1>4
<1> QED
  BY <1>0, <1>3, <1>4, <1>5, <1>6, <1>7

LEMMA InsertSeq ==
  ASSUME NEW s, IsSeq(s), NEW k \in 1..(Len(s) + 1), NEW e
  PROVE  /\ IsSeq(InsertAt(s, k, e)) /\ Len(InsertAt(s, k, e)) = Len(s) + 1
         /\ \A i \in 1..(k - 1) : InsertAt(s, k, e)[i] = s[i]
         /\ InsertAt(s, k, e)[k] = e
         /\ \A i \in (k + 1)..(Len(s) + 1) : InsertAt(s, k, e)[i] = s[i - 1]
<1> DEFINE n == Len(s)  p == SubSeq(s, 1, k - 1)  q == SubSeq(s, k, n)  m == <<e>>
<1>0. n \in Nat /\ k \in 1..(n + 1) /\ n = Len(s)
  BY DEF IsSeq
<1>m. IsSeq(m) /\ Len(m) = 1 /\ m[1] = e
  <2>1. m \in Seq({e})
    OBVIOUS
  <2> QED
    BY <2>1, SeqIs
<1> HIDE DEF n, m
<1>1. /\ IsSeq(p) /\ Len(p) = k - 1
      /\ \A i \in 1..(k - 1) : p[i] = s[i]
  <2>1. 1 \in Nat \ {0} /\ k - 1 \in Nat /\ 1 <= (k - 1) + 1 /\ k - 1 <= Len(s)
    BY <1>0
  <2>2. /\ IsSeq(p) /\ Len(p) = (k - 1) - 1 + 1
        /\ \A i \in 1..((k - 1) - 1 + 1) : p[i] = s[1 + i - 1]
    BY <2>1, CutSeq
  <2> HIDE DEF p
  <2> QED
    BY <1>0, <2>2
<1>2. /\ IsSeq(q) /\ Len(q) = n - k + 1
      /\ \A i \in 1..(n - k + 1) : q[i] = s[k + i - 1]
  <2>1. k \in Nat \ {0} /\ n \in Nat /\ k <= n + 1 /\ n <= Len(s)
    BY <1>0
  <2> QED
    BY <2>1, CutSeq
<1>3. InsertAt(s, k, e) = p \o m \o q
  BY <1>0 DEF InsertAt, m
<1> HIDE DEF p, q
<1> DEFINE a == p \o m
<1>4. /\ IsSeq(a) /\ Len(a) = k
      /\ \A i \in 1..(k - 1) : a[i] = s[i]
      /\ a[k] = e
  <2>1. /\ IsSeq(a) /\ Len(a) = Len(p) + Len(m)
        /\ \A i \in 1..Len(p) : a[i] = p[i]
        /\ \A i \in 1..Len(m) : a[Len(p) + i] = m[i]
    <3>1. IsSeq(p) /\ IsSeq(m)
      BY <1>1, <1>m
    <3> HIDE DEF a
    <3>2. /\ IsSeq(p \o m) /\ Len(p \o m) = Len(p) + Len(m)
          /\ \A i \in 1..Len(p) : (p \o m)[i] = p[i]
          /\ \A i \in 1..Len(m) : (p \o m)[Len(p) + i] = m[i]
      BY <3>1, JoinSeq
    <3> QED
      BY <3>2, Zenon DEF a
  <2> HIDE DEF a
  <2>2. (k - 1) + 1 = k /\ k - 1 \in Nat
    BY <1>0
  <2>3. a[(k - 1) + 1] = m[1]
    BY <2>1, <1>1, <1>m
  <2> QED
    BY <2>1, <2>2, <2>3, <1>1, <1>m
<1> HIDE DEF a
<1>5. /\ IsSeq(a \o q) /\ Len(a \o q) = Len(a) + Len(q)
      /\ \A i \in 1..Len(a) : (a \o q)[i] = a[i]
      /\ \A i \in 1..Len(q) : (a \o q)[Len(a) + i] = q[i]
  <2>1. IsSeq(a) /\ IsSeq(q)
    BY <1>4, <1>2
  <2> QED
    BY <2>1, JoinSeq
<1>6. \A i \in 1..(k - 1) : (a \o q)[i] = s[i]
  <2> TAKE i \in 1..(k - 1)
  <2>1. i \in 1..k
    BY <1>0
  <2> QED
    BY <2>1, <1>4, <1>5
<1>7. (a \o q)[k] = e
  <2>1. k \in 1..k
    BY <1>0
  <2> QED
    BY <2>1, <1>4, <1>5
<1>8. \A i \in (k + 1)..(n + 1) : (a \o q)[i] = s[i - 1]
  <2> TAKE i \in (k + 1)..(n + 1)
  <2>1. i - k \in 1..(n - k + 1) /\ k + (i - k) = i /\ k + (i - k) - 1 = i - 1
    BY <1>0
  <2>2. (a \o q)[k + (i - k)] = q[i - k]
    BY <2>1, <1>2, <1>4, <1>5
  <2> QED
    BY <2>1, <2>2, <1>2
<1>9. Len(a \o q) = n + 1
  BY <1>0, <1>2, <1>4, <1>5
<1>10. InsertAt(s, k, e) = a \o q
  BY <1>3 DEF a
<1> QED
  BY <1>0, <1>10, <1>5, <1>6, <1>7, <1>8, <1>9
------------------------------------------------------------------------------
(***************************************************************************)
(* Where things are: the values on the stack and in tables are values of   *)
(* Lua, and each container has its table where the stack says.             *)
(***************************************************************************)

IsTable(h, n) ==
  /\ IsSeq(h)
  /\ \A i \in 1..Len(h) : /\ h[i] = <<h[i][1], h[i][2]>>
                          /\ LuaValueOf(h[i][1], n) /\ LuaValueOf(h[i][2], n)

IsContainer(f) ==
  /\ f = [to |-> f.to, type |-> f.type, at |-> f.at,
          items |-> f.items, held |-> f.held, stage |-> f.stage]
  /\ f.to \in BOOLEAN
  /\ f.type \in Types /\ Container(f.type)
  /\ f.at \in Nat \ {0}
  /\ IsSeq(f.items)
  /\ f.stage \in {"next", "key", "value"}

\* What a container that is written still has to write are values.
IsWritten(f) ==
  /\ f.stage # "next" => f.items # << >>
  /\ \A i \in 1..Len(f.items) :
       /\ f.items[i] = <<f.items[i][1], f.items[i][2]>>
       /\ <<Elem[f.type], f.items[i][2]>> \in Values
       /\ IF Kind[f.type] = "map" THEN <<Key[f.type], f.items[i][1]>> \in Values
                                  ELSE f.items[i][1] \in LuaIntegers

Writing == origin.by = "cpp"

\* The height of the stack below which lies what is converted for f.
Height(f) == f.at + (IF f.stage = "next" THEN 0 ELSE IF f.stage = "key" THEN 1 ELSE 2)

Tagged ==
  /\ pc[1] \in {"to", "from", "back", "end", "raised"}
  /\ error \in BOOLEAN
  /\ origin = [type |-> origin.type, value |-> origin.value, by |-> origin.by]
  /\ origin.by \in {"cpp", "back", "lua"}

Typed ==
  /\ Tagged
  /\ IsSeq(stack) /\ \A i \in 1..Len(stack) : LuaValue(stack[i])
  /\ IsSeq(heap) /\ \A h \in 1..Len(heap) : IsTable(heap[h], Len(heap))
  /\ IsSeq(containers) /\ \A k \in 1..Len(containers) : IsContainer(containers[k])

Directed ==
  /\ pc[1] = "to" => Writing /\ ~error /\ pc[2] \in Types /\ <<pc[2], pc[3]>> \in Values
  /\ pc[1] = "from" => ~Writing /\ pc[2] \in Types
  /\ pc[1] = "raised" => ~Writing
  /\ pc[1] \in {"end", "raised"} => containers = << >>
  /\ \A k \in 1..Len(containers) : containers[k].to = Writing

\* Each container but the innermost waits for a key or a value, and so does
\* the innermost when something is converted for it, or has failed.
Stacked ==
  \A k \in 1..Len(containers) :
    /\ IsWritten(containers[k])
    /\ (k < Len(containers) \/ pc[1] = "to" \/ error) => containers[k].stage # "next"
    /\ \A j \in (k + 1)..Len(containers) : containers[k].at < containers[j].at
    /\ ~error => /\ containers[k].at <= Len(stack)
                 /\ stack[containers[k].at][1] = "table"
                 /\ k < Len(containers) => containers[k + 1].at = Height(containers[k])
                 /\ k = 1 => containers[k].at = 1

Wanted == IF containers = << >> THEN 1 ELSE Height(F)

WritePlaced ==
  Writing => /\ Stacked
             /\ ~error /\ pc[1] = "to" => Len(stack) = Wanted - 1
             /\ ~error /\ pc[1] \in {"back", "end"} => Len(stack) = Wanted

ReadPlaced ==
  ~Writing =>
    /\ \A k \in 1..Len(containers) :
         /\ containers[k].at < Len(stack)
         /\ stack[containers[k].at][1] = "table"
         /\ \A j \in (k + 1)..Len(containers) : containers[k].at + 2 <= containers[j].at
         /\ pc[1] = "from" => containers[k].at + 2 <= pc[3]
    /\ pc[1] = "from" => /\ pc[3] \in 1..Len(stack)
                         /\ containers # << >> => pc[3] = Len(stack)

Shaped == Typed /\ Directed /\ WritePlaced /\ ReadPlaced

------------------------------------------------------------------------------
(***************************************************************************)
(* Integers.                                                               *)
(***************************************************************************)

LEMMA Division ==
  ASSUME NEW a \in Int, NEW m \in Nat \ {0}
  PROVE  /\ a \div m \in Int /\ a % m \in 0..(m - 1)
         /\ a = m * (a \div m) + (a % m)
  OBVIOUS

LEMMA WrapRange ==
  ASSUME NEW n \in Int, NEW l \in Int, NEW m \in Nat \ {0}
  PROVE  Wrap(n, l, m) \in l..(l + m - 1)
<1>1. n - l \in Int
  OBVIOUS
<1>2. (n - l) % m \in 0..(m - 1)
  BY <1>1, Division
<1> QED
  BY <1>2 DEF Wrap

LEMMA Wider ==
  ASSUME NEW v, NEW m \in Nat, NEW n \in Nat, m <= n, LuaValueOf(v, m)
  PROVE  LuaValueOf(v, n)
  BY DEF LuaValueOf

LEMMA PushedIsLua ==
  ASSUME NEW t, NEW x, <<t, x>> \in Values, Kind[t] \in {"integer", "string", "object"}, NEW n
  PROVE  LuaValueOf(Pushed(t, x), n)
<1>1. t \in Types /\ Formed(t, x)
  BY ValuesAssumption
<1>2. CASE Kind[t] = "integer"
  <2>1. x[2] \in Least[t]..(Least[t] + Size[t] - 1)
    BY <1>1, <1>2 DEF Formed
  <2>2. Least[t] \in Int /\ Size[t] \in Nat /\ LuaLeast \in Int /\ LuaSize \in Nat \ {0}
    BY <1>1, <1>2, ConvertAssumption
  <2>3. x[2] \in Int
    BY <2>1, <2>2
  <2>4. ToInteger(x[2]) \in LuaIntegers
    BY <2>2, <2>3, WrapRange DEF ToInteger, LuaIntegers
  <2> QED
    BY <1>2, <2>4 DEF Pushed, LuaValueOf
<1>3. CASE Kind[t] = "string"
  <2>1. Pushed(t, x)[1] = "string"
    BY <1>3 DEF Pushed
  <2> QED
    BY <2>1 DEF LuaValueOf
<1>4. CASE Kind[t] = "object"
  <2>1. x = <<"object", x[2]>>
    BY <1>1, <1>4 DEF Formed
  <2>2. x[1] = "object"
    BY <2>1
  <2>3. Pushed(t, x) = x
    BY <1>4 DEF Pushed
  <2> QED
    BY <2>2, <2>3 DEF LuaValueOf
<1> QED
  BY <1>2, <1>3, <1>4

------------------------------------------------------------------------------
(***************************************************************************)
(* What happens to the containers.                                         *)
(***************************************************************************)

Stages == {"next", "key", "value"}

\* f at stage s, with the items q and the value h held.
At(f, s, q, h) ==
  [to |-> f.to, type |-> f.type, at |-> f.at, items |-> q, held |-> h, stage |-> s]

LEMMA AtLemma ==
  ASSUME NEW f, IsContainer(f), NEW s \in Stages, NEW q, IsSeq(q), NEW h
  PROVE  /\ IsContainer(At(f, s, q, h))
         /\ At(f, s, q, h).to = f.to /\ At(f, s, q, h).type = f.type
         /\ At(f, s, q, h).at = f.at /\ At(f, s, q, h).items = q
         /\ At(f, s, q, h).held = h /\ At(f, s, q, h).stage = s
  BY DEF IsContainer, At, Stages

LEMMA ExceptLemma ==
  ASSUME NEW f, IsContainer(f), NEW s \in Stages, NEW x
  PROVE  /\ [f EXCEPT !.stage = s] = At(f, s, f.items, f.held)
         /\ [[f EXCEPT !.items = x] EXCEPT !.stage = s] = At(f, s, x, f.held)
         /\ [[f EXCEPT !.held = x] EXCEPT !.stage = s] = At(f, s, f.items, x)
<1>1. \A a, b, c, d, e, g, y :
        LET r == [to |-> a, type |-> b, at |-> c, items |-> d, held |-> e, stage |-> g]
        IN  /\ [r EXCEPT !.stage = y] =
                 [to |-> a, type |-> b, at |-> c, items |-> d, held |-> e, stage |-> y]
            /\ [r EXCEPT !.items = y] =
                 [to |-> a, type |-> b, at |-> c, items |-> y, held |-> e, stage |-> g]
            /\ [r EXCEPT !.held = y] =
                 [to |-> a, type |-> b, at |-> c, items |-> d, held |-> y, stage |-> g]
  OBVIOUS
<1>2. f = At(f, f.stage, f.items, f.held)
  BY DEF IsContainer, At
<1>3. \A t, q, h, y : /\ [At(f, t, q, h) EXCEPT !.stage = y] = At(f, y, q, h)
                     /\ [At(f, t, q, h) EXCEPT !.items = y] = At(f, t, y, h)
                     /\ [At(f, t, q, h) EXCEPT !.held = y] = At(f, t, q, y)
  BY <1>1 DEF At
<1>4. /\ [f EXCEPT !.stage = s] = At(f, s, f.items, f.held)
      /\ [f EXCEPT !.items = x] = At(f, f.stage, x, f.held)
      /\ [f EXCEPT !.held = x] = At(f, f.stage, f.items, x)
  BY <1>2, <1>3
<1> DEFINE i == [f EXCEPT !.items = x]  h == [f EXCEPT !.held = x]
<1>5. i = At(f, f.stage, x, f.held) /\ h = At(f, f.stage, f.items, x)
  BY <1>4
<1> HIDE DEF i, h
<1>6. [i EXCEPT !.stage = s] = At(f, s, x, f.held) /\ [h EXCEPT !.stage = s] = At(f, s, f.items, x)
  BY <1>3, <1>5
<1> QED
  BY <1>4, <1>6 DEF i, h

Held(f, x) == [f EXCEPT !.held = x]

LEMMA HeldLemma ==
  ASSUME NEW f, IsContainer(f), NEW x, NEW s
  PROVE  [Held(f, x) EXCEPT !.stage = s] = At(f, s, f.items, x)
<1> DEFINE e == Held(f, x)
<1>0. e = [f EXCEPT !.held = x]
  BY DEF Held
<1> HIDE DEF e
<1>1. /\ e = [to |-> f.to, type |-> f.type, at |-> f.at,
               items |-> f.items, held |-> x, stage |-> f.stage]
  BY <1>0 DEF IsContainer
<1>2. e = At(f, f.stage, f.items, x)
  BY <1>1 DEF At
<1>3. [At(f, f.stage, f.items, x) EXCEPT !.stage = s] = At(f, s, f.items, x)
  BY DEF At
<1>4. [e EXCEPT !.stage = s] = At(f, s, f.items, x)
  BY <1>2, <1>3
<1> QED
  BY <1>4 DEF e

LEMMA Innermost ==
  ASSUME IsSeq(containers), containers # << >>
  PROVE  Len(containers) \in Nat \ {0}
<1>1. containers \in Seq(Elements(containers))
  BY SeqIn
<1> QED
  BY <1>1, EmptySeq

LEMMA OuterSeq ==
  ASSUME IsSeq(containers), containers # << >>
  PROVE  /\ IsSeq(Outer) /\ Len(Outer) = Len(containers) - 1
         /\ \A k \in 1..(Len(containers) - 1) : Outer[k] = containers[k]
<1> DEFINE n == Len(containers)
<1>1. n \in Nat \ {0} /\ n = Len(containers)
  BY Innermost
<1> HIDE DEF n
<1>2. 1 \in Nat \ {0} /\ n - 1 \in Nat /\ 1 <= (n - 1) + 1 /\ n - 1 <= Len(containers)
  BY <1>1
<1> DEFINE o == SubSeq(containers, 1, n - 1)
<1>3. /\ IsSeq(o) /\ Len(o) = (n - 1) - 1 + 1
      /\ \A i \in 1..((n - 1) - 1 + 1) : o[i] = containers[1 + i - 1]
  BY <1>2, CutSeq
<1> HIDE DEF o
<1>4. Len(o) = n - 1 /\ \A i \in 1..(n - 1) : o[i] = containers[i]
  BY <1>1, <1>3
<1> QED
  BY <1>1, <1>3, <1>4 DEF Outer, o

\* The innermost container has become g.
Became(g) ==
  /\ IsSeq(containers') /\ Len(containers') = Len(containers)
  /\ Len(containers) \in Nat \ {0} /\ containers' # << >> /\ containers # << >>
  /\ \A k \in 1..(Len(containers) - 1) : containers'[k] = containers[k]
  /\ containers'[Len(containers)] = g /\ F' = g /\ F = containers[Len(containers)]

LEMMA BecameLemma ==
  ASSUME IsSeq(containers), containers # << >>, NEW g, containers' = Append(Outer, g)
  PROVE  Became(g)
<1> DEFINE n == Len(containers)
<1>1. n \in Nat \ {0} /\ n = Len(containers)
  BY Innermost
<1> HIDE DEF n
<1>2. /\ IsSeq(Outer) /\ Len(Outer) = n - 1
      /\ \A k \in 1..(n - 1) : Outer[k] = containers[k]
  BY <1>1, OuterSeq
<1>3. /\ IsSeq(containers') /\ Len(containers') = Len(Outer) + 1
      /\ \A k \in 1..Len(Outer) : containers'[k] = Outer[k]
      /\ containers'[Len(Outer) + 1] = g
  BY <1>2, AppendSeq
<1>4. Len(containers') = n /\ containers'[n] = g
  BY <1>1, <1>2, <1>3
<1>5. containers' # << >>
  BY <1>1, <1>4, EmptyIs
<1>6. \A k \in 1..(n - 1) : containers'[k] = containers[k]
  BY <1>2, <1>3
<1> QED
  BY <1>1, <1>3, <1>4, <1>5, <1>6 DEF Became, F

\* A container f is opened inside the others.
Opened(f) ==
  /\ IsSeq(containers') /\ Len(containers') = Len(containers) + 1
  /\ Len(containers) \in Nat /\ containers' # << >>
  /\ \A k \in 1..Len(containers) : containers'[k] = containers[k]
  /\ containers'[Len(containers) + 1] = f /\ F' = f
  /\ containers # << >> => Len(containers) > 0 /\ F = containers[Len(containers)]
  /\ containers = << >> => Len(containers) = 0

LEMMA OpenedLemma ==
  ASSUME IsSeq(containers), NEW f, containers' = Append(containers, f)
  PROVE  Opened(f)
<1> DEFINE n == Len(containers)
<1>1. n \in Nat /\ n = Len(containers)
  BY DEF IsSeq
<1> HIDE DEF n
<1>2. /\ IsSeq(containers') /\ Len(containers') = n + 1
      /\ \A k \in 1..n : containers'[k] = containers[k]
      /\ containers'[n + 1] = f
  BY <1>1, AppendSeq
<1>3. containers' # << >>
  BY <1>1, <1>2, EmptyIs
<1>4. containers # << >> => n > 0
  BY <1>1, Innermost
<1>5. containers = << >> => n = 0
  BY <1>1, EmptyIs
<1> QED
  BY <1>1, <1>2, <1>3, <1>4, <1>5 DEF Opened, F

\* The innermost container is closed.
Closed ==
  /\ IsSeq(containers') /\ Len(containers') = Len(containers) - 1
  /\ Len(containers) \in Nat \ {0} /\ F = containers[Len(containers)]
  /\ \A k \in 1..(Len(containers) - 1) : containers'[k] = containers[k]
  /\ containers' # << >> => Len(containers) > 1 /\ F' = containers[Len(containers) - 1]
  /\ containers' = << >> => Len(containers) = 1

LEMMA ClosedLemma ==
  ASSUME IsSeq(containers), containers # << >>, containers' = Outer
  PROVE  Closed
<1> DEFINE n == Len(containers)
<1>1. n \in Nat \ {0} /\ n = Len(containers)
  BY Innermost
<1> HIDE DEF n
<1>2. /\ IsSeq(containers') /\ Len(containers') = n - 1
      /\ \A k \in 1..(n - 1) : containers'[k] = containers[k]
  BY <1>1, OuterSeq
<1>3. containers' = << >> => n = 1
  <2> DEFINE m == Len(containers')
  <2>1. containers' = << >> => m = 0
    BY EmptyIs
  <2>2. m = n - 1
    BY <1>2
  <2> HIDE DEF m
  <2> QED
    BY <1>1, <2>1, <2>2
<1>4. containers' # << >> => n > 1
  <2> SUFFICES ASSUME containers' # << >>, n = 1 PROVE FALSE
    BY <1>1
  <2>1. Len(containers') = 0
    BY <1>2
  <2>2. containers' \in Seq(Elements(containers'))
    BY <1>2, SeqIn
  <2> QED
    BY <2>1, <2>2, EmptySeq
<1>5. containers' # << >> => F' = containers[n - 1]
  <2> SUFFICES ASSUME containers' # << >> PROVE F' = containers[n - 1]
    OBVIOUS
  <2>1. n - 1 \in 1..(n - 1)
    BY <1>1, <1>4
  <2> QED
    BY <2>1, <1>2 DEF F
<1> QED
  BY <1>1, <1>2, <1>3, <1>4, <1>5 DEF Closed, F

------------------------------------------------------------------------------
(***************************************************************************)
(* Things stay in their places: what C++ writes.                           *)
(***************************************************************************)

LEMMA Facts ==
  ASSUME Typed
  PROVE  /\ Len(stack) \in Nat /\ Len(heap) \in Nat /\ Len(containers) \in Nat
         /\ containers # << >> => /\ Len(containers) > 0 /\ F = containers[Len(containers)]
                                  /\ IsContainer(F)
         /\ containers = << >> => Len(containers) = 0
         /\ \A k \in 1..Len(containers) : /\ IsContainer(containers[k])
                                          /\ containers[k].at \in Nat \ {0}
                                          /\ Height(containers[k]) \in Nat \ {0}
         /\ Wanted \in Nat \ {0}
<1>1. Len(stack) \in Nat /\ Len(heap) \in Nat /\ Len(containers) \in Nat
  BY DEF Typed, IsSeq
<1>2. \A k \in 1..Len(containers) : IsContainer(containers[k])
  BY DEF Typed
<1>3. ASSUME NEW f, IsContainer(f)
      PROVE  f.at \in Nat \ {0} /\ Height(f) \in Nat \ {0}
  <2>1. f.at \in Nat \ {0}
    BY <1>3 DEF IsContainer
  <2> QED
    BY <2>1 DEF Height
<1>4. containers # << >> => /\ Len(containers) > 0 /\ F = containers[Len(containers)]
                           /\ IsContainer(F)
  <2> SUFFICES ASSUME containers # << >>
               PROVE  Len(containers) > 0 /\ F = containers[Len(containers)] /\ IsContainer(F)
    OBVIOUS
  <2>1. Len(containers) \in Nat \ {0}
    BY Innermost DEF Typed
  <2>2. Len(containers) \in 1..Len(containers) /\ Len(containers) > 0
    BY <2>1
  <2> QED
    BY <2>2, <1>2 DEF F
<1>5. Wanted \in Nat \ {0}
  BY <1>3, <1>4 DEF Wanted
<1>6. containers = << >> => Len(containers) = 0
  BY EmptyIs
<1> QED
  BY <1>1, <1>2, <1>3, <1>4, <1>5, <1>6

LEMMA TaggedKept ==
  ASSUME Typed, UNCHANGED origin, error' \in BOOLEAN,
         pc'[1] \in {"to", "from", "back", "end", "raised"}
  PROVE  Tagged' /\ Writing' = Writing
  BY DEF Typed, Tagged, Writing

LEMMA ShapedInit == ConvertInit => Shaped
<1> SUFFICES ASSUME ConvertInit PROVE Shaped
  OBVIOUS
<1>1. IsSeq(<< >>) /\ Len(<< >>) = 0
  BY EmptyIs
<1>2. containers = << >> /\ Len(containers) = 0 /\ IsSeq(containers)
  BY <1>1 DEF ConvertInit
<1>3. CASE \E vt \in Values :
             /\ pc = <<"to", vt[1], vt[2]>> /\ stack = << >> /\ heap = << >>
             /\ origin = [type |-> vt[1], value |-> vt[2], by |-> "cpp"]
  <2> PICK vt \in Values :
             /\ pc = <<"to", vt[1], vt[2]>> /\ stack = << >> /\ heap = << >>
             /\ origin = [type |-> vt[1], value |-> vt[2], by |-> "cpp"]
    BY <1>3
  <2>1. vt = <<vt[1], vt[2]>> /\ vt[1] \in Types
    BY ValuesAssumption
  <2>2. Typed
    <3>1. Tagged
      BY DEF ConvertInit, Tagged
    <3>2. IsSeq(stack) /\ IsSeq(heap) /\ Len(stack) = 0 /\ Len(heap) = 0
      BY <1>1
    <3> QED
      BY <1>2, <3>1, <3>2 DEF Typed
  <2>3. Directed
    BY <1>2, <2>1 DEF ConvertInit, Directed, Writing
  <2>4. WritePlaced /\ ReadPlaced
    BY <1>1, <1>2 DEF WritePlaced, ReadPlaced, Stacked, Wanted, Writing
  <2> QED
    BY <2>2, <2>3, <2>4 DEF Shaped
<1>4. CASE \E s \in Scripts :
             /\ pc = <<"from", s[3], 1>> /\ stack = <<s[2]>> /\ heap = s[1]
             /\ origin = [type |-> s[3], value |-> s[2], by |-> "lua"]
  <2> PICK s \in Scripts :
             /\ pc = <<"from", s[3], 1>> /\ stack = <<s[2]>> /\ heap = s[1]
             /\ origin = [type |-> s[3], value |-> s[2], by |-> "lua"]
    BY <1>4
  <2>1. /\ s[3] \in Types /\ LuaValueOf(s[2], Len(s[1])) /\ IsSeq(s[1])
        /\ \A h \in 1..Len(s[1]) : IsTable(s[1][h], Len(s[1]))
    BY ScriptsAssumption DEF IsTable
  <2>2. IsSeq(stack) /\ Len(stack) = 1 /\ stack[1] = s[2]
    <3>1. <<s[2]>> \in Seq({s[2]})
      OBVIOUS
    <3> QED
      BY <3>1, SeqIs
  <2>3. Typed
    <3>1. Tagged
      BY DEF ConvertInit, Tagged
    <3>2. IsSeq(heap) /\ \A h \in 1..Len(heap) : IsTable(heap[h], Len(heap))
      BY <2>1
    <3>3. \A i \in 1..Len(stack) : LuaValueOf(stack[i], Len(heap))
      BY <2>1, <2>2
    <3> QED
      BY <1>2, <2>2, <3>1, <3>2, <3>3 DEF Typed, LuaValue
  <2>4. Directed
    BY <1>2, <2>1 DEF ConvertInit, Directed, Writing
  <2>5. WritePlaced /\ ReadPlaced
    BY <1>1, <1>2, <2>2 DEF WritePlaced, ReadPlaced, Writing
  <2> QED
    BY <2>3, <2>4, <2>5 DEF Shaped
<1> QED
  BY <1>3, <1>4 DEF ConvertInit

\* Nothing below the top of the stack is touched.
LEMMA StackedKept ==
  ASSUME Shaped, Writing, pc[1] = "to", pc'[1] \in {"to", "back"}, error' \in BOOLEAN,
         UNCHANGED <<containers, origin>>, Len(stack') \in Nat, Len(stack) <= Len(stack'),
         \A i \in 1..Len(stack) : stack'[i] = stack[i]
  PROVE  Stacked'
<1>1. Typed /\ Stacked /\ ~error
  BY DEF Shaped, WritePlaced, Directed
<1>2. Len(stack) \in Nat /\ Len(containers) \in Nat
  BY <1>1, Facts
<1> SUFFICES ASSUME NEW k \in 1..Len(containers)
             PROVE  /\ IsWritten(containers[k])
                    /\ containers[k].stage # "next"
                    /\ \A j \in (k + 1)..Len(containers) : containers[k].at < containers[j].at
                    /\ containers[k].at <= Len(stack')
                    /\ stack'[containers[k].at][1] = "table"
                    /\ k < Len(containers) => containers[k + 1].at = Height(containers[k])
                    /\ k = 1 => containers[k].at = 1
  BY DEF Stacked, IsWritten, Height
<1>3. containers[k].at \in Nat \ {0}
  BY <1>1, Facts
<1>4. /\ IsWritten(containers[k])
      /\ containers[k].stage # "next"
      /\ \A j \in (k + 1)..Len(containers) : containers[k].at < containers[j].at
      /\ k < Len(containers) => containers[k + 1].at = Height(containers[k])
      /\ k = 1 => containers[k].at = 1
      /\ containers[k].at <= Len(stack)
      /\ stack[containers[k].at][1] = "table"
  BY <1>1 DEF Stacked
<1>5. containers[k].at <= Len(stack') /\ containers[k].at \in 1..Len(stack)
  BY <1>2, <1>3, <1>4
<1> QED
  BY <1>4, <1>5

LEMMA ToBasicShaped ==
  ASSUME Shaped, ToBasic
  PROVE  Shaped'
<1>1. /\ Writing /\ Writing' /\ <<pc[2], pc[3]>> \in Values /\ pc[1] = "to"
      /\ Kind[pc[2]] \in {"integer", "string", "object"}
  BY DEF Shaped, Directed, ToBasic, Writing
<1>2. /\ stack' = Append(stack, Pushed(pc[2], pc[3])) /\ pc' = <<"back", None>>
      /\ UNCHANGED <<containers, heap, error, rest, origin>>
  BY DEF ToBasic, Back
<1>3. LuaValueOf(Pushed(pc[2], pc[3]), Len(heap))
  BY <1>1, PushedIsLua
<1>4. Typed /\ IsSeq(stack) /\ Len(stack) \in Nat
  BY Facts DEF Shaped, Typed
<1>5. /\ IsSeq(stack') /\ Len(stack') = Len(stack) + 1
      /\ \A i \in 1..Len(stack) : stack'[i] = stack[i]
      /\ stack'[Len(stack) + 1] = Pushed(pc[2], pc[3])
  BY <1>2, <1>4, AppendSeq
<1>6. pc'[1] = "back"
  BY <1>2
<1>7. \A i \in 1..Len(stack') : LuaValueOf(stack'[i], Len(heap))
  <2>1. \A i \in 1..Len(stack) : LuaValueOf(stack[i], Len(heap))
    BY <1>4 DEF Typed, LuaValue
  <2> QED
    BY <2>1, <1>3, <1>4, <1>5
<1>8. Typed'
  <2>1. Tagged'
    BY <1>2, <1>4, <1>6 DEF Typed, Tagged
  <2> QED
    BY <1>2, <1>4, <1>5, <1>7, <2>1 DEF Typed, LuaValue
<1>9. Directed'
  BY <1>1, <1>2, <1>6 DEF Shaped, Directed
<1>10. WritePlaced'
  <2>1. Stacked /\ (~error => Len(stack) = Wanted - 1)
    BY <1>1 DEF Shaped, WritePlaced
  <2>2. Stacked'
    <3>1. error' \in BOOLEAN /\ Len(stack') \in Nat /\ Len(stack) <= Len(stack')
      BY <1>2, <1>4, <1>5 DEF Typed, Tagged
    <3> QED
      BY <3>1, <1>1, <1>2, <1>5, <1>6, StackedKept
  <2>3. Wanted' = Wanted
    BY <1>2 DEF Wanted, Height, F
  <2>4. Wanted \in Nat
    BY <1>4, Facts
  <2>5. ~error => Len(stack') = Wanted
    BY <1>4, <1>5, <2>1, <2>4
  <2> QED
    BY <2>2, <2>3, <2>5, <1>2, <1>6 DEF WritePlaced
<1>11. ReadPlaced'
  BY <1>1 DEF ReadPlaced
<1> QED
  BY <1>8, <1>9, <1>10, <1>11 DEF Shaped

LEMMA ToEnumShaped ==
  ASSUME Shaped, ToEnum
  PROVE  Shaped'
<1>1. /\ Writing /\ ~error /\ <<pc[2], pc[3]>> \in Values /\ pc[1] = "to"
      /\ Kind[pc[2]] = "enum"
  BY DEF Shaped, Directed, ToEnum
<1>2. /\ pc' = <<"to", Elem[pc[2]], <<Kind[Elem[pc[2]]], pc[3][2]>> >>
      /\ UNCHANGED <<containers, stack, heap, error, rest, origin>>
  BY DEF ToEnum
<1>3. <<Elem[pc[2]], <<Kind[Elem[pc[2]]], pc[3][2]>> >> \in Values /\ Elem[pc[2]] \in Types
  <2>1. Parts(pc[2], pc[3]) \subseteq Values /\ pc[2] \in Types
    BY <1>1, ValuesAssumption
  <2>2. <<Elem[pc[2]], <<Kind[Elem[pc[2]]], pc[3][2]>> >> \in Parts(pc[2], pc[3])
    BY <1>1 DEF Parts
  <2> QED
    BY <1>1, <2>1, <2>2, ConvertAssumption
<1>4. Typed
  BY DEF Shaped
<1>5. pc'[1] = "to" /\ Writing' = Writing /\ Typed'
  <2>1. pc'[1] = "to" /\ Tagged' /\ Writing' = Writing
    BY <1>2, <1>4, TaggedKept DEF Typed, Tagged
  <2> QED
    BY <1>2, <1>4, <2>1 DEF Typed, LuaValue
<1>6. Directed'
  <2>1. pc'[2] = Elem[pc[2]] /\ pc'[3] = <<Kind[Elem[pc[2]]], pc[3][2]>>
    BY <1>2
  <2> QED
    BY <1>1, <1>2, <1>3, <1>5, <2>1 DEF Shaped, Directed
<1>7. WritePlaced'
  <2>1. Stacked'
    BY <1>1, <1>2, <1>4, <1>5, StackedKept, Facts DEF Typed, Tagged
  <2>2. Wanted' = Wanted
    BY <1>2 DEF Wanted, Height, F
  <2>3. Len(stack) = Wanted - 1
    BY <1>1 DEF Shaped, WritePlaced
  <2> QED
    BY <1>2, <1>5, <2>1, <2>2, <2>3 DEF WritePlaced
<1>8. ReadPlaced'
  BY <1>1, <1>5 DEF ReadPlaced
<1> QED
  BY <1>5, <1>6, <1>7, <1>8 DEF Shaped

LEMMA ToUnknownShaped ==
  ASSUME Shaped, ToUnknown
  PROVE  Shaped'
<1>1. Writing /\ ~error /\ pc[1] = "to"
  BY DEF Shaped, Directed, ToUnknown
<1>2. /\ pc' = <<"back", None>> /\ error' = TRUE
      /\ UNCHANGED <<containers, stack, heap, rest, origin>>
  BY DEF ToUnknown, Back
<1>3. Typed
  BY DEF Shaped
<1>4. pc'[1] = "back" /\ Writing' = Writing /\ Typed'
  <2>1. pc'[1] = "back" /\ Tagged' /\ Writing' = Writing
    BY <1>2, <1>3, TaggedKept
  <2> QED
    BY <1>2, <1>3, <2>1 DEF Typed, LuaValue
<1>5. Directed'
  BY <1>1, <1>2, <1>4 DEF Shaped, Directed
<1>6. WritePlaced'
  <2>1. Stacked'
    BY <1>1, <1>2, <1>3, <1>4, StackedKept, Facts
  <2> QED
    BY <1>2, <2>1 DEF WritePlaced
<1>7. ReadPlaced'
  BY <1>1, <1>4 DEF ReadPlaced
<1> QED
  BY <1>4, <1>5, <1>6, <1>7 DEF Shaped

\* What a container has to write are values, and the indices integers of Lua.
LEMMA ItemsWritten ==
  ASSUME NEW t, NEW x, <<t, x>> \in Values, Container(t), NEW q \in Items(t, x)
  PROVE  /\ IsSeq(q)
         /\ \A i \in 1..Len(q) :
              /\ q[i] = <<q[i][1], q[i][2]>>
              /\ <<Elem[t], q[i][2]>> \in Values
              /\ IF Kind[t] = "map" THEN <<Key[t], q[i][1]>> \in Values
                                    ELSE q[i][1] \in LuaIntegers
<1>1. Formed(t, x) /\ Parts(t, x) \subseteq Values /\ t \in Types
  BY ValuesAssumption
<1>2. LuaLeast \in Int /\ LuaSize \in Nat \ {0} /\ 1 \in LuaIntegers
  BY ConvertAssumption
<1>3. ASSUME NEW n \in Nat, n > 0 => n \in LuaIntegers, NEW i \in 1..n
      PROVE  i \in LuaIntegers
  BY <1>2, <1>3 DEF LuaIntegers
<1>4. CASE Kind[t] = "list"
  <2> DEFINE n == Len(x[2])
  <2>1. n \in Nat /\ (n > 0 => n \in LuaIntegers)
    BY <1>1, <1>4 DEF Formed, IsSeq
  <2>2. q = [i \in 1..n |-> <<i, x[2][i]>>]
    BY <1>4 DEF Items
  <2>3. \A i \in 1..n : <<Elem[t], x[2][i]>> \in Values
    BY <1>1, <1>4 DEF Parts
  <2> HIDE DEF n
  <2>4. IsSeq(q) /\ Len(q) = n
    <3> DEFINE S == {<<i, x[2][i]>> : i \in 1..n}
    <3>1. q \in [1..n -> S]
      BY <2>2
    <3> HIDE DEF S
    <3>2. q \in Seq(S)
      BY <2>1, <3>1, SeqDef
    <3>3. Len(q) = n
      BY <2>1, <3>1, <3>2
    <3> QED
      BY <3>2, <3>3, SeqIs
  <2>5. \A i \in 1..n : q[i] = <<i, x[2][i]>>
    BY <2>2
  <2> QED
    BY <1>3, <1>4, <2>1, <2>3, <2>4, <2>5
<1>5. CASE Kind[t] = "map"
  <2> DEFINE n == Cardinality(x[2])
  <2>1. n \in Nat /\ \A y \in x[2] : y = <<y[1], y[2]>>
    BY <1>1, <1>5, FS_CardinalityType DEF Formed
  <2>2. q \in [1..n -> x[2]]
    BY <1>5 DEF Items, SetToSeqs
  <2>3. \A y \in x[2] : <<Key[t], y[1]>> \in Values /\ <<Elem[t], y[2]>> \in Values
    BY <1>1, <1>5 DEF Parts
  <2> HIDE DEF n
  <2>4. q \in Seq(x[2])
    BY <2>1, <2>2, SeqDef
  <2>5. IsSeq(q) /\ \A i \in 1..Len(q) : q[i] \in x[2]
    BY <2>4, SeqIs
  <2> QED
    BY <1>5, <2>1, <2>3, <2>5
<1>6. CASE Kind[t] = "set"
  <2> DEFINE n == Cardinality(x[2])
  <2>1. n \in Nat /\ (n > 0 => n \in LuaIntegers)
    BY <1>1, <1>6, FS_CardinalityType DEF Formed
  <2>2. PICK r \in [1..n -> x[2]] : q = [i \in 1..Len(r) |-> <<i, r[i]>>]
    BY <1>6 DEF Items, SetToSeqs
  <2>3. \A y \in x[2] : <<Elem[t], y>> \in Values
    BY <1>1, <1>6 DEF Parts
  <2> HIDE DEF n
  <2>4. Len(r) = n /\ \A i \in 1..n : r[i] \in x[2]
    <3>1. n \in Nat /\ r \in [1..n -> x[2]]
      BY <2>1, <2>2
    <3> QED
      BY ONLY <3>1
  <2>5. IsSeq(q) /\ Len(q) = n
    <3> DEFINE S == {<<i, r[i]>> : i \in 1..n}
    <3>1. q \in [1..n -> S]
      BY <2>2, <2>4
    <3> HIDE DEF S
    <3>2. q \in Seq(S)
      BY <2>1, <3>1, SeqDef
    <3>3. Len(q) = n
      BY <2>1, <3>1, <3>2
    <3> QED
      BY <3>2, <3>3, SeqIs
  <2>6. \A i \in 1..n : q[i] = <<i, r[i]>>
    BY <2>2, <2>4
  <2> QED
    BY <1>3, <1>6, <2>1, <2>3, <2>4, <2>5, <2>6
<1> QED
  BY <1>4, <1>5, <1>6 DEF Container

LEMMA ToOpenShaped ==
  ASSUME Shaped, ToOpen
  PROVE  Shaped'
<1>1. /\ Writing /\ ~error /\ <<pc[2], pc[3]>> \in Values /\ pc[1] = "to"
      /\ Container(pc[2]) /\ pc[2] \in Types
  BY DEF Shaped, Directed, ToOpen
<1>2. PICK q \in Items(pc[2], pc[3]) :
        containers' = Append(containers, [to |-> TRUE, type |-> pc[2], at |-> Len(stack) + 1,
                                          items |-> q, held |-> None, stage |-> "next"])
  BY DEF ToOpen
<1> DEFINE f == [to |-> TRUE, type |-> pc[2], at |-> Len(stack) + 1,
                 items |-> q, held |-> None, stage |-> "next"]
<1>3. /\ heap' = Append(heap, << >>) /\ stack' = Append(stack, <<"table", Len(heap) + 1>>)
      /\ pc' = <<"back", None>> /\ UNCHANGED <<error, rest, origin>>
  BY DEF ToOpen, Back
<1>4. Typed /\ IsSeq(stack) /\ IsSeq(heap) /\ IsSeq(containers) /\ Stacked
  BY <1>1 DEF Shaped, Typed, WritePlaced
<1>5. Len(stack) \in Nat /\ Len(heap) \in Nat /\ Len(containers) \in Nat
  BY <1>4, Facts
<1>6. IsSeq(q) /\ IsWritten(f)
  BY <1>1, ItemsWritten DEF IsWritten
<1>7. IsContainer(f)
  BY <1>1, <1>5, <1>6 DEF IsContainer
<1>8. f.at = Len(stack) + 1 /\ f.stage = "next" /\ f.to = TRUE
  OBVIOUS
<1>9. containers' = Append(containers, f)
  BY <1>2
<1> HIDE DEF f
<1>10. Opened(f)
  BY <1>4, <1>9, OpenedLemma
<1>11. /\ IsSeq(stack') /\ Len(stack') = Len(stack) + 1
       /\ \A i \in 1..Len(stack) : stack'[i] = stack[i]
       /\ stack'[Len(stack) + 1] = <<"table", Len(heap) + 1>>
  BY <1>3, <1>4, AppendSeq
<1>12. /\ IsSeq(heap') /\ Len(heap') = Len(heap) + 1
       /\ \A h \in 1..Len(heap) : heap'[h] = heap[h]
       /\ heap'[Len(heap) + 1] = << >>
  BY <1>3, <1>4, AppendSeq
<1>13. pc'[1] = "back" /\ Writing' = Writing /\ Tagged'
  <2>1. pc'[1] = "back" /\ error' \in BOOLEAN
    BY <1>1, <1>3, <1>4 DEF Typed, Tagged
  <2> QED
    BY <1>3, <1>4, <2>1, TaggedKept
<1>14. Typed'
  <2>1. \A i \in 1..Len(stack') : LuaValueOf(stack'[i], Len(heap'))
    <3> SUFFICES ASSUME NEW i \in 1..Len(stack') PROVE LuaValueOf(stack'[i], Len(heap'))
      OBVIOUS
    <3>1. CASE i = Len(stack) + 1
      <4>1. Len(heap) + 1 \in 1..Len(heap')
        BY <1>5, <1>12
      <4>2. stack'[i][1] = "table" /\ stack'[i][2] = Len(heap) + 1
        BY <1>11, <3>1
      <4> QED
        BY <4>1, <4>2 DEF LuaValueOf
    <3>2. CASE i \in 1..Len(stack)
      <4>1. LuaValueOf(stack[i], Len(heap))
        BY <1>4, <3>2 DEF Typed, LuaValue
      <4>2. Len(heap') \in Nat /\ Len(heap) <= Len(heap')
        BY <1>5, <1>12
      <4> QED
        BY <1>5, <1>11, <3>2, <4>1, <4>2, Wider
    <3> QED
      BY <1>5, <1>11, <3>1, <3>2
  <2>2. \A h \in 1..Len(heap') : IsTable(heap'[h], Len(heap'))
    <3> SUFFICES ASSUME NEW h \in 1..Len(heap') PROVE IsTable(heap'[h], Len(heap'))
      OBVIOUS
    <3>1. CASE h = Len(heap) + 1
      BY <1>12, <3>1, EmptyIs DEF IsTable
    <3>2. CASE h \in 1..Len(heap)
      <4>1. IsTable(heap[h], Len(heap))
        BY <1>4, <3>2 DEF Typed
      <4>2. Len(heap') \in Nat /\ Len(heap) <= Len(heap')
        BY <1>5, <1>12
      <4>3. \A i \in 1..Len(heap[h]) : /\ LuaValueOf(heap[h][i][1], Len(heap'))
                                       /\ LuaValueOf(heap[h][i][2], Len(heap'))
        BY <1>5, <4>1, <4>2, Wider DEF IsTable
      <4> QED
        BY <1>12, <3>2, <4>1, <4>3 DEF IsTable
    <3> QED
      BY <1>5, <1>12, <3>1, <3>2
  <2>3. \A k \in 1..Len(containers') : IsContainer(containers'[k])
    BY <1>4, <1>5, <1>7, <1>10 DEF Typed, Opened
  <2> QED
    BY <1>10, <1>11, <1>12, <1>13, <2>1, <2>2, <2>3 DEF Typed, LuaValue, Opened
<1>15. Directed'
  <2>1. \A k \in 1..Len(containers') : containers'[k].to = Writing
    <3> TAKE k \in 1..Len(containers')
    <3>1. Writing = TRUE
      BY <1>1 DEF Writing
    <3>2. CASE k = Len(containers) + 1
      <4>1. containers'[k] = f
        BY <1>10, <3>2 DEF Opened
      <4> QED
        BY <1>8, <3>1, <4>1
    <3>3. CASE k \in 1..Len(containers)
      <4>1. containers'[k] = containers[k]
        BY <1>10, <3>3 DEF Opened
      <4> QED
        BY <3>3, <4>1 DEF Shaped, Directed
    <3> QED
      BY <1>5, <1>10, <3>2, <3>3 DEF Opened
  <2> QED
    BY <1>13, <2>1 DEF Directed
<1>16. containers # << >> => Len(stack) + 1 = Height(containers[Len(containers)])
  <2>1. Len(stack) = Wanted - 1
    BY <1>1 DEF Shaped, WritePlaced
  <2>2. Wanted \in Nat
    BY <1>4, Facts
  <2>3. containers # << >> => Wanted = Height(containers[Len(containers)])
    BY DEF Wanted, F
  <2> QED
    BY <1>5, <2>1, <2>2, <2>3
<1>17. Stacked'
  <2> SUFFICES ASSUME NEW k \in 1..Len(containers')
               PROVE  /\ IsWritten(containers'[k])
                      /\ k < Len(containers') => containers'[k].stage # "next"
                      /\ \A j \in (k + 1)..Len(containers') : containers'[k].at < containers'[j].at
                      /\ containers'[k].at <= Len(stack')
                      /\ stack'[containers'[k].at][1] = "table"
                      /\ k < Len(containers') => containers'[k + 1].at = Height(containers'[k])
                      /\ k = 1 => containers'[k].at = 1
    <3>1. ~(pc'[1] = "to") /\ ~error'
      BY <1>1, <1>3, <1>13
    <3> QED
      BY <3>1 DEF Stacked, IsWritten, Height
  <2>1. CASE k = Len(containers) + 1
    <3>1. containers'[k] = f /\ k = Len(containers')
      BY <2>1, <1>10 DEF Opened
    <3>2. Len(stack) + 1 <= Len(stack') /\ stack'[Len(stack) + 1][1] = "table"
      BY <1>5, <1>11
    <3>3. k = 1 => containers'[k].at = 1
      <4> SUFFICES ASSUME k = 1 PROVE f.at = 1
        BY <3>1
      <4>1. containers = << >>
        BY <2>1, <1>5, <1>10 DEF Opened
      <4>2. Len(stack) = 1 - 1
        BY <1>1, <4>1 DEF Shaped, WritePlaced, Wanted
      <4> QED
        BY <1>5, <1>8, <4>2
    <3> QED
      BY <1>5, <1>6, <1>8, <1>10, <3>1, <3>2, <3>3 DEF Opened
  <2>2. CASE k \in 1..Len(containers)
    <3>1. containers'[k] = containers[k] /\ containers[k].at \in Nat \ {0}
      BY <1>4, <1>10, <2>2, Facts DEF Opened
    <3>2. /\ IsWritten(containers[k]) /\ containers[k].stage # "next"
          /\ \A j \in (k + 1)..Len(containers) : containers[k].at < containers[j].at
          /\ containers[k].at <= Len(stack) /\ stack[containers[k].at][1] = "table"
          /\ k < Len(containers) => containers[k + 1].at = Height(containers[k])
          /\ k = 1 => containers[k].at = 1
      BY <1>1, <1>4, <2>2 DEF Stacked
    <3>3. containers[k].at \in 1..Len(stack) /\ containers[k].at <= Len(stack')
      BY <1>5, <1>11, <3>1, <3>2
    <3>4. stack'[containers[k].at][1] = "table"
      BY <1>11, <3>2, <3>3
    <3>5. \A j \in (k + 1)..Len(containers') : containers[k].at < containers'[j].at
      <4> TAKE j \in (k + 1)..Len(containers')
      <4>1. CASE j = Len(containers) + 1
        BY <1>5, <1>8, <1>10, <3>3, <4>1 DEF Opened
      <4>2. CASE j \in (k + 1)..Len(containers)
        BY <1>5, <1>10, <2>2, <3>2, <4>2 DEF Opened
      <4> QED
        BY <1>5, <1>10, <2>2, <4>1, <4>2 DEF Opened
    <3>6. k < Len(containers') => containers'[k + 1].at = Height(containers[k])
      <4>1. CASE k = Len(containers)
        <5>1. containers # << >>
          BY <1>10, <2>2, <1>5 DEF Opened
        <5> QED
          BY <1>8, <1>10, <1>16, <4>1, <5>1 DEF Opened
      <4>2. CASE k < Len(containers)
        <5>1. k + 1 \in 1..Len(containers)
          BY <1>5, <2>2, <4>2
        <5> QED
          BY <1>10, <3>2, <4>2, <5>1 DEF Opened
      <4> QED
        BY <1>5, <2>2, <4>1, <4>2
    <3> QED
      BY <3>1, <3>2, <3>3, <3>4, <3>5, <3>6
  <2> QED
    BY <1>5, <1>10, <2>1, <2>2 DEF Opened
<1>18. WritePlaced'
  <2>1. Wanted' = Len(stack')
    <3>1. Height(f) = f.at
      BY <1>5, <1>8 DEF Height
    <3>2. Wanted' = Height(f)
      BY <1>10 DEF Wanted, Opened, Height
    <3> QED
      BY <1>8, <1>11, <3>1, <3>2
  <2> QED
    BY <1>13, <1>17, <2>1 DEF WritePlaced
<1>19. ReadPlaced'
  BY <1>1, <1>13 DEF ReadPlaced
<1> QED
  BY <1>14, <1>15, <1>18, <1>19 DEF Shaped

\* The innermost container goes on as g, and the stack is as it was up to its table.
LEMMA StackedBecame ==
  ASSUME Shaped, Writing, ~error, UNCHANGED <<error, origin>>,
         NEW g, Became(g), g.at = F.at, g.type = F.type, IsWritten(g),
         pc'[1] = "to" => g.stage # "next", pc'[1] \in {"to", "back"},
         Len(stack') \in Nat, F.at <= Len(stack'),
         \A i \in 1..F.at : stack'[i] = stack[i]
  PROVE  Stacked' /\ Wanted' = Height(g)
<1> DEFINE n == Len(containers)
<1>1. n \in Nat \ {0} /\ F = containers[n] /\ Len(containers') = n /\ containers'[n] = g
  BY DEF Became
<1>2. Typed /\ Stacked
  BY DEF Shaped, WritePlaced
<1>3. \A k \in 1..(n - 1) : containers'[k] = containers[k]
  BY DEF Became
<1>4. \A k \in 1..n : /\ containers[k].at \in Nat \ {0}
                      /\ k < n => containers[k].at < F.at
                      /\ containers'[k].at = containers[k].at
  <2> TAKE k \in 1..n
  <2>1. containers[k].at \in Nat \ {0}
    BY <1>2, Facts
  <2>2. k < n => containers[k].at < F.at
    BY <1>1, <1>2 DEF Stacked
  <2>3. containers'[k].at = containers[k].at
    BY <1>1, <1>3
  <2> QED
    BY <2>1, <2>2, <2>3
<1>5. F.at \in Nat \ {0}
  BY <1>1, <1>4
<1>6. Stacked'
  <2> SUFFICES ASSUME NEW k \in 1..n
               PROVE  /\ IsWritten(containers'[k])
                      /\ (k < n \/ pc'[1] = "to") => containers'[k].stage # "next"
                      /\ \A j \in (k + 1)..n : containers'[k].at < containers'[j].at
                      /\ containers'[k].at <= Len(stack')
                      /\ stack'[containers'[k].at][1] = "table"
                      /\ k < n => containers'[k + 1].at = Height(containers'[k])
                      /\ k = 1 => containers'[k].at = 1
    BY <1>1 DEF Stacked, IsWritten, Height
  <2>1. /\ k < n => IsWritten(containers[k]) /\ containers[k].stage # "next"
        /\ \A j \in (k + 1)..n : containers[k].at < containers[j].at
        /\ stack[containers[k].at][1] = "table"
        /\ k < n => containers[k + 1].at = Height(containers[k])
        /\ k = 1 => containers[k].at = 1
    BY <1>1, <1>2 DEF Stacked
  <2>2. containers[k].at \in 1..F.at
    BY <1>1, <1>4, <1>5
  <2>3. \A j \in (k + 1)..n : containers'[k].at < containers'[j].at
    BY <1>1, <1>4, <2>1
  <2>4. containers'[k].at <= Len(stack') /\ stack'[containers'[k].at][1] = "table"
    BY <1>4, <1>5, <2>1, <2>2
  <2>5. CASE k = n
    BY <1>1, <1>4, <2>1, <2>3, <2>4, <2>5
  <2>6. CASE k < n
    <3>1. containers'[k] = containers[k] /\ k + 1 \in 1..n
      BY <1>1, <1>3, <2>6
    <3> QED
      BY <1>4, <2>1, <2>3, <2>4, <2>6, <3>1
  <2> QED
    BY <1>1, <2>5, <2>6
<1>7. Wanted' = Height(g)
  BY DEF Wanted, Became, Height
<1> QED
  BY <1>6, <1>7

LEMMA ToFacts ==
  ASSUME Shaped, IsBack, containers # << >>, F.to
  PROVE  /\ Writing /\ Typed /\ Stacked /\ IsContainer(F) /\ IsWritten(F) /\ IsSeq(containers)
         /\ IsSeq(stack) /\ IsSeq(heap)
         /\ Len(stack) \in Nat /\ Len(heap) \in Nat /\ Len(containers) \in Nat \ {0}
         /\ F = containers[Len(containers)]
         /\ error => F.stage # "next"
         /\ ~error => /\ Len(stack) = Height(F) /\ F.at \in 1..Len(stack)
                      /\ stack[F.at][1] = "table" /\ stack[F.at][2] \in 1..Len(heap)
<1>1. Typed
  BY DEF Shaped
<1>2. /\ Len(stack) \in Nat /\ Len(heap) \in Nat /\ Len(containers) \in Nat \ {0}
      /\ F = containers[Len(containers)] /\ IsContainer(F) /\ F.at \in Nat \ {0}
      /\ Len(containers) \in 1..Len(containers)
  BY <1>1, Facts
<1>3. Writing
  BY <1>2 DEF Shaped, Directed
<1>4. Stacked /\ (~error => Len(stack) = Height(F))
  BY <1>3 DEF Shaped, WritePlaced, IsBack, Wanted
<1>5. /\ IsWritten(F) /\ (error => F.stage # "next")
      /\ ~error => F.at \in 1..Len(stack) /\ stack[F.at][1] = "table"
  BY <1>2, <1>4 DEF Stacked
<1>6. ~error => stack[F.at][2] \in 1..Len(heap)
  <2>1. Nil # "table"
    BY ConvertAssumption
  <2> SUFFICES ASSUME ~error PROVE stack[F.at][2] \in 1..Len(heap)
    OBVIOUS
  <2>2. LuaValueOf(stack[F.at], Len(heap)) /\ stack[F.at][1] = "table"
    BY <1>1, <1>5 DEF Typed, LuaValue
  <2>3. stack[F.at] # <<Nil>>
    BY <2>1, <2>2
  <2> QED
    BY <2>2, <2>3 DEF LuaValueOf
<1> QED
  BY <1>1, <1>2, <1>3, <1>4, <1>5, <1>6 DEF Typed

LEMMA FirstItem ==
  ASSUME NEW f, IsContainer(f), IsWritten(f), f.items # << >>
  PROVE  /\ f.items[1] = <<f.items[1][1], f.items[1][2]>>
         /\ <<Elem[f.type], f.items[1][2]>> \in Values /\ Elem[f.type] \in Types
         /\ IF Kind[f.type] = "map"
            THEN <<Key[f.type], f.items[1][1]>> \in Values /\ Key[f.type] \in Types
            ELSE f.items[1][1] \in LuaIntegers
<1>1. Len(f.items) \in Nat \ {0}
  <2>1. f.items \in Seq(Elements(f.items))
    BY SeqIn DEF IsContainer
  <2> QED
    BY <2>1, EmptySeq
<1>2. f.type \in Types /\ Container(f.type)
  BY DEF IsContainer
<1> QED
  BY <1>1, <1>2, ConvertAssumption DEF IsWritten

LEMMA BecameContainers ==
  ASSUME Shaped, NEW g, Became(g), IsContainer(g), g.to = F.to, UNCHANGED origin
  PROVE  /\ \A k \in 1..Len(containers') : /\ IsContainer(containers'[k])
                                           /\ containers'[k].to = Writing
         /\ containers' # << >> /\ IsSeq(containers')
<1>1. /\ Len(containers) \in Nat \ {0} /\ Len(containers') = Len(containers)
      /\ F = containers[Len(containers)]
      /\ \A k \in 1..(Len(containers) - 1) : containers'[k] = containers[k]
      /\ containers'[Len(containers)] = g
      /\ containers' # << >> /\ IsSeq(containers')
  BY DEF Became
<1>2. \A k \in 1..Len(containers) : IsContainer(containers[k]) /\ containers[k].to = Writing
  BY DEF Shaped, Typed, Directed
<1>3. F.to = Writing
  BY <1>1, <1>2
<1>4. ASSUME NEW k \in 1..Len(containers)
      PROVE  IsContainer(containers'[k]) /\ containers'[k].to = Writing
  <2>1. CASE k = Len(containers)
    BY <1>1, <1>3, <2>1
  <2>2. CASE k \in 1..(Len(containers) - 1)
    BY <1>1, <1>2, <2>2
  <2> QED
    BY <1>1, <2>1, <2>2
<1> QED
  BY <1>1, <1>4

LEMMA ToNextShaped ==
  ASSUME Shaped, ToNext
  PROVE  Shaped'
<1>1. /\ IsBack /\ containers # << >> /\ F.to /\ F.stage = "next" /\ F.items # << >>
      /\ UNCHANGED <<heap, error, rest, origin>>
  BY DEF ToNext, ToFrame
<1>2. /\ Writing /\ Typed /\ IsContainer(F) /\ IsWritten(F) /\ ~error
      /\ IsSeq(stack) /\ Len(stack) \in Nat /\ IsSeq(containers)
      /\ Len(stack) = F.at /\ F.at \in 1..Len(stack)
  BY <1>1, ToFacts DEF Height
<1>3. /\ <<Elem[F.type], F.items[1][2]>> \in Values /\ Elem[F.type] \in Types
      /\ IF Kind[F.type] = "map"
         THEN <<Key[F.type], F.items[1][1]>> \in Values /\ Key[F.type] \in Types
         ELSE F.items[1][1] \in LuaIntegers
  BY <1>1, <1>2, FirstItem
<1> DEFINE s == IF Kind[F.type] = "map" THEN "key" ELSE "value"
           g == At(F, s, F.items, F.held)
<1>4. s \in Stages /\ IsSeq(F.items)
  BY <1>2 DEF Stages, IsContainer
<1>5. containers' = Append(Outer, g)
  BY <1>2, <1>4, ExceptLemma DEF ToNext, Stay
<1>6. /\ IsContainer(g) /\ g.to = F.to /\ g.type = F.type /\ g.at = F.at
      /\ g.items = F.items /\ g.stage = s
  BY <1>2, <1>4, AtLemma
<1> HIDE DEF g
<1>7. Became(g)
  BY <1>1, <1>2, <1>5, BecameLemma
<1>8. /\ pc'[1] = "to" /\ <<pc'[2], pc'[3]>> \in Values /\ pc'[2] \in Types
      /\ IsSeq(stack') /\ Len(stack') = F.at + (IF s = "key" THEN 0 ELSE 1)
      /\ \A i \in 1..Len(stack) : stack'[i] = stack[i]
      /\ \A i \in 1..Len(stack') : LuaValueOf(stack'[i], Len(heap))
  <2>1. \A i \in 1..Len(stack) : LuaValueOf(stack[i], Len(heap))
    BY <1>2 DEF Typed, LuaValue
  <2>2. CASE Kind[F.type] = "map"
    <3>1. /\ pc' = <<"to", Key[F.type], F.items[1][1]>> /\ stack' = stack
      BY <2>2 DEF ToNext
    <3> QED
      BY <1>2, <1>3, <2>1, <2>2, <3>1
  <2>3. CASE Kind[F.type] # "map"
    <3>1. /\ pc' = <<"to", Elem[F.type], F.items[1][2]>>
          /\ stack' = Append(stack, <<"integer", F.items[1][1]>>)
      BY <2>3 DEF ToNext
    <3>2. /\ IsSeq(stack') /\ Len(stack') = Len(stack) + 1
          /\ \A i \in 1..Len(stack) : stack'[i] = stack[i]
          /\ stack'[Len(stack) + 1] = <<"integer", F.items[1][1]>>
      BY <1>2, <3>1, AppendSeq
    <3>3. LuaValueOf(<<"integer", F.items[1][1]>>, Len(heap))
      BY <1>3, <2>3 DEF LuaValueOf
    <3>4. \A i \in 1..Len(stack') : LuaValueOf(stack'[i], Len(heap))
      <4> TAKE i \in 1..Len(stack')
      <4>1. CASE i = Len(stack) + 1
        BY <3>2, <3>3, <4>1
      <4>2. CASE i \in 1..Len(stack)
        BY <2>1, <3>2, <4>2
      <4> QED
        BY <1>2, <3>2, <4>1, <4>2
    <3>5. pc'[1] = "to" /\ <<pc'[2], pc'[3]>> \in Values /\ pc'[2] \in Types
      BY <1>3, <3>1
    <3> QED
      BY <1>2, <2>3, <3>2, <3>4, <3>5
  <2> QED
    BY <2>2, <2>3
<1>9. /\ Tagged' /\ Writing' = Writing
  BY <1>1, <1>2, <1>8, TaggedKept DEF Typed, Tagged
<1> HIDE DEF s
<1>10. /\ \A k \in 1..Len(containers') : /\ IsContainer(containers'[k])
                                         /\ containers'[k].to = Writing
       /\ containers' # << >> /\ IsSeq(containers')
  BY <1>1, <1>2, <1>6, <1>7, BecameContainers
<1>11. Typed'
  BY <1>1, <1>2, <1>8, <1>9, <1>10 DEF Typed, LuaValue
<1>12. Directed'
  BY <1>1, <1>2, <1>8, <1>9, <1>10 DEF Directed
<1>13. WritePlaced'
  <2>1. s # "next" /\ IsWritten(g)
    BY <1>1, <1>2, <1>6 DEF s, IsWritten
  <2>2. Len(stack') \in Nat /\ F.at <= Len(stack') /\ \A i \in 1..F.at : stack'[i] = stack[i]
    BY <1>2, <1>8
  <2>3. Stacked' /\ Wanted' = Height(g)
    BY <1>1, <1>2, <1>6, <1>7, <1>8, <2>1, <2>2, StackedBecame
  <2>4. Len(stack') = Height(g) - 1
    BY <1>2, <1>6, <1>8, <2>1 DEF Height, s
  <2> QED
    BY <1>8, <2>3, <2>4 DEF WritePlaced
<1>14. ReadPlaced'
  BY <1>2, <1>9 DEF ReadPlaced
<1> QED
  BY <1>11, <1>12, <1>13, <1>14 DEF Shaped

LEMMA ToValueShaped ==
  ASSUME Shaped, ToValue
  PROVE  Shaped'
<1>1. /\ IsBack /\ containers # << >> /\ F.to /\ F.stage = "key" /\ ~error
      /\ UNCHANGED <<stack, heap, error, rest, origin>>
      /\ pc' = <<"to", Elem[F.type], F.items[1][2]>>
  BY DEF ToValue, ToFrame
<1>2. /\ Writing /\ Typed /\ IsContainer(F) /\ IsWritten(F) /\ IsSeq(containers)
      /\ Len(stack) \in Nat /\ Len(stack) = F.at + 1 /\ F.at \in 1..Len(stack)
  BY <1>1, ToFacts DEF Height
<1>3. F.items # << >>
  BY <1>1, <1>2 DEF IsWritten
<1>4. /\ pc'[1] = "to" /\ <<pc'[2], pc'[3]>> \in Values /\ pc'[2] \in Types
  <2>1. <<Elem[F.type], F.items[1][2]>> \in Values /\ Elem[F.type] \in Types
    BY <1>2, <1>3, FirstItem
  <2> QED
    BY <1>1, <2>1
<1> DEFINE g == At(F, "value", F.items, F.held)
<1>5. "value" \in Stages /\ IsSeq(F.items)
  BY <1>2 DEF Stages, IsContainer
<1>6. containers' = Append(Outer, g)
  BY <1>2, <1>5, ExceptLemma DEF ToValue, Stay
<1>7. /\ IsContainer(g) /\ g.to = F.to /\ g.type = F.type /\ g.at = F.at
      /\ g.items = F.items /\ g.stage = "value"
  BY <1>2, <1>5, AtLemma
<1> HIDE DEF g
<1>8. Became(g)
  BY <1>1, <1>2, <1>6, BecameLemma
<1>9. /\ Tagged' /\ Writing' = Writing
  BY <1>1, <1>2, <1>4, TaggedKept DEF Typed, Tagged
<1>10. /\ \A k \in 1..Len(containers') : /\ IsContainer(containers'[k])
                                         /\ containers'[k].to = Writing
       /\ containers' # << >> /\ IsSeq(containers')
  BY <1>1, <1>2, <1>7, <1>8, BecameContainers
<1>11. Typed'
  BY <1>1, <1>2, <1>9, <1>10 DEF Typed, LuaValue
<1>12. Directed'
  BY <1>1, <1>2, <1>4, <1>9, <1>10 DEF Directed
<1>13. WritePlaced'
  <2>1. IsWritten(g)
    BY <1>2, <1>3, <1>7 DEF IsWritten
  <2>2. Len(stack') \in Nat /\ F.at <= Len(stack') /\ \A i \in 1..F.at : stack'[i] = stack[i]
    BY <1>1, <1>2
  <2>3. Stacked' /\ Wanted' = Height(g)
    BY <1>1, <1>2, <1>4, <1>7, <1>8, <2>1, <2>2, StackedBecame
  <2>4. Len(stack') = Height(g) - 1
    BY <1>1, <1>2, <1>7 DEF Height
  <2> QED
    BY <1>4, <2>3, <2>4 DEF WritePlaced
<1>14. ReadPlaced'
  BY <1>2, <1>9 DEF ReadPlaced
<1> QED
  BY <1>11, <1>12, <1>13, <1>14 DEF Shaped

LEMMA ExceptIs ==
  ASSUME NEW h, IsSeq(h), NEW t \in 1..Len(h), NEW x, NEW e, e = [h EXCEPT ![t] = x]
  PROVE  /\ IsSeq(e) /\ Len(e) = Len(h)
         /\ \A j \in 1..Len(h) : e[j] = IF j = t THEN x ELSE h[j]
<1> DEFINE S == Elements(h) \cup {x}
<1>0. Elements(h) \subseteq S /\ x \in S
  OBVIOUS
<1> HIDE DEF S
<1>1. h \in Seq(S) /\ x \in S
  BY <1>0, SeqIn
<1>2. e \in Seq(S) /\ Len(e) = Len(h) /\ \A j \in 1..Len(h) : e[j] = IF j = t THEN x ELSE h[j]
  BY <1>1, ExceptSeq
<1> QED
  BY <1>2, SeqIs

LEMMA TailIs ==
  ASSUME NEW q, IsSeq(q), q # << >>
  PROVE  /\ IsSeq(Tail(q)) /\ Len(q) \in Nat \ {0} /\ Len(Tail(q)) = Len(q) - 1
         /\ \A i \in 1..(Len(q) - 1) : Tail(q)[i] = q[i + 1]
<1> DEFINE S == Elements(q)
<1>0. Elements(q) \subseteq S
  OBVIOUS
<1> HIDE DEF S
<1>1. q \in Seq(S)
  BY <1>0, SeqIn
<1>2. /\ Tail(q) \in Seq(S) /\ Len(Tail(q)) = Len(q) - 1
      /\ \A i \in 1..Len(Tail(q)) : Tail(q)[i] = q[i + 1]
  BY <1>1, HeadTailProperties
<1>3. Len(q) \in Nat \ {0}
  BY <1>1, EmptySeq
<1>4. IsSeq(Tail(q))
  BY <1>2, SeqIs
<1> DEFINE m == Len(q)  r == Len(Tail(q))
<1>5. r = m - 1 /\ \A i \in 1..r : Tail(q)[i] = q[i + 1]
  BY <1>2
<1> HIDE DEF m, r
<1>6. \A i \in 1..(m - 1) : Tail(q)[i] = q[i + 1]
  BY <1>5
<1> QED
  BY <1>3, <1>4, <1>5, <1>6 DEF m, r

\* The pairs of a table with p among them.
LEMMA SettledSeq ==
  ASSUME NEW t, NEW ps, IsSeq(ps), NEW p, NEW qs \in Settled(t, ps, p)
  PROVE  /\ IsSeq(qs)
         /\ \A j \in 1..Len(qs) : qs[j] = p \/ \E k \in 1..Len(ps) : qs[j] = ps[k]
<1>0. Len(ps) \in Nat
  BY DEF IsSeq
<1>1. \/ \E i \in 1..(Len(ps) + 1) : qs = InsertAt(ps, i, p)
      \/ \E i \in 1..Len(ps) : qs = [ps EXCEPT ![i] = p]
  <2>1. Len(ps) + 1 \in 1..(Len(ps) + 1)
    BY <1>0
  <2> QED
    BY <2>1 DEF Settled
<1>2. ASSUME NEW i \in 1..(Len(ps) + 1), qs = InsertAt(ps, i, p)
      PROVE  /\ IsSeq(qs)
             /\ \A j \in 1..Len(qs) : qs[j] = p \/ \E k \in 1..Len(ps) : qs[j] = ps[k]
  <2>1. /\ IsSeq(qs) /\ Len(qs) = Len(ps) + 1
        /\ \A j \in 1..(i - 1) : qs[j] = ps[j]
        /\ qs[i] = p
        /\ \A j \in (i + 1)..(Len(ps) + 1) : qs[j] = ps[j - 1]
    BY <1>2, InsertSeq
  <2>2. ASSUME NEW j \in 1..Len(qs)
        PROVE  qs[j] = p \/ \E k \in 1..Len(ps) : qs[j] = ps[k]
    <3>1. CASE j \in 1..(i - 1)
      <4>1. j \in 1..Len(ps)
        BY <1>0, <3>1
      <4> QED
        BY <2>1, <3>1, <4>1
    <3>2. CASE j = i
      BY <2>1, <3>2
    <3>3. CASE j \in (i + 1)..(Len(ps) + 1)
      <4>1. j - 1 \in 1..Len(ps)
        BY <1>0, <3>3
      <4> QED
        BY <2>1, <3>3, <4>1
    <3> QED
      BY <1>0, <2>1, <3>1, <3>2, <3>3
  <2> QED
    BY <2>1, <2>2
<1>3. ASSUME NEW i \in 1..Len(ps), qs = [ps EXCEPT ![i] = p]
      PROVE  /\ IsSeq(qs)
             /\ \A j \in 1..Len(qs) : qs[j] = p \/ \E k \in 1..Len(ps) : qs[j] = ps[k]
  <2>0. PICK m : m = i
    OBVIOUS
  <2>1. /\ IsSeq(qs) /\ Len(qs) = Len(ps)
        /\ \A j \in 1..Len(ps) : qs[j] = IF j = m THEN p ELSE ps[j]
    <3>1. m \in 1..Len(ps) /\ qs = [ps EXCEPT ![m] = p]
      BY <1>3, <2>0
    <3>2. IsSeq(ps)
      OBVIOUS
    <3>3. IsSeq(qs) /\ Len(qs) = Len(ps)
      BY ONLY <3>1, <3>2, ExceptIs
    <3>4. \A j \in 1..Len(ps) : qs[j] = IF j = m THEN p ELSE ps[j]
      BY ONLY <3>1, <3>2, ExceptIs
    <3> QED
      BY <3>3, <3>4
  <2>2. ASSUME NEW j \in 1..Len(qs)
        PROVE  qs[j] = p \/ \E k \in 1..Len(ps) : qs[j] = ps[k]
    <3>1. j \in 1..Len(ps)
      BY <2>1
    <3>2. qs[j] = p \/ qs[j] = ps[j]
      BY <2>1, <3>1
    <3> QED
      BY <3>1, <3>2
  <2> QED
    BY <2>1, <2>2
<1> QED
  BY <1>1, <1>2, <1>3

\* A pair with a key that is new is inserted.
LEMMA SettledNew ==
  ASSUME NEW t, NEW ps, NEW p, NEW qs \in Settled(t, ps, p), IsSeq(ps),
         \A i \in 1..Len(ps) : ps[i][1] # p[1]
  PROVE  \E i \in 1..(Len(ps) + 1) :
           (Kind[t] # "map" => i = Len(ps) + 1) /\ qs = InsertAt(ps, i, p)
<1>1. Len(ps) + 1 \in 1..(Len(ps) + 1)
  BY DEF IsSeq
<1>2. {i \in 1..Len(ps) : ps[i][1] = p[1]} = {}
  OBVIOUS
<1> QED
  BY <1>1, <1>2 DEF Settled

\* A pair is put into the table of the innermost container, and it goes on.
LEMMA ToSettledFacts ==
  ASSUME Shaped, ToSettled
  PROVE  /\ IsBack /\ containers # << >> /\ F.to /\ F.stage = "value" /\ ~error
         /\ UNCHANGED <<error, rest, origin>> /\ pc' = <<"back", None>>
         /\ Len(stack) = F.at + 2 /\ Len(stack') = F.at /\ IsSeq(stack')
         /\ \A j \in 1..F.at : stack'[j] = stack[j]
         /\ F.items # << >>
         /\ Became(At(F, "next", Tail(F.items), F.held))
         /\ IsSeq(heap') /\ Len(heap') = Len(heap)
         /\ \E ps \in Settled(F.type, heap[stack[F.at][2]],
                               <<stack[F.at + 1], stack[F.at + 2]>>) :
              \A h \in 1..Len(heap) : heap'[h] = IF h = stack[F.at][2] THEN ps ELSE heap[h]
<1>1. /\ IsBack /\ containers # << >> /\ F.to /\ F.stage = "value" /\ ~error
      /\ UNCHANGED <<error, rest, origin>> /\ pc' = <<"back", None>>
      /\ stack' = SubSeq(stack, 1, Len(stack) - 2)
  BY DEF ToSettled, ToFrame, Back, Down
<1>2. /\ IsContainer(F) /\ IsWritten(F) /\ IsSeq(stack) /\ IsSeq(heap) /\ IsSeq(containers)
      /\ Len(stack) \in Nat /\ Len(stack) = F.at + 2 /\ F.at \in 1..Len(stack)
      /\ stack[F.at][2] \in 1..Len(heap)
  BY <1>1, ToFacts DEF Height
<1>3. F.items # << >> /\ IsSeq(F.items)
  BY <1>1, <1>2 DEF IsWritten, IsContainer
<1>4. Len(stack') = F.at /\ IsSeq(stack') /\ \A j \in 1..F.at : stack'[j] = stack[j]
  <2> DEFINE n == F.at
  <2>1. /\ 1 \in Nat \ {0} /\ n \in Nat /\ 1 <= n + 1 /\ n <= Len(stack)
        /\ n = Len(stack) - 2 /\ n - 1 + 1 = n /\ \A j \in 1..n : 1 + j - 1 = j
    BY <1>2
  <2> HIDE DEF n
  <2>2. /\ IsSeq(SubSeq(stack, 1, n)) /\ Len(SubSeq(stack, 1, n)) = n - 1 + 1
        /\ \A j \in 1..(n - 1 + 1) : SubSeq(stack, 1, n)[j] = stack[1 + j - 1]
    <3>1. IsSeq(stack) /\ 1 \in Nat \ {0} /\ n \in Nat /\ 1 <= n + 1 /\ n <= Len(stack)
      BY <1>2, <2>1
    <3> QED
      BY ONLY <3>1, CutSeq
  <2>3. stack' = SubSeq(stack, 1, n)
    BY <1>1, <2>1
  <2>4. Len(stack') = n /\ IsSeq(stack') /\ \A j \in 1..n : stack'[j] = stack[j]
    BY <2>1, <2>2, <2>3
  <2> QED
    BY <2>4 DEF n
<1>5. Became(At(F, "next", Tail(F.items), F.held))
  <2>1. "next" \in Stages
    BY DEF Stages
  <2>2. [[F EXCEPT !.items = Tail(@)] EXCEPT !.stage = "next"] = At(F, "next", Tail(F.items), F.held)
    BY <1>2, <2>1, ExceptLemma
  <2>3. containers' = Append(Outer, At(F, "next", Tail(F.items), F.held))
    BY <2>2 DEF ToSettled, Stay
  <2> QED
    BY <1>1, <1>2, <2>3, BecameLemma
<1> DEFINE t == stack[F.at][2]  p == <<stack[F.at + 1], stack[F.at + 2]>>
<1>6. \E ps \in Settled(F.type, heap[t], p) : heap' = [heap EXCEPT ![t] = ps]
  <2>1. Len(stack) - 2 = F.at /\ Len(stack) - 1 = F.at + 1 /\ Len(stack) = F.at + 2
    BY <1>2
  <2> QED
    BY <2>1 DEF ToSettled, Last
<1> HIDE DEF t, p
<1>7. PICK y \in Settled(F.type, heap[t], p) : heap' = [heap EXCEPT ![t] = y]
  BY <1>6
<1>8. t \in 1..Len(heap)
  BY <1>2 DEF t
<1>9. heap' = [heap EXCEPT ![t] = y]
  BY <1>7
<1>10. /\ IsSeq(heap') /\ Len(heap') = Len(heap)
       /\ \A h \in 1..Len(heap) : heap'[h] = IF h = t THEN y ELSE heap[h]
  <2>1. IsSeq(heap) /\ t \in 1..Len(heap)
    BY <1>2, <1>8
  <2> DEFINE u == t  z == y
  <2>2. u \in 1..Len(heap) /\ heap' = [heap EXCEPT ![u] = z]
    BY <1>9, <2>1
  <2> HIDE DEF u, z
  <2>3. IsSeq(heap') /\ Len(heap') = Len(heap)
    BY <2>1, <2>2, ExceptIs
  <2>4. \A h \in 1..Len(heap) : heap'[h] = IF h = u THEN z ELSE heap[h]
    BY <2>1, <2>2, ExceptIs
  <2> QED
    BY <2>3, <2>4 DEF u, z
<1>12. \E ps \in Settled(F.type, heap[t], p) :
         \A h \in 1..Len(heap) : heap'[h] = IF h = t THEN ps ELSE heap[h]
  BY <1>10
<1>13. Len(stack) = F.at + 2
  BY <1>2
<1> QED
  BY <1>1, <1>3, <1>4, <1>5, <1>10, <1>12, <1>13, Zenon DEF t, p

LEMMA ToSettledShaped ==
  ASSUME Shaped, ToSettled
  PROVE  Shaped'
<1>1. /\ IsBack /\ containers # << >> /\ F.to /\ F.stage = "value" /\ ~error
      /\ UNCHANGED <<error, rest, origin>> /\ pc' = <<"back", None>>
      /\ Len(stack) = F.at + 2 /\ Len(stack') = F.at /\ IsSeq(stack')
      /\ \A j \in 1..F.at : stack'[j] = stack[j]
      /\ F.items # << >>
      /\ Became(At(F, "next", Tail(F.items), F.held))
      /\ IsSeq(heap') /\ Len(heap') = Len(heap)
  BY ToSettledFacts
<1>2. /\ Writing /\ Typed /\ IsContainer(F) /\ IsWritten(F)
      /\ Len(stack) \in Nat /\ F.at \in 1..Len(stack) /\ Len(heap) \in Nat
  BY <1>1, ToFacts
<1> DEFINE g == At(F, "next", Tail(F.items), F.held)
<1>3. /\ IsSeq(F.items) /\ IsSeq(Tail(F.items))
      /\ Len(F.items) \in Nat \ {0} /\ Len(Tail(F.items)) = Len(F.items) - 1
      /\ \A i \in 1..(Len(F.items) - 1) : Tail(F.items)[i] = F.items[i + 1]
  BY <1>1, <1>2, TailIs DEF IsContainer
<1>4. /\ IsContainer(g) /\ g.to = F.to /\ g.type = F.type /\ g.at = F.at
      /\ g.items = Tail(F.items) /\ g.stage = "next"
  BY <1>2, <1>3, AtLemma DEF Stages
<1>5. Became(g)
  BY <1>1
<1> HIDE DEF g
<1>6. IsWritten(g)
  <2> SUFFICES ASSUME NEW i \in 1..(Len(F.items) - 1)
               PROVE  /\ F.items[i + 1] = <<F.items[i + 1][1], F.items[i + 1][2]>>
                      /\ <<Elem[F.type], F.items[i + 1][2]>> \in Values
                      /\ IF Kind[F.type] = "map" THEN <<Key[F.type], F.items[i + 1][1]>> \in Values
                                                 ELSE F.items[i + 1][1] \in LuaIntegers
    BY <1>3, <1>4 DEF IsWritten
  <2>1. i + 1 \in 1..Len(F.items)
    BY <1>3
  <2> QED
    BY <1>2, <2>1 DEF IsWritten
<1>7. pc'[1] = "back" /\ Tagged' /\ Writing' = Writing
  <2>1. pc'[1] = "back" /\ error' \in BOOLEAN
    BY <1>1, <1>2 DEF Typed, Tagged
  <2> QED
    BY <1>1, <1>2, <2>1, TaggedKept
<1>8. \A h \in 1..Len(heap') : IsTable(heap'[h], Len(heap'))
  <2> DEFINE t == stack[F.at][2]  p == <<stack[F.at + 1], stack[F.at + 2]>>
  <2>2. LuaValueOf(p[1], Len(heap)) /\ LuaValueOf(p[2], Len(heap)) /\ p = <<p[1], p[2]>>
    <3>1. F.at + 1 \in 1..Len(stack) /\ F.at + 2 \in 1..Len(stack)
      BY <1>1, <1>2
    <3>2. LuaValueOf(stack[F.at + 1], Len(heap)) /\ LuaValueOf(stack[F.at + 2], Len(heap))
      BY <1>2, <3>1 DEF Typed, LuaValue
    <3> QED
      BY <3>2
  <2>1. PICK q \in Settled(F.type, heap[t], p) :
          \A h \in 1..Len(heap) : heap'[h] = IF h = t THEN q ELSE heap[h]
    BY ToSettledFacts
  <2> HIDE DEF t, p
  <2> SUFFICES ASSUME NEW h \in 1..Len(heap) PROVE IsTable(heap'[h], Len(heap))
    BY <1>1
  <2>3. IsTable(heap[h], Len(heap))
    BY <1>2 DEF Typed
  <2>4. CASE h = t
    <3>1. IsSeq(heap[h]) /\ q \in Settled(F.type, heap[h], p)
      BY <2>1, <2>3, <2>4 DEF IsTable
    <3>2. /\ IsSeq(q)
          /\ \A j \in 1..Len(q) : q[j] = p \/ \E k \in 1..Len(heap[h]) : q[j] = heap[h][k]
      BY <3>1, SettledSeq
    <3>3. heap'[h] = q
      BY <2>1, <2>4
    <3>5. \A j \in 1..Len(q) : /\ q[j] = <<q[j][1], q[j][2]>>
                               /\ LuaValueOf(q[j][1], Len(heap)) /\ LuaValueOf(q[j][2], Len(heap))
      BY <2>2, <2>3, <3>2 DEF IsTable
    <3> QED
      BY <3>2, <3>3, <3>5 DEF IsTable
  <2>5. CASE h # t
    BY <2>1, <2>3, <2>5
  <2> QED
    BY <2>4, <2>5
<1>9. /\ \A k \in 1..Len(containers') : /\ IsContainer(containers'[k])
                                        /\ containers'[k].to = Writing
      /\ containers' # << >> /\ IsSeq(containers')
  BY <1>1, <1>2, <1>4, <1>5, BecameContainers
<1>10. Typed'
  <2>1. \A i \in 1..Len(stack') : LuaValueOf(stack'[i], Len(heap'))
    BY <1>1, <1>2 DEF Typed, LuaValue
  <2> QED
    BY <1>1, <1>7, <1>8, <1>9, <2>1 DEF Typed, LuaValue
<1>11. Directed'
  BY <1>7, <1>9 DEF Directed
<1>12. WritePlaced'
  <2>1. Len(stack') \in Nat /\ F.at <= Len(stack')
    BY <1>1, <1>2
  <2>2. Stacked' /\ Wanted' = Height(g)
    BY <1>1, <1>2, <1>4, <1>5, <1>6, <1>7, <2>1, StackedBecame
  <2>3. Len(stack') = Height(g)
    BY <1>1, <1>2, <1>4 DEF Height
  <2> QED
    BY <1>7, <2>2, <2>3 DEF WritePlaced
<1>13. ReadPlaced'
  BY <1>2, <1>7 DEF ReadPlaced
<1> QED
  BY <1>10, <1>11, <1>12, <1>13 DEF Shaped

LEMMA ClosedContainers ==
  ASSUME Shaped, Closed, UNCHANGED origin
  PROVE  /\ \A k \in 1..Len(containers') : /\ containers'[k] = containers[k]
                                           /\ IsContainer(containers'[k])
                                           /\ containers'[k].to = Writing
         /\ IsSeq(containers')
<1>1. /\ Len(containers) \in Nat \ {0} /\ Len(containers') = Len(containers) - 1
      /\ \A k \in 1..(Len(containers) - 1) : containers'[k] = containers[k]
      /\ IsSeq(containers')
  BY DEF Closed
<1>2. \A k \in 1..Len(containers) : IsContainer(containers[k]) /\ containers[k].to = Writing
  BY DEF Shaped, Typed, Directed
<1> QED
  BY <1>1, <1>2

LEMMA ToCloseShaped ==
  ASSUME Shaped, ToClose
  PROVE  Shaped'
<1>1. /\ IsBack /\ containers # << >> /\ F.to /\ (error \/ F.stage = "next")
      /\ UNCHANGED <<stack, heap, error, rest, origin>> /\ pc' = <<"back", None>>
      /\ containers' = Outer
  BY DEF ToClose, Back
<1>2. /\ Writing /\ Typed /\ Stacked /\ IsSeq(containers) /\ Len(stack) \in Nat
      /\ ~error => Len(stack) = F.at
  BY <1>1, ToFacts DEF Height
<1>3. Closed
  BY <1>1, <1>2, ClosedLemma
<1>4. pc'[1] = "back" /\ Tagged' /\ Writing' = Writing
  <2>1. pc'[1] = "back" /\ error' \in BOOLEAN
    BY <1>1, <1>2 DEF Typed, Tagged
  <2> QED
    BY <1>1, <1>2, <2>1, TaggedKept
<1>5. /\ \A k \in 1..Len(containers') : /\ containers'[k] = containers[k]
                                        /\ IsContainer(containers'[k])
                                        /\ containers'[k].to = Writing
      /\ IsSeq(containers')
  BY <1>1, <1>3, ClosedContainers
<1>6. Typed'
  BY <1>1, <1>2, <1>4, <1>5 DEF Typed, LuaValue
<1>7. Directed'
  BY <1>4, <1>5 DEF Directed
<1>8. WritePlaced'
  <2> DEFINE n == Len(containers)
  <2>1. /\ n \in Nat \ {0} /\ Len(containers') = n - 1 /\ F = containers[n]
        /\ containers' # << >> => n > 1 /\ F' = containers[n - 1]
        /\ containers' = << >> => n = 1
    BY <1>3 DEF Closed
  <2>s. \A k \in 1..n :
          /\ IsWritten(containers[k])
          /\ (k < n \/ error) => containers[k].stage # "next"
          /\ \A j \in (k + 1)..n : containers[k].at < containers[j].at
          /\ ~error => /\ containers[k].at <= Len(stack)
                       /\ stack[containers[k].at][1] = "table"
                       /\ k < n => containers[k + 1].at = Height(containers[k])
                       /\ k = 1 => containers[k].at = 1
    BY <1>2 DEF Stacked
  <2>c. \A k \in 1..(n - 1) : containers'[k] = containers[k]
    BY <1>5, <2>1
  <2> HIDE DEF n
  <2>2. Stacked'
    <3> SUFFICES ASSUME NEW k \in 1..(n - 1)
                 PROVE  /\ IsWritten(containers'[k])
                        /\ (k < n - 1 \/ error) => containers'[k].stage # "next"
                        /\ \A j \in (k + 1)..(n - 1) : containers'[k].at < containers'[j].at
                        /\ ~error => /\ containers'[k].at <= Len(stack)
                                     /\ stack[containers'[k].at][1] = "table"
                                     /\ k < n - 1 => containers'[k + 1].at = Height(containers'[k])
                                     /\ k = 1 => containers'[k].at = 1
      <4>1. ~(pc'[1] = "to") /\ error' = error /\ stack' = stack
        BY <1>1, <1>4
      <4> QED
        BY <2>1, <4>1 DEF Stacked, IsWritten, Height
    <3>1. /\ IsWritten(containers[k])
          /\ containers[k].stage # "next"
          /\ \A j \in (k + 1)..n : containers[k].at < containers[j].at
          /\ ~error => /\ containers[k].at <= Len(stack)
                       /\ stack[containers[k].at][1] = "table"
                       /\ containers[k + 1].at = Height(containers[k])
                       /\ k = 1 => containers[k].at = 1
      <4>1. k \in 1..n /\ k < n
        BY <2>1
      <4> QED
        BY <2>s, <4>1
    <3>2. /\ containers'[k] = containers[k]
          /\ \A j \in (k + 1)..(n - 1) : containers'[j] = containers[j]
          /\ k < n - 1 => containers'[k + 1] = containers[k + 1]
      BY <2>c, <2>1
    <3> QED
      BY <2>1, <3>1, <3>2
  <2>3. ~error => Len(stack) = Wanted'
    <3> SUFFICES ASSUME ~error PROVE F.at = Wanted'
      BY <1>2
    <3>1. CASE containers' = << >>
      BY <2>s, <2>1, <3>1 DEF Wanted
    <3>2. CASE containers' # << >>
      <4>1. n - 1 \in 1..n /\ n - 1 < n /\ n - 1 + 1 = n
        BY <2>1, <3>2
      <4>2. containers[n].at = Height(containers[n - 1])
        BY <2>s, <4>1
      <4> QED
        BY <2>1, <3>2, <4>2 DEF Wanted, Height
    <3> QED
      BY <3>1, <3>2
  <2> QED
    BY <1>1, <1>4, <2>2, <2>3 DEF WritePlaced
<1>9. ReadPlaced'
  BY <1>2, <1>4 DEF ReadPlaced
<1> QED
  BY <1>6, <1>7, <1>8, <1>9 DEF Shaped

------------------------------------------------------------------------------
(***************************************************************************)
(* Things stay in their places: what C++ reads.                            *)
(***************************************************************************)

LEMMA FromFacts ==
  ASSUME Shaped, ~Writing, containers # << >>
  PROVE  /\ Typed /\ IsContainer(F) /\ IsSeq(stack) /\ IsSeq(heap) /\ IsSeq(containers)
         /\ Len(stack) \in Nat /\ F.at \in Nat \ {0} /\ F.at + 1 <= Len(stack)
         /\ stack[F.at] = stack[F.at] /\ stack[F.at][1] = "table"
         /\ stack[F.at][2] \in 1..Len(heap) /\ IsTable(Pairs, Len(heap))
<1>1. /\ Typed /\ IsSeq(stack) /\ IsSeq(heap) /\ IsSeq(containers)
  BY DEF Shaped, Typed
<1>2. /\ Len(stack) \in Nat /\ Len(containers) \in 1..Len(containers)
      /\ F = containers[Len(containers)] /\ IsContainer(F) /\ F.at \in Nat \ {0}
  BY <1>1, Facts
<1>3. F.at < Len(stack) /\ stack[F.at][1] = "table"
  BY <1>2 DEF Shaped, ReadPlaced
<1>4. F.at \in 1..Len(stack) /\ F.at + 1 <= Len(stack)
  BY <1>2, <1>3
<1>5. stack[F.at][2] \in 1..Len(heap)
  <2>1. LuaValueOf(stack[F.at], Len(heap))
    BY <1>1, <1>4 DEF Typed, LuaValue
  <2>2. stack[F.at] = <<Nil>> => FALSE
    BY <1>3, ConvertAssumption
  <2> QED
    BY <1>3, <2>1, <2>2 DEF LuaValueOf
<1>6. IsTable(Pairs, Len(heap))
  BY <1>1, <1>5 DEF Typed, Pairs
<1> QED
  BY <1>1, <1>2, <1>3, <1>4, <1>5, <1>6

\* A conversion has ended, and has removed what it read or left it.
LEMMA ConsumedShaped ==
  ASSUME Shaped, pc[1] = "from", pc'[1] = "back", error' \in BOOLEAN,
         stack' = stack \/ stack' = RemoveAt(stack, pc[3]),
         UNCHANGED <<containers, heap, rest, origin>>
  PROVE  Shaped'
<1>1. Typed /\ ~Writing /\ IsSeq(stack) /\ Len(stack) \in Nat /\ pc[3] \in 1..Len(stack)
  BY Facts DEF Shaped, Typed, Directed, ReadPlaced
<1>2. Tagged' /\ Writing' = Writing
  BY <1>1, TaggedKept
<1>3. ASSUME stack' = RemoveAt(stack, pc[3])
      PROVE  /\ IsSeq(stack') /\ Len(stack') = Len(stack) - 1
             /\ \A i \in 1..(pc[3] - 1) : stack'[i] = stack[i]
             /\ \A i \in pc[3]..(Len(stack) - 1) : stack'[i] = stack[i + 1]
  BY <1>1, <1>3, RemoveSeq
<1> DEFINE n == Len(stack)  m == Len(stack')
<1>4. /\ IsSeq(stack') /\ m \in {n, n - 1}
      /\ \A i \in 1..(pc[3] - 1) : stack'[i] = stack[i]
      /\ \A i \in 1..m : LuaValueOf(stack'[i], Len(heap))
  <2>1. \A i \in 1..n : LuaValueOf(stack[i], Len(heap))
    BY <1>1 DEF Typed, LuaValue
  <2>2. CASE stack' = stack
    BY <1>1, <2>1, <2>2
  <2>3. CASE stack' = RemoveAt(stack, pc[3])
    <3>1. /\ n \in Nat /\ pc[3] \in 1..n /\ m = n - 1
          /\ \A i \in 1..(pc[3] - 1) : stack'[i] = stack[i]
          /\ \A i \in pc[3]..(n - 1) : stack'[i] = stack[i + 1]
      BY <1>1, <1>3, <2>3
    <3> HIDE DEF n, m
    <3>2. \A i \in 1..m : \E j \in 1..n : stack'[i] = stack[j]
      <4> TAKE i \in 1..m
      <4>1. CASE i <= pc[3] - 1
        <5>1. i \in 1..n /\ i \in 1..(pc[3] - 1)
          BY <3>1, <4>1
        <5> QED
          BY <3>1, <5>1
      <4>2. CASE ~(i <= pc[3] - 1)
        <5>1. i + 1 \in 1..n /\ i \in pc[3]..(n - 1)
          BY <3>1, <4>2
        <5> QED
          BY <3>1, <5>1
      <4> QED
        BY <4>1, <4>2
    <3> QED
      BY <1>3, <2>1, <2>3, <3>1, <3>2
  <2> QED
    BY <2>2, <2>3
<1>5. Typed'
  BY <1>1, <1>2, <1>4 DEF Typed, LuaValue
<1>6. Directed'
  BY <1>1, <1>2 DEF Shaped, Directed
<1>7. WritePlaced'
  BY <1>1, <1>2 DEF WritePlaced
<1>8. ReadPlaced'
  <2> SUFFICES ASSUME NEW k \in 1..Len(containers)
               PROVE  /\ containers[k].at < m
                      /\ stack'[containers[k].at][1] = "table"
                      /\ \A j \in (k + 1)..Len(containers) :
                           containers[k].at + 2 <= containers[j].at
    BY DEF ReadPlaced
  <2> DEFINE a == containers[k].at
  <2>1. /\ a < n /\ stack[a][1] = "table" /\ a + 2 <= pc[3]
        /\ \A j \in (k + 1)..Len(containers) : containers[k].at + 2 <= containers[j].at
    BY <1>1 DEF Shaped, ReadPlaced
  <2>2. a \in Nat \ {0} /\ containers # << >> /\ Len(containers) \in Nat
    BY <1>1, Facts
  <2>3. n \in Nat /\ pc[3] = n
    BY <1>1, <2>2 DEF Shaped, ReadPlaced
  <2>4. stack'[a] = stack[a] /\ a < m
    <3> HIDE DEF a, n, m
    <3>1. a \in 1..(pc[3] - 1) /\ a < n - 1
      BY <2>1, <2>2, <2>3
    <3> QED
      BY <1>4, <2>2, <2>3, <3>1
  <2> QED
    BY <2>1, <2>4
<1> QED
  BY <1>5, <1>6, <1>7, <1>8 DEF Shaped

LEMMA FromBasicShaped ==
  ASSUME Shaped, FromBasic
  PROVE  Shaped'
<1>1. /\ pc[1] = "from" /\ UNCHANGED <<containers, heap, rest, origin>>
      /\ error' = error \/ error' = TRUE
      /\ \E x : pc' = <<"back", x>>
  BY DEF FromBasic, Back
<1>2. stack' = stack \/ stack' = RemoveAt(stack, pc[3])
  BY DEF FromBasic, Removed
<1>3. pc'[1] = "back"
  BY <1>1
<1>4. error' \in BOOLEAN
  BY <1>1, Zenon DEF Shaped, Typed, Tagged
<1> QED
  BY <1>1, <1>2, <1>3, <1>4, ConsumedShaped

LEMMA FromEnumShaped ==
  ASSUME Shaped, FromEnum
  PROVE  Shaped'
<1>1. /\ pc[1] = "from" /\ UNCHANGED <<containers, heap, rest, origin>>
      /\ error' = error \/ error' = TRUE
      /\ \E x : pc' = <<"back", x>>
  BY DEF FromEnum, Back
<1>2. stack' = stack \/ stack' = RemoveAt(stack, pc[3])
  BY DEF FromEnum, Removed
<1>3. pc'[1] = "back"
  BY <1>1
<1>4. error' \in BOOLEAN
  BY <1>1, Zenon DEF Shaped, Typed, Tagged
<1> QED
  BY <1>1, <1>2, <1>3, <1>4, ConsumedShaped

LEMMA FromOpenShaped ==
  ASSUME Shaped, FromOpen
  PROVE  Shaped'
<1>1. /\ pc[1] = "from" /\ Container(pc[2]) /\ pc' = <<"back", None>>
      /\ UNCHANGED <<heap, rest, origin>>
  BY DEF FromOpen, Back
<1>2. CASE stack[pc[3]][1] # "table"
  <2>1. error' = TRUE /\ UNCHANGED <<stack, containers>>
    BY <1>2 DEF FromOpen
  <2> QED
    BY <1>1, <2>1, ConsumedShaped
<1>3. CASE stack[pc[3]][1] = "table"
  <2> DEFINE f == [to |-> FALSE, type |-> pc[2], at |-> pc[3],
                   items |-> << >>, held |-> None, stage |-> "next"]
  <2>1. stack' = Append(stack, <<Nil>>) /\ containers' = Append(containers, f) /\ error' = error
    BY <1>3 DEF FromOpen
  <2>2. /\ Typed /\ ~Writing /\ IsSeq(stack) /\ Len(stack) \in Nat /\ pc[3] \in 1..Len(stack)
        /\ pc[2] \in Types /\ IsSeq(containers) /\ Len(containers) \in Nat
    BY <1>1, Facts DEF Shaped, Typed, Directed, ReadPlaced
  <2>3. IsContainer(f) /\ f.to = FALSE /\ f.at = pc[3]
    BY <1>1, <2>2, EmptyIs DEF IsContainer
  <2> HIDE DEF f
  <2>4. Opened(f)
    BY <2>1, <2>2, OpenedLemma
  <2>5. /\ IsSeq(stack') /\ Len(stack') = Len(stack) + 1
        /\ \A i \in 1..Len(stack) : stack'[i] = stack[i]
        /\ stack'[Len(stack) + 1] = <<Nil>>
    BY <2>1, <2>2, AppendSeq
  <2>6. Tagged' /\ Writing' = Writing /\ pc'[1] = "back"
    <3>1. pc'[1] = "back" /\ error' \in BOOLEAN
      BY <1>1, <2>1, <2>2 DEF Typed, Tagged
    <3> QED
      BY <1>1, <2>2, <3>1, TaggedKept
  <2>7. Writing = FALSE
    BY <2>2 DEF Writing
  <2> DEFINE n == Len(containers)  m == Len(stack)
  <2>8. /\ n \in Nat /\ m \in Nat /\ Len(containers') = n + 1 /\ Len(stack') = m + 1
        /\ \A k \in 1..n : containers'[k] = containers[k]
        /\ containers'[n + 1] = f
        /\ \A i \in 1..m : stack'[i] = stack[i]
    BY <2>2, <2>4, <2>5 DEF Opened
  <2>9. \A k \in 1..n : IsContainer(containers[k]) /\ containers[k].to = FALSE
    BY <2>7 DEF Shaped, Typed, Directed
  <2>10. \A k \in 1..n : /\ containers[k].at < m /\ stack[containers[k].at][1] = "table"
                         /\ \A j \in (k + 1)..n : containers[k].at + 2 <= containers[j].at
                         /\ containers[k].at + 2 <= pc[3]
                         /\ containers[k].at \in Nat \ {0}
    BY <1>1, <2>2, Facts DEF Shaped, ReadPlaced
  <2>11. \A i \in 1..m : LuaValueOf(stack[i], Len(heap))
    BY <2>2 DEF Typed, LuaValue
  <2>12. pc[3] \in 1..m /\ stack'[m + 1] = <<Nil>>
    BY <2>2, <2>5
  <2> HIDE DEF n, m
  <2>13. \A k \in 1..(n + 1) : k \in 1..n \/ k = n + 1
    BY <2>8
  <2>14. \A k \in 1..(n + 1) : IsContainer(containers'[k]) /\ containers'[k].to = FALSE
    BY <2>3, <2>8, <2>9, <2>13
  <2>15. Typed'
    <3>1. \A i \in 1..(m + 1) : LuaValueOf(stack'[i], Len(heap))
      <4> TAKE i \in 1..(m + 1)
      <4>1. CASE i \in 1..m
        BY <2>8, <2>11, <4>1
      <4>2. CASE i = m + 1
        BY <2>12, <4>2 DEF LuaValueOf
      <4> QED
        BY <2>8, <4>1, <4>2
    <3>2. IsSeq(containers') /\ heap' = heap
      BY <1>1, <2>4 DEF Opened
    <3> QED
      BY <2>2, <2>5, <2>6, <2>8, <2>14, <3>1, <3>2 DEF Typed, LuaValue
  <2>16. Directed'
    BY <2>6, <2>7, <2>8, <2>14 DEF Directed
  <2>17. WritePlaced'
    BY <2>2, <2>6 DEF WritePlaced
  <2>18. ReadPlaced'
    <3> SUFFICES ASSUME NEW k \in 1..(n + 1)
                 PROVE  /\ containers'[k].at < m + 1
                        /\ stack'[containers'[k].at][1] = "table"
                        /\ \A j \in (k + 1)..(n + 1) : containers'[k].at + 2 <= containers'[j].at
      BY <2>6, <2>8 DEF ReadPlaced
    <3>1. CASE k = n + 1
      <4>1. containers'[k].at = pc[3] /\ \A j \in (k + 1)..(n + 1) : FALSE
        BY <2>3, <2>8, <3>1
      <4>2. stack'[pc[3]][1] = "table"
        BY <1>3, <2>8, <2>12
      <4> QED
        BY <2>8, <2>12, <4>1, <4>2
    <3>2. CASE k \in 1..n
      <4> DEFINE a == containers[k].at
      <4>1. /\ containers'[k].at = a /\ a < m /\ stack[a][1] = "table" /\ a \in Nat \ {0}
            /\ a + 2 <= pc[3] /\ \A j \in (k + 1)..n : a + 2 <= containers[j].at
        BY <2>8, <2>10, <3>2
      <4> HIDE DEF a
      <4>2. a \in 1..m /\ a < m + 1
        BY <2>8, <4>1
      <4>3. stack'[a][1] = "table"
        BY <2>8, <4>1, <4>2
      <4>4. \A j \in (k + 1)..(n + 1) : a + 2 <= containers'[j].at
        <5> TAKE j \in (k + 1)..(n + 1)
        <5>1. CASE j = n + 1
          BY <2>3, <2>8, <4>1, <5>1
        <5>2. CASE j # n + 1
          <6>1. j \in (k + 1)..n /\ j \in 1..n
            BY <2>8, <5>2
          <6> QED
            BY <2>8, <4>1, <6>1
        <5> QED
          BY <5>1, <5>2
      <4> QED
        BY <4>1, <4>2, <4>3, <4>4
    <3> QED
      BY <2>13, <3>1, <3>2
  <2> QED
    BY <2>15, <2>16, <2>17, <2>18 DEF Shaped
<1> QED
  BY <1>2, <1>3

\* The innermost container becomes g, and nothing below the top of the stack
\* changes.
LEMMA ReadBecame ==
  ASSUME Shaped, ~Writing, containers # << >>, UNCHANGED <<heap, origin>>, error' \in BOOLEAN,
         NEW g, IsContainer(g), g.to = F.to, g.at = F.at, Became(g),
         IsSeq(stack'), Len(stack) <= Len(stack'),
         \A i \in 1..(Len(stack) - 1) : stack'[i] = stack[i],
         \A i \in 1..Len(stack') : LuaValueOf(stack'[i], Len(heap)),
         \/ pc'[1] = "back"
         \/ pc'[1] = "from" /\ pc'[2] \in Types /\ pc'[3] = Len(stack') /\ Len(stack') = Len(stack) + 1
  PROVE  Shaped'
<1>1. /\ Typed /\ Len(stack) \in Nat /\ IsContainer(F)
      /\ F.at \in Nat \ {0} /\ F.at + 1 <= Len(stack) /\ stack[F.at][1] = "table"
  BY FromFacts
<1>2. Tagged' /\ Writing' = Writing
  BY <1>1, TaggedKept
<1>3. Writing = FALSE
  BY DEF Writing
<1>4. Len(stack') \in Nat
  BY DEF IsSeq
<1> DEFINE n == Len(containers)  m == Len(stack)  p == Len(stack')
<1>5. /\ n \in Nat \ {0} /\ Len(containers') = n /\ IsSeq(containers') /\ F = containers[n]
      /\ \A k \in 1..(n - 1) : containers'[k] = containers[k]
      /\ containers'[n] = g
  BY DEF Became
<1>6. \A k \in 1..n : IsContainer(containers[k]) /\ containers[k].to = FALSE
  BY <1>3 DEF Shaped, Typed, Directed
<1>7. \A k \in 1..n : /\ containers[k].at < m /\ stack[containers[k].at][1] = "table"
                      /\ \A j \in (k + 1)..n : containers[k].at + 2 <= containers[j].at
                      /\ containers[k].at \in Nat \ {0}
  BY <1>1, Facts DEF Shaped, ReadPlaced
<1>8. /\ m \in Nat /\ p \in Nat /\ m <= p
      /\ \A i \in 1..(m - 1) : stack'[i] = stack[i]
      /\ \/ pc'[1] = "back"
         \/ pc'[1] = "from" /\ pc'[2] \in Types /\ pc'[3] = p /\ p = m + 1
  BY <1>1, <1>4
<1>9. \A i \in 1..p : LuaValueOf(stack'[i], Len(heap))
  OBVIOUS
<1>10. p = Len(stack') /\ m = Len(stack)
  OBVIOUS
<1> HIDE DEF n, m, p
<1>11. \A k \in 1..n : k \in 1..(n - 1) \/ k = n
  BY <1>5
<1>12. \A k \in 1..n : /\ IsContainer(containers'[k]) /\ containers'[k].to = FALSE
                       /\ containers'[k].at = containers[k].at
  BY <1>5, <1>6, <1>11
<1>13. Typed'
  BY <1>1, <1>2, <1>5, <1>9, <1>10, <1>12 DEF Typed, LuaValue
<1>14. Directed'
  BY <1>2, <1>3, <1>5, <1>8, <1>12 DEF Directed
<1>15. WritePlaced'
  BY <1>2 DEF WritePlaced
<1>16. ReadPlaced'
  <2>1. \A k \in 1..n :
          /\ containers'[k].at < p
          /\ stack'[containers'[k].at][1] = "table"
          /\ \A j \in (k + 1)..n : containers'[k].at + 2 <= containers'[j].at
          /\ pc'[1] = "from" => containers'[k].at + 2 <= pc'[3]
    <3> TAKE k \in 1..n
    <3> DEFINE a == containers[k].at
    <3>1. /\ a < m /\ stack[a][1] = "table" /\ a \in Nat \ {0}
          /\ \A j \in (k + 1)..n : a + 2 <= containers[j].at
          /\ containers'[k].at = a
      BY <1>7, <1>12
    <3> HIDE DEF a
    <3>2. a \in 1..(m - 1) /\ a < p /\ (pc'[1] = "from" => a + 2 <= pc'[3])
      BY <1>8, <3>1
    <3>3. \A j \in (k + 1)..n : containers'[j].at = containers[j].at
      <4> TAKE j \in (k + 1)..n
      <4>1. j \in 1..n
        BY <1>5
      <4> QED
        BY <1>12, <4>1
    <3> QED
      BY <1>8, <3>1, <3>2, <3>3
  <2>2. pc'[1] = "from" => pc'[3] \in 1..p /\ pc'[3] = p
    BY <1>8
  <2> QED
    BY <1>5, <1>10, <2>1, <2>2 DEF ReadPlaced
<1> QED
  BY <1>13, <1>14, <1>15, <1>16 DEF Shaped

\* Lua's lua_next leaves a value where it found a key.
LEMMA NextPushed ==
  ASSUME Shaped, ~Writing, containers # << >>, NEW i \in 1..Len(Pairs), NEW s, s = Down(1) \o Pairs[i]
  PROVE  /\ IsSeq(s) /\ Len(s) = Len(stack) + 1
         /\ \A j \in 1..(Len(stack) - 1) : s[j] = stack[j]
         /\ s[Len(stack)] = Pairs[i][1] /\ s[Len(stack) + 1] = Pairs[i][2]
         /\ \A j \in 1..Len(s) : LuaValueOf(s[j], Len(heap))
<1>1. /\ Typed /\ IsSeq(stack) /\ Len(stack) \in Nat /\ F.at \in Nat \ {0} /\ F.at + 1 <= Len(stack)
      /\ IsTable(Pairs, Len(heap))
  BY FromFacts
<1> DEFINE m == Len(stack)  d == SubSeq(stack, 1, m - 1)  q == Pairs[i]
<1>2. /\ q = <<q[1], q[2]>> /\ LuaValueOf(q[1], Len(heap)) /\ LuaValueOf(q[2], Len(heap))
  BY <1>1 DEF IsTable
<1>3. m \in Nat /\ m >= 2 /\ m = Len(stack)
  BY <1>1
<1>4. \A j \in 1..m : LuaValueOf(stack[j], Len(heap))
  BY <1>1 DEF Typed, LuaValue
<1> HIDE DEF m, q
<1>5. IsSeq(q) /\ Len(q) = 2
  <2> DEFINE S == {q[1], q[2]}
  <2>1. <<q[1], q[2]>> \in Seq(S) /\ Len(<<q[1], q[2]>>) = 2
    OBVIOUS
  <2> HIDE DEF S
  <2>2. q \in Seq(S) /\ Len(q) = 2
    BY <1>2, <2>1
  <2> QED
    BY <2>2, SeqIs
<1>6. IsSeq(d) /\ Len(d) = m - 1 /\ \A j \in 1..(m - 1) : d[j] = stack[j]
  <2>1. 1 \in Nat \ {0} /\ m - 1 \in Nat /\ 1 <= (m - 1) + 1 /\ m - 1 <= Len(stack)
    BY <1>3
  <2>2. /\ IsSeq(d) /\ Len(d) = (m - 1) - 1 + 1
        /\ \A j \in 1..((m - 1) - 1 + 1) : d[j] = stack[1 + j - 1]
    BY <1>1, <2>1, CutSeq
  <2> HIDE DEF d
  <2> QED
    BY <1>3, <2>2
<1> HIDE DEF d
<1>7. s = d \o q
  BY <1>3 DEF Down, d, q
<1>8. /\ IsSeq(s) /\ Len(s) = Len(d) + Len(q)
      /\ \A j \in 1..Len(d) : s[j] = d[j]
      /\ \A j \in 1..Len(q) : s[Len(d) + j] = q[j]
  <2>1. /\ IsSeq(d \o q) /\ Len(d \o q) = Len(d) + Len(q)
        /\ \A j \in 1..Len(d) : (d \o q)[j] = d[j]
        /\ \A j \in 1..Len(q) : (d \o q)[Len(d) + j] = q[j]
    <3>1. IsSeq(d) /\ IsSeq(q)
      BY <1>5, <1>6
    <3> QED
      BY <3>1, JoinSeq
  <2> QED
    BY <1>7, <2>1, Zenon
<1>9. /\ IsSeq(s) /\ Len(s) = m + 1
      /\ \A j \in 1..(m - 1) : s[j] = stack[j]
      /\ s[m] = q[1] /\ s[m + 1] = q[2]
  <2>1. s[(m - 1) + 1] = q[1] /\ s[(m - 1) + 2] = q[2]
    BY <1>5, <1>6, <1>8
  <2>2. (m - 1) + 1 = m /\ (m - 1) + 2 = m + 1
    BY <1>3
  <2> QED
    BY <1>3, <1>5, <1>6, <1>8, <2>1, <2>2
<1>10. \A j \in 1..(m + 1) : LuaValueOf(s[j], Len(heap))
  <2> TAKE j \in 1..(m + 1)
  <2>1. CASE j = m
    BY <1>2, <1>9, <2>1
  <2>2. CASE j = m + 1
    BY <1>2, <1>9, <2>2
  <2>3. CASE j \in 1..(m - 1)
    <3>1. j \in 1..m
      BY <1>3, <2>3
    <3> QED
      BY <1>4, <1>9, <2>3, <3>1
  <2>4. j = m \/ j = m + 1 \/ j \in 1..(m - 1)
    BY <1>3
  <2> QED
    BY <2>1, <2>2, <2>3, <2>4
<1> QED
  BY <1>3, <1>9, <1>10 DEF q

\* A container is written or read as the conversion around it is.
LEMMA ToOrFrom ==
  ASSUME Shaped, containers # << >>
  PROVE  F.to = Writing
<1>1. Typed
  BY DEF Shaped
<1>2. Len(containers) \in 1..Len(containers) /\ F = containers[Len(containers)]
  BY <1>1, Facts
<1> QED
  BY <1>2 DEF Shaped, Directed

\* Stay leaves the innermost container as it was but for its stage and items.
LEMMA StayLemma ==
  ASSUME Typed, containers # << >>, NEW s \in Stages, NEW x, NEW h, NEW f,
         f = F \/ f = Inserted(F, x) \/ f = [F EXCEPT !.held = h], Stay(s, f)
  PROVE  \E g : /\ IsContainer(g) /\ g.to = F.to /\ g.type = F.type /\ g.at = F.at
                /\ g.stage = s /\ Became(g)
<1>1. IsContainer(F) /\ IsSeq(F.items) /\ IsSeq(containers)
  BY Facts DEF Typed, IsContainer
<1>2. \E q, y : IsSeq(q) /\ [f EXCEPT !.stage = s] = At(F, s, q, y)
  <2>1. CASE f = F
    <3>1. [F EXCEPT !.stage = s] = At(F, s, F.items, F.held)
      BY <1>1, ExceptLemma
    <3> QED
      BY <1>1, <2>1, <3>1, Zenon
  <2>2. CASE f = [F EXCEPT !.held = h]
    <3> DEFINE e == F
    <3>1. IsContainer(e) /\ f = Held(e, h)
      BY <1>1, <2>2 DEF Held
    <3> HIDE DEF e
    <3>2. [f EXCEPT !.stage = s] = At(e, s, e.items, h)
      <4>1. [Held(e, h) EXCEPT !.stage = s] = At(e, s, e.items, h)
        BY <3>1, HeldLemma
      <4> QED
        BY <3>1, <4>1
    <3>3. IsSeq(e.items)
      BY <3>1 DEF IsContainer
    <3>4. \E q, y : IsSeq(q) /\ [f EXCEPT !.stage = s] = At(e, s, q, y)
      BY <3>2, <3>3, Zenon
    <3> QED
      BY <3>4 DEF e
  <2>3. CASE f = [F EXCEPT !.items = Append(F.items, x)]
    <3> DEFINE q == Append(F.items, x)
    <3>1. IsSeq(q)
      BY <1>1, AppendSeq
    <3>2. f = [F EXCEPT !.items = q]
      BY <2>3
    <3> HIDE DEF q
    <3>3. [[F EXCEPT !.items = q] EXCEPT !.stage = s] = At(F, s, q, F.held)
      BY <1>1, ExceptLemma
    <3> QED
      BY <3>1, <3>2, <3>3, Zenon
  <2>4. Inserted(F, x) = F \/ Inserted(F, x) = [F EXCEPT !.items = Append(F.items, x)]
    BY DEF Inserted
  <2> QED
    BY <2>1, <2>2, <2>3, <2>4, Zenon
<1>3. PICK q, y : IsSeq(q) /\ [f EXCEPT !.stage = s] = At(F, s, q, y)
  BY <1>2
<1> DEFINE g == At(F, s, q, y)
<1>4. containers' = Append(Outer, g)
  BY <1>3 DEF Stay
<1>5. IsContainer(g) /\ g.to = F.to /\ g.type = F.type /\ g.at = F.at /\ g.stage = s
  BY <1>1, <1>3, AtLemma
<1> HIDE DEF g
<1>6. Became(g)
  BY <1>1, <1>4, BecameLemma
<1> QED
  BY <1>5, <1>6

\* The element or the pair is inserted, or passed over.
LEMMA InsertedShaped ==
  ASSUME Shaped, ~Writing, containers # << >>, IsBack, NEW x,
         Stay("next", IF error THEN F ELSE Inserted(F, x)),
         UNCHANGED <<pc, stack, heap, error, rest, origin>>
  PROVE  Shaped'
<1>1. /\ Typed /\ IsSeq(stack) /\ Len(stack) \in Nat
  BY FromFacts
<1>2. "next" \in Stages
  BY DEF Stages
<1> DEFINE f == IF error THEN F ELSE Inserted(F, x)
<1>3. (f = F \/ f = Inserted(F, x)) /\ Stay("next", f)
  OBVIOUS
<1> HIDE DEF f
<1>4. PICK g : IsContainer(g) /\ g.to = F.to /\ g.at = F.at /\ Became(g)
  BY <1>1, <1>2, <1>3, StayLemma
<1>5. \A i \in 1..Len(stack) : LuaValueOf(stack[i], Len(heap))
  BY <1>1 DEF Typed, LuaValue
<1>6. error' \in BOOLEAN /\ pc'[1] = "back"
  BY <1>1 DEF Typed, Tagged, IsBack
<1> QED
  BY <1>1, <1>4, <1>5, <1>6, ReadBecame

LEMMA FromElementShaped ==
  ASSUME Shaped, FromElement
  PROVE  Shaped'
<1>1. /\ IsBack /\ containers # << >> /\ ~F.to
      /\ Stay("next", IF error THEN F ELSE Inserted(F, pc[2]))
      /\ UNCHANGED <<pc, stack, heap, error, rest, origin>>
  BY DEF FromElement, FromFrame
<1>2. ~Writing
  BY <1>1, ToOrFrom
<1> QED
  BY <1>1, <1>2, InsertedShaped

LEMMA FromPairShaped ==
  ASSUME Shaped, FromPair
  PROVE  Shaped'
<1>1. /\ IsBack /\ containers # << >> /\ ~F.to
      /\ Stay("next", IF error THEN F ELSE Inserted(F, <<pc[2], F.held>>))
      /\ UNCHANGED <<pc, stack, heap, error, rest, origin>>
  BY DEF FromPair, FromFrame
<1>2. ~Writing
  BY <1>1, ToOrFrom
<1> QED
  BY <1>1, <1>2, InsertedShaped

LEMMA FromKeyShaped ==
  ASSUME Shaped, FromKey
  PROVE  Shaped'
<1>1. /\ IsBack /\ containers # << >> /\ ~F.to /\ F.stage = "value" /\ Kind[F.type] = "map"
      /\ UNCHANGED <<heap, error, rest, origin>>
  BY DEF FromKey, FromFrame
<1>2. ~Writing
  BY <1>1, ToOrFrom
<1>3. /\ Typed /\ IsContainer(F) /\ IsSeq(stack) /\ Len(stack) \in Nat
      /\ F.at \in Nat \ {0} /\ F.at + 1 <= Len(stack)
  BY <1>1, <1>2, FromFacts
<1>4. error' \in BOOLEAN
  BY <1>1, <1>3 DEF Typed, Tagged
<1>5. \A i \in 1..Len(stack) : LuaValueOf(stack[i], Len(heap))
  BY <1>3 DEF Typed, LuaValue
<1>6. "next" \in Stages /\ "key" \in Stages
  BY DEF Stages
<1>7. CASE error
  <2>1. Stay("next", F) /\ UNCHANGED <<pc, stack>>
    BY <1>7 DEF FromKey
  <2>2. PICK g : IsContainer(g) /\ g.to = F.to /\ g.at = F.at /\ Became(g)
    BY <1>1, <1>3, <1>6, <2>1, StayLemma
  <2>3. pc'[1] = "back"
    BY <1>1, <2>1 DEF IsBack
  <2> QED
    BY <1>1, <1>2, <1>3, <1>4, <1>5, <2>1, <2>2, <2>3, ReadBecame
<1>8. CASE ~error
  <2> DEFINE v == Last(stack)
  <2>1. /\ Stay("key", [F EXCEPT !.held = pc[2]])
        /\ stack' = Append(stack, v) /\ pc' = <<"from", Key[F.type], Len(stack')>>
    BY <1>8 DEF FromKey, KeyCopied
  <2>2. PICK g : IsContainer(g) /\ g.to = F.to /\ g.at = F.at /\ Became(g)
    <3> DEFINE f == [F EXCEPT !.held = pc[2]]
    <3> DEFINE y == pc[2]
    <3>1. f = [F EXCEPT !.held = y] /\ Stay("key", f)
      BY <2>1
    <3> HIDE DEF f, y
    <3> QED
      BY <1>1, <1>3, <1>6, <3>1, StayLemma
  <2>3. LuaValueOf(v, Len(heap))
    <3>1. Len(stack) \in 1..Len(stack)
      BY <1>3
    <3> QED
      BY <1>5, <3>1 DEF Last
  <2> HIDE DEF v
  <2>4. /\ IsSeq(stack') /\ Len(stack') = Len(stack) + 1
        /\ \A i \in 1..Len(stack) : stack'[i] = stack[i]
        /\ stack'[Len(stack) + 1] = v
    BY <1>3, <2>1, AppendSeq
  <2>5. \A i \in 1..Len(stack') : LuaValueOf(stack'[i], Len(heap))
    <3> TAKE i \in 1..Len(stack')
    <3>1. CASE i = Len(stack) + 1
      BY <2>3, <2>4, <3>1
    <3>2. CASE i \in 1..Len(stack)
      BY <1>5, <2>4, <3>2
    <3> QED
      BY <1>3, <2>4, <3>1, <3>2
  <2>6. pc'[1] = "from" /\ pc'[2] = Key[F.type] /\ pc'[3] = Len(stack')
    BY <2>1
  <2>7. pc'[2] \in Types
    BY <1>1, <1>3, <2>6, ConvertAssumption DEF IsContainer
  <2>8. Len(stack) <= Len(stack') /\ \A i \in 1..(Len(stack) - 1) : stack'[i] = stack[i]
    BY <1>3, <2>4
  <2> QED
    BY <1>1, <1>2, <1>3, <1>4, <2>2, <2>4, <2>5, <2>6, <2>7, <2>8, ReadBecame
<1> QED
  BY <1>7, <1>8

\* The innermost container is there, with s on the stack.
LEMMA ReadClosed ==
  ASSUME Shaped, ~Writing, containers # << >>, NEW s, IsSeq(s), Len(stack) - 1 <= Len(s),
         \A j \in 1..(Len(stack) - 1) : s[j] = stack[j],
         \A j \in 1..Len(s) : LuaValueOf(s[j], Len(heap)),
         FromClose(s)
  PROVE  /\ Shaped' /\ Closed
         /\ IsSeq(stack') /\ Len(stack') = Len(s) - 1 /\ F.at \in 1..Len(s)
         /\ \A j \in 1..(F.at - 1) : stack'[j] = s[j]
         /\ \A j \in F.at..(Len(s) - 1) : stack'[j] = s[j + 1]
<1>1. /\ stack' = RemoveAt(s, F.at) /\ containers' = Outer /\ pc' = <<"back", Content(F)>>
      /\ UNCHANGED <<heap, error, rest, origin>>
  BY DEF FromClose, TableRemoved, Back
<1>2. /\ Typed /\ IsContainer(F) /\ IsSeq(containers) /\ Len(stack) \in Nat
      /\ F.at \in Nat \ {0} /\ F.at + 1 <= Len(stack)
  BY FromFacts
<1>3. Closed
  BY <1>1, <1>2, ClosedLemma
<1> DEFINE n == Len(containers)  m == Len(stack)  p == Len(s)  b == F.at
<1>4. /\ m \in Nat /\ p \in Nat /\ b \in Nat \ {0} /\ b + 1 <= m /\ m - 1 <= p
      /\ \A j \in 1..(m - 1) : s[j] = stack[j]
      /\ \A j \in 1..p : LuaValueOf(s[j], Len(heap))
  BY <1>2 DEF IsSeq
<1>5. b \in 1..p
  <2> HIDE DEF b, m, p
  <2> QED
    BY <1>4
<1>6. /\ IsSeq(stack') /\ Len(stack') = p - 1
      /\ \A j \in 1..(b - 1) : stack'[j] = s[j]
      /\ \A j \in b..(p - 1) : stack'[j] = s[j + 1]
  BY <1>1, <1>5, RemoveSeq
<1>7. Tagged' /\ Writing' = Writing /\ pc'[1] = "back"
  <2>1. pc'[1] = "back" /\ error' \in BOOLEAN
    BY <1>1, <1>2 DEF Typed, Tagged
  <2> QED
    BY <1>1, <1>2, <2>1, TaggedKept
<1>8. /\ \A k \in 1..Len(containers') : /\ containers'[k] = containers[k]
                                        /\ IsContainer(containers'[k])
                                        /\ containers'[k].to = Writing
      /\ IsSeq(containers')
  BY <1>1, <1>3, ClosedContainers
<1>9. Typed'
  <2> DEFINE q == Len(stack')
  <2>1. /\ q = p - 1
        /\ \A j \in 1..(b - 1) : stack'[j] = s[j]
        /\ \A j \in b..(p - 1) : stack'[j] = s[j + 1]
    BY <1>6
  <2> HIDE DEF q, b, p, m
  <2>2. \A j \in 1..q : \E i \in 1..p : stack'[j] = s[i]
    <3> TAKE j \in 1..q
    <3>1. CASE j \in 1..(b - 1)
      <4>1. j \in 1..p
        BY <1>4, <1>5, <3>1
      <4> QED
        BY <2>1, <3>1, <4>1
    <3>2. CASE j \in b..(p - 1)
      <4>1. j + 1 \in 1..p
        BY <1>4, <1>5, <3>2
      <4>2. stack'[j] = s[j + 1]
        BY <2>1, <3>2
      <4> QED
        BY <4>1, <4>2
    <3>3. j \in 1..(b - 1) \/ j \in b..(p - 1)
      BY <1>4, <1>5, <2>1
    <3> QED
      BY <3>1, <3>2, <3>3
  <2>3. \A j \in 1..q : LuaValueOf(stack'[j], Len(heap))
    BY <1>4, <2>2
  <2>4. \A j \in 1..Len(stack') : LuaValueOf(stack'[j], Len(heap'))
    BY <1>1, <2>3 DEF q
  <2> QED
    BY <1>1, <1>2, <1>6, <1>7, <1>8, <2>4 DEF Typed, LuaValue
<1>10. Directed'
  BY <1>7, <1>8 DEF Directed
<1>11. WritePlaced'
  BY <1>7 DEF WritePlaced
<1>12. ReadPlaced'
  <2>1. /\ n \in Nat \ {0} /\ Len(containers') = n - 1 /\ F = containers[n]
        /\ \A k \in 1..(n - 1) : containers'[k] = containers[k]
    BY <1>3 DEF Closed
  <2>2. \A k \in 1..n : /\ containers[k].at < m /\ stack[containers[k].at][1] = "table"
                        /\ \A j \in (k + 1)..n : containers[k].at + 2 <= containers[j].at
                        /\ containers[k].at \in Nat \ {0}
    BY <1>2, Facts DEF Shaped, ReadPlaced
  <2>3. b = containers[n].at
    BY <2>1
  <2>4. Len(stack') = p - 1
    BY <1>6
  <2> HIDE DEF n, m, p, b
  <2>5. \A k \in 1..(n - 1) :
          /\ containers'[k].at < p - 1
          /\ stack'[containers'[k].at][1] = "table"
          /\ \A j \in (k + 1)..(n - 1) : containers'[k].at + 2 <= containers'[j].at
    <3> TAKE k \in 1..(n - 1)
    <3> DEFINE a == containers[k].at
    <3>1. /\ a < m /\ stack[a][1] = "table" /\ a \in Nat \ {0} /\ containers'[k].at = a
          /\ \A j \in (k + 1)..n : a + 2 <= containers[j].at
      BY <2>1, <2>2
    <3>2. n \in (k + 1)..n
      BY <2>1
    <3>3. a + 2 <= b
      BY <2>3, <3>1, <3>2
    <3> HIDE DEF a
    <3>4. a \in 1..(b - 1) /\ a \in 1..(m - 1) /\ a < p - 1
      BY <1>4, <1>5, <3>1, <3>3
    <3>5. stack'[a] = stack[a]
      BY <1>4, <1>6, <3>4
    <3>6. \A j \in (k + 1)..(n - 1) : j \in (k + 1)..n /\ j \in 1..(n - 1)
      BY <2>1
    <3> QED
      BY <2>1, <3>1, <3>4, <3>5, <3>6
  <2> QED
    BY <1>7, <2>1, <2>4, <2>5 DEF ReadPlaced
<1> QED
  BY <1>3, <1>5, <1>6, <1>9, <1>10, <1>11, <1>12 DEF Shaped

\* lua_next goes on behind the key, or is at the end.
LEMMA AfterIs ==
  ASSUME NEW k, Known(k), Len(Pairs) \in Nat
  PROVE  After(k) \in 1..(Len(Pairs) + 1)
<1>1. CASE k = <<Nil>>
  BY <1>1 DEF After
<1>2. CASE k # <<Nil>>
  <2> DEFINE i == CHOOSE i \in 1..Len(Pairs) : Pairs[i][1] = k
  <2>1. i \in 1..Len(Pairs)
    BY <1>2 DEF Known
  <2>2. After(k) = 1 + i
    BY <1>2 DEF After
  <2> HIDE DEF i
  <2> QED
    BY <2>1, <2>2
<1> QED
  BY <1>1, <1>2

\* Down(1), which has what the stack had below its top.
LEMMA DownSeq ==
  ASSUME IsSeq(stack), Len(stack) \in Nat \ {0}, NEW s, s = Down(1)
  PROVE  /\ IsSeq(s) /\ Len(s) = Len(stack) - 1
         /\ \A j \in 1..(Len(stack) - 1) : s[j] = stack[j]
<1> DEFINE m == Len(stack)  d == SubSeq(stack, 1, m - 1)
<1>1. m \in Nat \ {0} /\ m = Len(stack)
  OBVIOUS
<1> HIDE DEF m
<1>2. 1 \in Nat \ {0} /\ m - 1 \in Nat /\ 1 <= (m - 1) + 1 /\ m - 1 <= Len(stack)
  BY <1>1
<1>3. /\ IsSeq(d) /\ Len(d) = (m - 1) - 1 + 1
      /\ \A j \in 1..((m - 1) - 1 + 1) : d[j] = stack[1 + j - 1]
  BY <1>2, CutSeq
<1>4. s = d
  BY DEF Down, d, m
<1> HIDE DEF d
<1>5. Len(d) = m - 1 /\ \A j \in 1..(m - 1) : d[j] = stack[j]
  BY <1>1, <1>3
<1> QED
  BY <1>1, <1>3, <1>4, <1>5

LEMMA FromNextShaped ==
  ASSUME Shaped, FromNext
  PROVE  Shaped'
<1>1. /\ IsBack /\ containers # << >> /\ ~F.to /\ F.stage = "next" /\ Known(Last(stack))
  BY DEF FromNext, FromFrame
<1>2. ~Writing
  BY <1>1, ToOrFrom
<1>3. /\ Typed /\ IsContainer(F) /\ IsSeq(stack) /\ Len(stack) \in Nat
      /\ F.at \in Nat \ {0} /\ F.at + 1 <= Len(stack) /\ IsTable(Pairs, Len(heap))
  BY <1>1, <1>2, FromFacts
<1>4. \A j \in 1..Len(stack) : LuaValueOf(stack[j], Len(heap))
  BY <1>3 DEF Typed, LuaValue
<1> DEFINE i == After(Last(stack))
<1>5. i \in 1..(Len(Pairs) + 1) /\ Len(Pairs) \in Nat
  <2>1. Len(Pairs) \in Nat
    BY <1>3 DEF IsTable, IsSeq
  <2> QED
    BY <1>1, <2>1, AfterIs
<1>6. /\ i > Len(Pairs) => FromClose(Down(1))
      /\ ~(i > Len(Pairs)) /\ error => FromClose(Down(1) \o Pairs[i])
      /\ ~(i > Len(Pairs)) /\ ~error =>
           /\ stack' = Down(1) \o Pairs[i]
           /\ Stay("value", F)
           /\ pc' = <<"from", Elem[F.type], Len(stack) + 1>>
           /\ UNCHANGED <<heap, error, rest, origin>>
  BY DEF FromNext
<1> HIDE DEF i
<1>7. CASE i > Len(Pairs)
  <2> DEFINE s == Down(1)
  <2>1. FromClose(s) /\ Len(stack) \in Nat \ {0}
    BY <1>3, <1>6, <1>7
  <2>2. /\ IsSeq(s) /\ Len(s) = Len(stack) - 1
        /\ \A j \in 1..(Len(stack) - 1) : s[j] = stack[j]
    BY <1>3, <2>1, DownSeq
  <2> HIDE DEF s
  <2>3. \A j \in 1..Len(s) : LuaValueOf(s[j], Len(heap))
    BY <1>3, <1>4, <2>2
  <2>4. Len(stack) - 1 <= Len(s)
    BY <1>3, <2>2
  <2> QED
    BY <1>1, <1>2, <2>1, <2>2, <2>3, <2>4, ReadClosed
<1>8. CASE ~(i > Len(Pairs))
  <2> DEFINE s == Down(1) \o Pairs[i]
  <2>1. i \in 1..Len(Pairs)
    BY <1>5, <1>8
  <2>2. /\ IsSeq(s) /\ Len(s) = Len(stack) + 1
        /\ \A j \in 1..(Len(stack) - 1) : s[j] = stack[j]
        /\ \A j \in 1..Len(s) : LuaValueOf(s[j], Len(heap))
    BY <1>1, <1>2, <2>1, NextPushed
  <2>3. CASE error
    <3>1. FromClose(s)
      BY <1>6, <1>8, <2>3
    <3> HIDE DEF s
    <3>2. Len(stack) - 1 <= Len(s)
      BY <1>3, <2>2
    <3> QED
      BY <1>1, <1>2, <2>2, <3>1, <3>2, ReadClosed
  <2>4. CASE ~error
    <3>1. /\ stack' = s /\ Stay("value", F) /\ pc' = <<"from", Elem[F.type], Len(stack) + 1>>
          /\ UNCHANGED <<heap, error, rest, origin>>
      BY <1>6, <1>8, <2>4
    <3> HIDE DEF s
    <3>2. "value" \in Stages
      BY DEF Stages
    <3>3. PICK g : IsContainer(g) /\ g.to = F.to /\ g.at = F.at /\ Became(g)
      BY <1>1, <1>3, <3>1, <3>2, StayLemma
    <3>4. error' \in BOOLEAN
      BY <1>3, <3>1 DEF Typed, Tagged
    <3>5. pc'[1] = "from" /\ pc'[2] = Elem[F.type] /\ pc'[3] = Len(stack) + 1
      BY <3>1
    <3>6. pc'[2] \in Types
      BY <1>3, <3>5, ConvertAssumption DEF IsContainer
    <3>7. /\ IsSeq(stack') /\ Len(stack') = Len(stack) + 1 /\ Len(stack) <= Len(stack')
          /\ \A j \in 1..(Len(stack) - 1) : stack'[j] = stack[j]
          /\ \A j \in 1..Len(stack') : LuaValueOf(stack'[j], Len(heap))
      BY <1>3, <2>2, <3>1
    <3> QED
      BY <1>1, <1>2, <3>1, <3>3, <3>4, <3>5, <3>6, <3>7, ReadBecame
  <2> QED
    BY <2>3, <2>4
<1> QED
  BY <1>7, <1>8

LEMMA FromRaiseShaped ==
  ASSUME Shaped, FromRaise
  PROVE  Shaped'
<1>1. /\ containers # << >> /\ ~F.to /\ pc' = <<"raised", None>>
      /\ containers' = << >> /\ stack' = << >>
      /\ UNCHANGED <<heap, error, rest, origin>>
  BY DEF FromRaise, FromFrame
<1>2. ~Writing
  BY <1>1, ToOrFrom
<1>3. Typed
  BY DEF Shaped
<1>4. pc'[1] = "raised" /\ Tagged' /\ Writing' = Writing
  <2>1. pc'[1] = "raised" /\ error' \in BOOLEAN
    BY <1>1, <1>3 DEF Typed, Tagged
  <2> QED
    BY <1>1, <1>3, <2>1, TaggedKept
<1>5. IsSeq(stack') /\ IsSeq(containers') /\ Len(stack') = 0 /\ Len(containers') = 0
  BY <1>1, EmptyIs
<1>6. Typed'
  BY <1>1, <1>3, <1>4, <1>5 DEF Typed, LuaValue
<1>7. Directed'
  BY <1>1, <1>2, <1>4, <1>5 DEF Directed
<1>8. WritePlaced' /\ ReadPlaced'
  BY <1>2, <1>4, <1>5 DEF WritePlaced, ReadPlaced
<1> QED
  BY <1>6, <1>7, <1>8 DEF Shaped

LEMMA FinishShaped ==
  ASSUME Shaped, Finish
  PROVE  Shaped'
<1>1. /\ IsBack /\ containers = << >> /\ pc' = <<"end", pc[2]>>
      /\ UNCHANGED <<containers, stack, heap, error, rest, origin>>
  BY DEF Finish
<1>2. Typed /\ pc[1] = "back"
  BY <1>1 DEF Shaped, IsBack
<1>3. pc'[1] = "end" /\ Tagged' /\ Writing' = Writing
  <2>1. pc'[1] = "end" /\ error' \in BOOLEAN
    BY <1>1, <1>2 DEF Typed, Tagged
  <2> QED
    BY <1>1, <1>2, <2>1, TaggedKept
<1>4. Len(containers') = 0
  BY <1>1, EmptyIs
<1>5. Typed'
  BY <1>1, <1>2, <1>3 DEF Typed, LuaValue
<1>6. Directed'
  BY <1>1, <1>3, <1>4 DEF Directed
<1>7. WritePlaced'
  <2>1. Writing /\ ~error => Len(stack) = Wanted
    BY <1>2 DEF Shaped, WritePlaced
  <2>2. Stacked'
    BY <1>4 DEF Stacked
  <2> QED
    BY <1>1, <1>3, <2>1, <2>2 DEF WritePlaced, Wanted
<1>8. ReadPlaced'
  BY <1>3, <1>4 DEF ReadPlaced
<1> QED
  BY <1>5, <1>6, <1>7, <1>8 DEF Shaped

\* What is converted; the tables do not change while Lua's are read.
Original ==
  /\ origin.type \in Types
  /\ origin.by \in {"cpp", "back"} => <<origin.type, origin.value>> \in Values
  /\ origin.by = "lua" =>
       \E s \in Scripts : s[1] = heap /\ s[2] = origin.value /\ s[3] = origin.type

LEMMA ReadBackShaped ==
  ASSUME Shaped, Original, NEW above \in {<< >>, << <<"integer", 0>> >>}, ReadBack(above)
  PROVE  Shaped'
<1>1. /\ pc[1] = "end" /\ ~error /\ origin.by = "cpp" /\ pc' = <<"from", origin.type, 1>>
      /\ stack' = stack \o above /\ origin' = [origin EXCEPT !.by = "back"]
      /\ UNCHANGED <<containers, heap, error>>
  BY DEF ReadBack
<1>2. /\ Typed /\ Writing /\ containers = << >> /\ IsSeq(stack)
  BY <1>1 DEF Shaped, Typed, Writing, Directed
<1>3. Len(stack) = 1
  BY <1>1, <1>2 DEF Shaped, WritePlaced, Wanted
<1>4. Tagged' /\ ~Writing' /\ pc'[1] = "from" /\ pc'[2] = origin.type /\ pc'[3] = 1
  <2>1. pc'[1] = "from" /\ pc'[2] = origin.type /\ pc'[3] = 1
    BY <1>1
  <2>2. origin' = [type |-> origin.type, value |-> origin.value, by |-> "back"]
    BY <1>1, <1>2 DEF Typed, Tagged
  <2>3. Tagged'
    BY <1>1, <1>2, <2>1, <2>2 DEF Typed, Tagged
  <2>4. origin'.by = "back"
    BY <2>2
  <2> QED
    BY <2>1, <2>3, <2>4 DEF Writing
<1>5. /\ IsSeq(above) /\ Len(above) \in {0, 1}
      /\ \A i \in 1..Len(above) : LuaValueOf(above[i], Len(heap))
  <2>1. CASE above = << >>
    BY <2>1, EmptyIs
  <2>2. CASE above = << <<"integer", 0>> >>
    <3>1. above \in Seq({<<"integer", 0>>}) /\ Len(above) = 1 /\ above[1] = <<"integer", 0>>
      BY <2>2
    <3>2. LuaValueOf(<<"integer", 0>>, Len(heap))
      BY ConvertAssumption DEF LuaValueOf
    <3> QED
      BY <3>1, <3>2, SeqIs
  <2> QED
    BY <2>1, <2>2
<1>6. /\ IsSeq(stack') /\ Len(stack') = Len(stack) + Len(above)
      /\ \A i \in 1..Len(stack) : stack'[i] = stack[i]
      /\ \A i \in 1..Len(above) : stack'[Len(stack) + i] = above[i]
  <2>1. /\ IsSeq(stack \o above) /\ Len(stack \o above) = Len(stack) + Len(above)
        /\ \A i \in 1..Len(stack) : (stack \o above)[i] = stack[i]
        /\ \A i \in 1..Len(above) : (stack \o above)[Len(stack) + i] = above[i]
    BY <1>2, <1>5, JoinSeq
  <2> QED
    BY <1>1, <2>1, Zenon
<1>7. \A i \in 1..Len(stack') : LuaValueOf(stack'[i], Len(heap))
  <2>1. \A i \in 1..Len(stack) : LuaValueOf(stack[i], Len(heap))
    BY <1>2 DEF Typed, LuaValue
  <2> TAKE i \in 1..Len(stack')
  <2>2. CASE i = 1
    BY <1>3, <1>6, <2>1, <2>2
  <2>3. CASE i # 1
    <3>1. Len(above) = 1 /\ i = 1 + 1
      BY <1>3, <1>5, <1>6, <2>3
    <3>2. stack'[1 + 1] = above[1]
      BY <1>3, <1>6, <3>1
    <3> QED
      BY <1>5, <3>1, <3>2
  <2> QED
    BY <2>2, <2>3
<1>8. Typed'
  BY <1>1, <1>2, <1>4, <1>6, <1>7 DEF Typed, LuaValue
<1>9. Len(containers') = 0
  BY <1>1, <1>2, EmptyIs
<1>10. origin.type \in Types
  BY DEF Original
<1>11. Directed'
  BY <1>1, <1>4, <1>9, <1>10 DEF Directed
<1>12. WritePlaced'
  BY <1>4 DEF WritePlaced
<1>13. ReadPlaced'
  <2>1. 1 \in 1..Len(stack')
    BY <1>3, <1>5, <1>6
  <2> QED
    BY <1>1, <1>2, <1>4, <1>9, <2>1 DEF ReadPlaced
<1> QED
  BY <1>8, <1>11, <1>12, <1>13 DEF Shaped

LEMMA OriginalInit == ConvertInit => Original
<1> SUFFICES ASSUME ConvertInit PROVE Original
  OBVIOUS
<1>1. ASSUME NEW vt \in Values, origin = [type |-> vt[1], value |-> vt[2], by |-> "cpp"]
      PROVE  Original
  <2>1. vt = <<vt[1], vt[2]>> /\ vt[1] \in Types
    BY ValuesAssumption
  <2>2. origin.type = vt[1] /\ origin.value = vt[2] /\ origin.by = "cpp"
    BY <1>1
  <2> QED
    BY <2>1, <2>2 DEF Original
<1>2. ASSUME NEW s \in Scripts, heap = s[1],
             origin = [type |-> s[3], value |-> s[2], by |-> "lua"]
      PROVE  Original
  <2>1. s[3] \in Types
    BY ScriptsAssumption
  <2>2. origin.type = s[3] /\ origin.value = s[2] /\ origin.by = "lua"
    BY <1>2
  <2> QED
    BY <1>2, <2>1, <2>2 DEF Original
<1> QED
  BY <1>1, <1>2 DEF ConvertInit

LEMMA OriginalStep ==
  ASSUME Shaped, Original, [ConvertNext]_convertVars
  PROVE  Original'
<1>1. CASE UNCHANGED convertVars
  BY <1>1 DEF Original, convertVars
<1>2. ASSUME Writing, UNCHANGED origin
      PROVE  Original'
  BY <1>2 DEF Original, Writing
<1>3. ASSUME UNCHANGED <<heap, origin>>
      PROVE  Original'
  BY <1>3 DEF Original
<1>4. CASE ToBasic \/ ToEnum \/ ToUnknown \/ ToNext \/ ToValue \/ ToClose
  BY <1>3, <1>4 DEF ToBasic, ToEnum, ToUnknown, ToNext, ToValue, ToClose
<1>5. CASE ToOpen
  <2>1. Writing /\ UNCHANGED origin
    BY <1>5 DEF ToOpen, Shaped, Directed
  <2> QED
    BY <1>2, <2>1
<1>6. CASE ToSettled
  <2>1. containers # << >> /\ F.to /\ UNCHANGED origin
    BY <1>6 DEF ToSettled, ToFrame
  <2> QED
    BY <1>2, <2>1, ToOrFrom
<1>7. CASE FromBasic \/ FromEnum \/ FromOpen \/ FromRaise
  BY <1>3, <1>7 DEF FromBasic, FromEnum, FromOpen, FromRaise
<1>8. CASE FromNext
  <2>1. UNCHANGED <<heap, origin>>
    BY <1>8 DEF FromNext, FromClose
  <2> QED
    BY <1>3, <2>1
<1>9. CASE FromElement \/ FromKey \/ FromPair \/ Finish
  BY <1>3, <1>9 DEF FromElement, FromKey, FromPair, Finish
<1>10. ASSUME NEW above \in {<< >>, << <<"integer", 0>> >>}, ReadBack(above)
       PROVE  Original'
  <2>1. origin.by = "cpp" /\ origin' = [origin EXCEPT !.by = "back"]
    BY <1>10 DEF ReadBack
  <2>2. origin = [type |-> origin.type, value |-> origin.value, by |-> origin.by]
    BY DEF Shaped, Typed, Tagged
  <2>3. origin' = [type |-> origin.type, value |-> origin.value, by |-> "back"]
    BY <2>1, <2>2
  <2>4. origin'.type = origin.type /\ origin'.value = origin.value /\ origin'.by = "back"
    BY <2>3
  <2> QED
    BY <2>1, <2>4 DEF Original
<1> QED
  BY <1>1, <1>4, <1>5, <1>6, <1>7, <1>8, <1>9, <1>10 DEF ConvertNext, Step

LEMMA ShapedStep ==
  ASSUME Shaped, Original, [ConvertNext]_convertVars
  PROVE  Shaped'
<1>1. CASE UNCHANGED convertVars
  BY <1>1 DEF convertVars, Shaped, Typed, Tagged, Directed, WritePlaced, ReadPlaced, Stacked,
              Wanted, Writing, LuaValue, Height, F
<1>2. CASE ToBasic
  BY <1>2, ToBasicShaped
<1>3. CASE ToEnum
  BY <1>3, ToEnumShaped
<1>4. CASE ToUnknown
  BY <1>4, ToUnknownShaped
<1>5. CASE ToOpen
  BY <1>5, ToOpenShaped
<1>6. CASE ToNext
  BY <1>6, ToNextShaped
<1>7. CASE ToValue
  BY <1>7, ToValueShaped
<1>8. CASE ToSettled
  BY <1>8, ToSettledShaped
<1>9. CASE ToClose
  BY <1>9, ToCloseShaped
<1>10. CASE FromBasic
  BY <1>10, FromBasicShaped
<1>11. CASE FromEnum
  BY <1>11, FromEnumShaped
<1>12. CASE FromOpen
  BY <1>12, FromOpenShaped
<1>13. CASE FromNext
  BY <1>13, FromNextShaped
<1>14. CASE FromRaise
  BY <1>14, FromRaiseShaped
<1>15. CASE FromElement
  BY <1>15, FromElementShaped
<1>16. CASE FromKey
  BY <1>16, FromKeyShaped
<1>17. CASE FromPair
  BY <1>17, FromPairShaped
<1>18. CASE Finish
  BY <1>18, FinishShaped
<1>19. ASSUME NEW above \in {<< >>, << <<"integer", 0>> >>}, ReadBack(above)
       PROVE  Shaped'
  BY <1>19, ReadBackShaped
<1> QED
  BY <1>1, <1>2, <1>3, <1>4, <1>5, <1>6, <1>7, <1>8, <1>9, <1>10, <1>11, <1>12, <1>13, <1>14,
     <1>15, <1>16, <1>17, <1>18, <1>19 DEF ConvertNext, Step

LEMMA ShapedAlways == ConvertSpec => [](Shaped /\ Original)
<1>1. ConvertInit => Shaped /\ Original
  BY ShapedInit, OriginalInit
<1>2. Shaped /\ Original /\ [ConvertNext]_convertVars => (Shaped /\ Original)'
  BY ShapedStep, OriginalStep
<1> QED
  BY <1>1, <1>2, PTL DEF ConvertSpec

(***************************************************************************)
(* The type invariant of the conversions: the values on the stack and in   *)
(* tables are values of Lua, and a container that is read finds its table  *)
(* at its place, however deep the conversions of elements go.              *)
(***************************************************************************)
THEOREM ConvertTypes == ConvertSpec => []ConvertTypeOK
<1>1. ASSUME Shaped
      PROVE  ConvertTypeOK
  <2>1. Typed /\ Tagged /\ Directed
    BY <1>1 DEF Shaped, Typed
  <2>2. pc[1] \in {"to", "from", "back", "end", "raised"} /\ error \in BOOLEAN
    BY <2>1 DEF Tagged
  <2>3. pc[1] \in {"to", "from"} => pc[2] \in Types
    BY <2>1 DEF Directed
  <2>4. \A i \in 1..Len(stack) : LuaValue(stack[i])
    BY <2>1 DEF Typed
  <2>5. \A t \in 1..Len(heap) : \A i \in 1..Len(heap[t]) :
          LuaValue(heap[t][i][1]) /\ LuaValue(heap[t][i][2])
    BY <2>1 DEF Typed, IsTable, LuaValue
  <2>6. \A k \in 1..Len(containers) :
          /\ containers[k].stage \in {"next", "key", "value"}
          /\ ~containers[k].to => stack[containers[k].at][1] = "table"
    <3> TAKE k \in 1..Len(containers)
    <3>1. containers[k].stage \in {"next", "key", "value"}
      BY <2>1 DEF Typed, IsContainer
    <3>2. ASSUME ~containers[k].to
          PROVE  stack[containers[k].at][1] = "table"
      BY <1>1, <2>1, <3>2 DEF Directed, Shaped, ReadPlaced
    <3> QED
      BY <3>1, <3>2
  <2> QED
    BY <2>2, <2>3, <2>4, <2>5, <2>6 DEF ConvertTypeOK
<1> QED
  BY <1>1, ShapedAlways, PTL

------------------------------------------------------------------------------
(***************************************************************************)
(* Where the keys of lua_next are, while a value without objects is read   *)
(* and nothing has failed.                                                 *)
(***************************************************************************)

\* The table of the container k, and where on the stack its key is.
Table(k) == heap[stack[containers[k].at][2]]

KeyAt(k) == Len(rest) + 2 * k

Reading == ~Writing /\ origin.type \in Plain

\* A container has one key on the stack, and one that its table has.
Keyed(k) ==
  /\ containers[k].at = IF k = 1 THEN 1 ELSE KeyAt(k) - 1
  /\ \/ stack[KeyAt(k)] = <<Nil>>
     \/ \E j \in 1..Len(Table(k)) : Table(k)[j][1] = stack[KeyAt(k)]

LaidOut ==
  /\ IsSeq(rest)
  /\ Reading =>
       /\ pc[1] = "from" => pc[2] \in Plain /\ ~error
       /\ \A k \in 1..Len(containers) : containers[k].type \in Plain
       /\ pc[1] = "raised" => error
       /\ ~error =>
            /\ pc[1] = "from" => /\ Len(stack) = KeyAt(Len(containers)) + 1
                                 /\ containers = << >> => pc[3] = 1
            /\ pc[1] = "back" => Len(stack) = KeyAt(Len(containers))
            /\ pc[1] = "from" \/ containers # << >> =>
                 \A i \in 1..Len(rest) : stack[i + 1] = rest[i]
            /\ pc[1] \in {"back", "end"} /\ containers = << >> => stack = rest
            /\ \A k \in 1..Len(containers) : Keyed(k)

LEMMA SameSeq ==
  ASSUME NEW s, IsSeq(s), NEW r, IsSeq(r), Len(s) = Len(r), \A i \in 1..Len(r) : s[i] = r[i]
  PROVE  s = r
<1>1. s = [i \in 1..Len(r) |-> s[i]] /\ r = [i \in 1..Len(r) |-> r[i]]
  BY DEF IsSeq
<1>2. [i \in 1..Len(r) |-> s[i]] = [i \in 1..Len(r) |-> r[i]]
  OBVIOUS
<1> QED
  BY <1>1, <1>2, Zenon

LEMMA KeyedKept ==
  ASSUME Len(rest) \in Nat, NEW k \in Nat \ {0}, Keyed(k), containers'[k].at = containers[k].at,
         UNCHANGED <<heap, rest>>, \A i \in 1..KeyAt(k) : stack'[i] = stack[i]
  PROVE  Keyed(k)'
<1>1. /\ KeyAt(k) \in 1..KeyAt(k) /\ KeyAt(k)' = KeyAt(k)
      /\ (IF k = 1 THEN 1 ELSE KeyAt(k) - 1) \in 1..KeyAt(k)
  BY DEF KeyAt
<1>2. stack'[KeyAt(k)] = stack[KeyAt(k)]
  BY <1>1
<1>3. stack'[containers[k].at] = stack[containers[k].at]
  BY <1>1 DEF Keyed
<1>4. Table(k)' = Table(k)
  BY <1>3 DEF Table
<1> QED
  BY <1>1, <1>2, <1>4 DEF Keyed

LEMMA LaidFacts ==
  ASSUME Shaped, LaidOut, Reading
  PROVE  /\ Typed /\ IsSeq(stack) /\ IsSeq(containers) /\ IsSeq(rest)
         /\ Len(stack) \in Nat /\ Len(rest) \in Nat /\ Len(containers) \in Nat
         /\ ~Writing /\ KeyAt(Len(containers)) \in Nat
         /\ \A k \in 1..Len(containers) :
              /\ containers[k].type \in Plain /\ k \in Nat \ {0}
              /\ KeyAt(k) \in Nat \ {0} /\ KeyAt(k) <= KeyAt(Len(containers))
              /\ ~error => Keyed(k)
         /\ containers # << >> => /\ Len(containers) \in 1..Len(containers)
                                  /\ F = containers[Len(containers)]
<1>1. Typed /\ IsSeq(stack) /\ IsSeq(containers) /\ IsSeq(rest) /\ ~Writing
  BY DEF Shaped, Typed, LaidOut, Reading
<1>2. Len(stack) \in Nat /\ Len(rest) \in Nat /\ Len(containers) \in Nat
  BY <1>1 DEF IsSeq
<1>3. containers # << >> => Len(containers) \in 1..Len(containers) /\ F = containers[Len(containers)]
  BY <1>1, <1>2, Facts
<1>4. \A k \in 1..Len(containers) : containers[k].type \in Plain /\ (~error => Keyed(k))
  BY DEF LaidOut
<1>5. /\ KeyAt(Len(containers)) \in Nat
      /\ \A k \in 1..Len(containers) : /\ k \in Nat \ {0} /\ KeyAt(k) \in Nat \ {0}
                                       /\ KeyAt(k) <= KeyAt(Len(containers))
  BY <1>2 DEF KeyAt
<1> QED
  BY <1>1, <1>2, <1>3, <1>4, <1>5

LEMMA LaidIdle ==
  ASSUME LaidOut, ~Reading, UNCHANGED <<rest, origin>>
  PROVE  LaidOut'
  BY DEF LaidOut, Reading, Writing

\* After an error only the types matter.
LEMMA LaidFailed ==
  ASSUME LaidOut, Reading, UNCHANGED <<rest, origin>>, error', pc'[1] # "from",
         \A k \in 1..Len(containers') : containers'[k].type \in Plain
  PROVE  LaidOut'
  BY DEF LaidOut

LEMMA InitLaid == ConvertInit => LaidOut
<1> SUFFICES ASSUME ConvertInit PROVE LaidOut
  OBVIOUS
<1>1. /\ IsSeq(rest) /\ Len(rest) = 0 /\ ~error /\ containers = << >> /\ Len(containers) = 0
  BY EmptyIs DEF ConvertInit
<1>2. ASSUME NEW s \in Scripts,
             pc = <<"from", s[3], 1>>, stack = <<s[2]>>,
             origin = [type |-> s[3], value |-> s[2], by |-> "lua"],
             Reading
      PROVE  LaidOut
  <2>1. pc[1] = "from" /\ pc[2] \in Plain /\ pc[3] = 1 /\ Len(stack) = 1
    BY <1>2 DEF Reading
  <2> QED
    BY <1>1, <2>1 DEF LaidOut, KeyAt
<1>3. ASSUME ~Reading PROVE LaidOut
  BY <1>1, <1>3 DEF LaidOut
<1>4. ASSUME NEW vt \in Values, origin = [type |-> vt[1], value |-> vt[2], by |-> "cpp"]
      PROVE  ~Reading
  BY <1>4 DEF Reading, Writing
<1> QED
  BY <1>2, <1>3, <1>4 DEF ConvertInit

\* What was converted has been removed.
LEMMA ConsumedLaid ==
  ASSUME Shaped, LaidOut, Reading, pc[1] = "from", pc'[1] = "back", ~error', ~error,
         stack' = RemoveAt(stack, pc[3]),
         UNCHANGED <<containers, heap, rest, origin>>
  PROVE  LaidOut'
<1> DEFINE n == Len(containers)  m == Len(stack)  b == Len(rest)
<1>1. /\ IsSeq(stack) /\ IsSeq(rest) /\ n \in Nat /\ m \in Nat /\ b \in Nat
      /\ \A k \in 1..n : containers[k].type \in Plain /\ k \in Nat \ {0} /\ Keyed(k)
  BY LaidFacts
<1>2. /\ m = KeyAt(n) + 1
      /\ containers = << >> => pc[3] = 1 /\ n = 0
      /\ \A i \in 1..b : stack[i + 1] = rest[i]
  BY EmptyIs DEF LaidOut
<1>3. pc[3] \in 1..m /\ (containers # << >> => pc[3] = m /\ n > 0)
  BY <1>1, Facts DEF Shaped, ReadPlaced, Reading
<1>4. /\ IsSeq(stack') /\ Len(stack') = m - 1
      /\ \A i \in 1..(pc[3] - 1) : stack'[i] = stack[i]
      /\ \A i \in pc[3]..(m - 1) : stack'[i] = stack[i + 1]
  BY <1>1, <1>3, RemoveSeq
<1>5. b = Len(rest) /\ n = Len(containers)
  OBVIOUS
<1> HIDE DEF n, m, b
<1>6. m = b + 2 * n + 1 /\ KeyAt(n) = m - 1
  BY <1>1, <1>2, <1>5 DEF KeyAt
<1>7. containers = << >> => stack' = rest
  <2> SUFFICES ASSUME containers = << >> PROVE stack' = rest
    OBVIOUS
  <2>1. m - 1 = b /\ pc[3] = 1
    BY <1>1, <1>2, <1>6
  <2>2. \A i \in 1..b : stack'[i] = rest[i]
    BY <1>2, <1>4, <2>1
  <2> QED
    BY <1>1, <1>4, <1>5, <2>1, <2>2, SameSeq
<1>8. containers # << >> => /\ \A i \in 1..b : stack'[i + 1] = rest[i]
                            /\ \A k \in 1..n : Keyed(k)'
  <2> SUFFICES ASSUME containers # << >>
               PROVE  /\ \A i \in 1..b : stack'[i + 1] = rest[i]
                      /\ \A k \in 1..n : Keyed(k)'
    OBVIOUS
  <2>1. \A i \in 1..(m - 1) : stack'[i] = stack[i]
    BY <1>3, <1>4
  <2>2. \A i \in 1..b : i + 1 \in 1..(m - 1)
    BY <1>1, <1>3, <1>6
  <2>3. \A k \in 1..n : \A i \in 1..KeyAt(k) : i \in 1..(m - 1)
    BY <1>1, <1>5, <1>6 DEF KeyAt
  <2>4. ASSUME NEW k \in 1..n PROVE Keyed(k)'
    <3>1. \A i \in 1..KeyAt(k) : stack'[i] = stack[i]
      BY <2>1, <2>3
    <3> QED
      BY <1>1, <1>5, <3>1, KeyedKept
  <2> QED
    BY <1>2, <2>1, <2>2, <2>4
<1>9. Len(stack') = KeyAt(n) /\ KeyAt(n)' = KeyAt(n) /\ n' = n
  BY <1>4, <1>6 DEF KeyAt, n
<1>10. \A k \in 1..n : Keyed(k)'
  <2>1. containers = << >> => n = 0
    BY <1>2
  <2> QED
    BY <1>8, <2>1
<1>11. /\ Len(stack') = KeyAt(Len(containers))' /\ Len(containers') = n /\ rest' = rest
       /\ \A k \in 1..Len(containers') : containers'[k].type \in Plain
  BY <1>1, <1>5, <1>9 DEF n
<1>12. b = Len(rest')
  BY <1>11 DEF b
<1> QED
  BY <1>1, <1>5, <1>7, <1>8, <1>10, <1>11, <1>12 DEF LaidOut

LEMMA FromBasicLaid ==
  ASSUME Shaped, LaidOut, FromBasic
  PROVE  LaidOut'
<1>1. pc[1] = "from" /\ UNCHANGED <<containers, heap, rest, origin>> /\ \E x : pc' = <<"back", x>>
  BY DEF FromBasic, Back
<1>2. CASE ~Reading
  BY <1>1, <1>2, LaidIdle
<1>3. CASE Reading
  <2>1. pc'[1] = "back" /\ pc[2] \in Plain /\ pc[2] \in Types /\ ~error
    BY <1>1, <1>3 DEF LaidOut, Shaped, Directed
  <2>2. \A k \in 1..Len(containers) : containers[k].type \in Plain
    BY <1>3 DEF LaidOut
  <2>3. CASE error'
    BY <1>1, <1>3, <2>1, <2>2, <2>3, LaidFailed
  <2>4. CASE ~error'
    <3>1. Readable(pc[2], stack[pc[3]])
      BY <2>4 DEF FromBasic
    <3>2. stack' = RemoveAt(stack, pc[3])
      BY <2>1, <3>1, ConvertAssumption DEF FromBasic, Removed
    <3> QED
      BY <1>1, <1>3, <2>1, <2>4, <3>2, ConsumedLaid
  <2> QED
    BY <2>3, <2>4
<1> QED
  BY <1>2, <1>3

LEMMA FromEnumLaid ==
  ASSUME Shaped, LaidOut, FromEnum
  PROVE  LaidOut'
<1>1. /\ pc[1] = "from" /\ Kind[pc[2]] = "enum"
      /\ UNCHANGED <<containers, heap, rest, origin>> /\ \E x : pc' = <<"back", x>>
  BY DEF FromEnum, Back
<1>2. CASE ~Reading
  BY <1>1, <1>2, LaidIdle
<1>3. CASE Reading
  <2>1. pc'[1] = "back" /\ ~error
    BY <1>1, <1>3 DEF LaidOut
  <2>2. \A k \in 1..Len(containers) : containers[k].type \in Plain
    BY <1>3 DEF LaidOut
  <2>3. CASE error'
    BY <1>1, <1>3, <2>1, <2>2, <2>3, LaidFailed
  <2>4. CASE ~error'
    <3>1. Readable(pc[2], stack[pc[3]])
      BY <2>4 DEF FromEnum
    <3>2. Fits(Elem[pc[2]], stack[pc[3]])
      BY <1>1, <3>1 DEF Readable, Under
    <3>3. stack' = RemoveAt(stack, pc[3])
      BY <1>1, <3>2 DEF FromEnum, Removed
    <3> QED
      BY <1>1, <1>3, <2>1, <2>4, <3>3, ConsumedLaid
  <2> QED
    BY <2>3, <2>4
<1> QED
  BY <1>2, <1>3

LEMMA FromOpenLaid ==
  ASSUME Shaped, LaidOut, FromOpen
  PROVE  LaidOut'
<1>1. /\ pc[1] = "from" /\ Container(pc[2]) /\ pc' = <<"back", None>>
      /\ UNCHANGED <<heap, rest, origin>>
  BY DEF FromOpen, Back
<1>2. CASE ~Reading
  BY <1>1, <1>2, LaidIdle
<1>3. CASE Reading
  <2>1. pc'[1] = "back" /\ pc[2] \in Plain /\ ~error
    BY <1>1, <1>3 DEF LaidOut
  <2>2. CASE stack[pc[3]][1] # "table"
    <3>1. error' /\ containers' = containers
      BY <2>2 DEF FromOpen
    <3> QED
      BY <1>1, <1>3, <2>1, <3>1, LaidFailed DEF LaidOut
  <2>3. CASE stack[pc[3]][1] = "table"
    <3> DEFINE f == [to |-> FALSE, type |-> pc[2], at |-> pc[3],
                     items |-> << >>, held |-> None, stage |-> "next"]
    <3>1. stack' = Append(stack, <<Nil>>) /\ containers' = Append(containers, f) /\ error' = error
      BY <2>3 DEF FromOpen
    <3>2. f.type = pc[2] /\ f.at = pc[3]
      OBVIOUS
    <3> HIDE DEF f
    <3>0. PICK n, m, b : n = Len(containers) /\ m = Len(stack) /\ b = Len(rest)
      OBVIOUS
    <3>3. /\ IsSeq(stack) /\ IsSeq(rest) /\ n \in Nat /\ m \in Nat /\ b \in Nat
          /\ IsSeq(containers)
          /\ \A k \in 1..n : containers[k].type \in Plain /\ k \in Nat \ {0} /\ Keyed(k)
      BY <1>3, <2>1, <3>0, LaidFacts
    <3>4. Opened(f)
      BY <3>1, <3>3, OpenedLemma
    <3>5. /\ n = 0 <=> containers = << >>
          /\ Len(containers') = n + 1 /\ containers' # << >>
          /\ \A k \in 1..n : containers'[k] = containers[k]
          /\ containers'[n + 1] = f
      BY <3>0, <3>4, EmptyIs DEF Opened
    <3>6. /\ IsSeq(stack') /\ Len(stack') = m + 1
          /\ \A i \in 1..m : stack'[i] = stack[i]
          /\ stack'[m + 1] = <<Nil>>
      BY <3>0, <3>1, <3>3, AppendSeq
    <3>7. /\ m = KeyAt(n) + 1
          /\ \A i \in 1..b : stack[i + 1] = rest[i]
      BY <1>1, <1>3, <2>1, <3>0 DEF LaidOut
    <3>8. pc[3] = IF n = 0 THEN 1 ELSE m
      BY <1>1, <1>3, <2>1, <3>0, <3>5 DEF LaidOut, Shaped, ReadPlaced, Reading
    <3>10. m = b + 2 * n + 1 /\ KeyAt(n + 1) = m + 1
      BY <3>3, <3>7, <3>0 DEF KeyAt
    <3>11. \A i \in 1..b : stack'[i + 1] = rest[i]
      <4>1. \A i \in 1..b : i + 1 \in 1..m
        BY <3>3, <3>10
      <4> QED
        BY <3>6, <3>7, <4>1
    <3>12. ASSUME NEW k \in 1..n PROVE Keyed(k)'
      <4>1. \A i \in 1..KeyAt(k) : i \in 1..m
        BY <3>3, <3>0, <3>10 DEF KeyAt
      <4>2. \A i \in 1..KeyAt(k) : stack'[i] = stack[i]
        BY <3>6, <4>1
      <4>3. containers'[k].at = containers[k].at
        BY <3>5
      <4> QED
        BY <1>1, <3>3, <3>0, <4>2, <4>3, KeyedKept
    <3>13. Keyed(n + 1)'
      <4>1. KeyAt(n + 1)' = m + 1
        BY <1>1, <3>0, <3>10 DEF KeyAt
      <4>2. containers'[n + 1].at = IF n + 1 = 1 THEN 1 ELSE KeyAt(n + 1)' - 1
        BY <3>2, <3>3, <3>5, <3>8, <4>1
      <4> QED
        BY <3>6, <4>1, <4>2 DEF Keyed
    <3>14. \A k \in 1..Len(containers') : containers'[k].type \in Plain /\ Keyed(k)'
      <4> TAKE k \in 1..Len(containers')
      <4>1. CASE k = n + 1
        BY <2>1, <3>2, <3>5, <3>13, <4>1
      <4>2. CASE k \in 1..n
        BY <3>3, <3>5, <3>12, <4>2
      <4> QED
        BY <3>3, <3>5, <4>1, <4>2
    <3>15. Len(stack') = KeyAt(Len(containers))'
      BY <1>1, <3>5, <3>6, <3>10 DEF KeyAt
    <3>16. rest' = rest /\ b = Len(rest')
      BY <1>1, <3>0
    <3> QED
      BY <2>1, <3>3, <3>5, <3>11, <3>14, <3>15, <3>16 DEF LaidOut
  <2> QED
    BY <2>2, <2>3
<1> QED
  BY <1>2, <1>3

\* The innermost container becomes g, and its key stays where it is.
LEMMA LaidBecame ==
  ASSUME Shaped, LaidOut, Reading, ~error, ~error', containers # << >>,
         UNCHANGED <<heap, rest, origin>>,
         NEW g, g.type = F.type, g.at = F.at, Became(g),
         IsSeq(stack'), \A i \in 1..(KeyAt(Len(containers)) - 1) : stack'[i] = stack[i],
         \/ stack'[KeyAt(Len(containers))] = <<Nil>>
         \/ \E j \in 1..Len(Pairs) : Pairs[j][1] = stack'[KeyAt(Len(containers))],
         \/ pc'[1] = "back" /\ Len(stack') = KeyAt(Len(containers))
         \/ /\ pc'[1] = "from" /\ pc'[2] \in Plain
            /\ Len(stack') = KeyAt(Len(containers)) + 1
  PROVE  LaidOut'
<1>4. PICK n, b, c : n = Len(containers) /\ b = Len(rest) /\ c = KeyAt(n)
  OBVIOUS
<1>1. /\ IsSeq(rest) /\ n \in Nat \ {0} /\ b \in Nat /\ F = containers[n]
      /\ \A k \in 1..n : containers[k].type \in Plain /\ k \in Nat \ {0} /\ Keyed(k)
  BY <1>4, LaidFacts DEF Became
<1>2. /\ Len(containers') = n /\ containers' # << >>
      /\ \A k \in 1..(n - 1) : containers'[k] = containers[k]
      /\ containers'[n] = g
  BY <1>4 DEF Became
<1>3. \A i \in 1..b : stack[i + 1] = rest[i]
  BY <1>4 DEF LaidOut
<1>5. /\ \A i \in 1..(c - 1) : stack'[i] = stack[i]
      /\ \/ stack'[c] = <<Nil>>
         \/ \E j \in 1..Len(Pairs) : Pairs[j][1] = stack'[c]
      /\ \/ pc'[1] = "back" /\ Len(stack') = c
         \/ pc'[1] = "from" /\ pc'[2] \in Plain /\ Len(stack') = c + 1
  BY <1>4
<1>6. containers[n].at = IF n = 1 THEN 1 ELSE c - 1
  BY <1>1, <1>4 DEF Keyed
<1>7. KeyAt(n)' = c
  BY <1>4 DEF KeyAt
<1>8. \A k \in 1..(n - 1) : KeyAt(k) \in Nat /\ KeyAt(k) <= c - 2
  BY <1>1, <1>4 DEF KeyAt
<1>9. c = b + 2 * n
  BY <1>4 DEF KeyAt
<1>10. \A i \in 1..b : stack'[i + 1] = rest[i]
  <2>1. \A i \in 1..b : i + 1 \in 1..(c - 1)
    BY <1>1, <1>9
  <2> QED
    BY <1>3, <1>5, <2>1
<1>11. ASSUME NEW k \in 1..(n - 1) PROVE Keyed(k)'
  <2>1. k \in 1..n /\ \A i \in 1..KeyAt(k) : i \in 1..(c - 1)
    BY <1>1, <1>8, <1>9
  <2>2. \A i \in 1..KeyAt(k) : stack'[i] = stack[i]
    BY <1>5, <2>1
  <2>3. containers'[k].at = containers[k].at
    BY <1>2
  <2> QED
    BY <1>1, <1>4, <2>1, <2>2, <2>3, KeyedKept
<1>12. Keyed(n)'
  <2>1. containers'[n].at = IF n = 1 THEN 1 ELSE c - 1
    BY <1>1, <1>2, <1>6
  <2>2. containers'[n].at = F.at /\ F.at \in 1..(c - 1)
    BY <1>1, <1>2, <1>9, <2>1
  <2>3. stack'[F.at] = stack[F.at]
    BY <1>5, <2>2
  <2>4. heap'[stack'[containers'[n].at][2]] = Pairs
    BY <2>2, <2>3 DEF Pairs
  <2>6. /\ containers'[n].at = IF n = 1 THEN 1 ELSE KeyAt(n)' - 1
        /\ \/ stack'[KeyAt(n)'] = <<Nil>>
           \/ \E j \in 1..Len(Pairs) : Pairs[j][1] = stack'[KeyAt(n)']
    BY <1>5, <1>7, <2>1
  <2> QED
    BY <2>4, <2>6 DEF Keyed, Table
<1>13. \A k \in 1..n : containers'[k].type \in Plain /\ Keyed(k)'
  <2> TAKE k \in 1..n
  <2>1. CASE k = n
    BY <1>1, <1>2, <1>12, <2>1
  <2>2. CASE k \in 1..(n - 1)
    <3>1. k \in 1..n
      BY <1>1
    <3> QED
      BY <1>1, <1>2, <1>11, <2>2, <3>1
  <2> QED
    BY <1>1, <2>1, <2>2
<1>14. KeyAt(Len(containers))' = c
  BY <1>2, <1>7, <1>4 DEF KeyAt
<1>15. b = Len(rest')
  BY <1>4
<1> QED
  BY <1>1, <1>2, <1>5, <1>10, <1>13, <1>14, <1>15 DEF LaidOut

LEMMA InsertedLaid ==
  ASSUME Shaped, LaidOut, ~Writing, containers # << >>, IsBack, NEW x,
         Stay("next", IF error THEN F ELSE Inserted(F, x)),
         UNCHANGED <<pc, stack, heap, error, rest, origin>>
  PROVE  LaidOut'
<1>1. CASE ~Reading
  BY <1>1, LaidIdle
<1>2. CASE Reading
  <2>1. Typed /\ IsSeq(stack) /\ IsSeq(containers) /\ "next" \in Stages
    BY <1>2, LaidFacts DEF Stages
  <2> DEFINE f == IF error THEN F ELSE Inserted(F, x)
  <2>2. (f = F \/ f = Inserted(F, x)) /\ Stay("next", f)
    OBVIOUS
  <2> HIDE DEF f
  <2>3. PICK g : g.type = F.type /\ g.at = F.at /\ Became(g)
    BY <2>1, <2>2, StayLemma
  <2>4. pc'[1] = "back"
    BY DEF IsBack
  <2>5. PICK n : n = Len(containers)
    OBVIOUS
  <2>6. /\ n \in 1..n /\ F = containers[n] /\ containers[n].type \in Plain
        /\ \A k \in 1..n : containers[k].type \in Plain
    BY <1>2, <2>5, LaidFacts
  <2>7. CASE error
    <3>1. \A k \in 1..Len(containers') : containers'[k].type \in Plain
      <4>1. /\ Len(containers') = n /\ containers'[n] = g
            /\ \A k \in 1..(n - 1) : containers'[k] = containers[k]
        BY <2>3, <2>5 DEF Became
      <4> QED
        BY <2>3, <2>6, <4>1
    <3> QED
      BY <1>2, <2>4, <2>7, <3>1, LaidFailed
  <2>8. CASE ~error
    <3>1. /\ Len(stack') = KeyAt(Len(containers)) /\ Keyed(n) /\ stack' = stack
      BY <1>2, <2>5, <2>6, <2>8 DEF LaidOut, IsBack
    <3>2. \/ stack'[KeyAt(Len(containers))] = <<Nil>>
          \/ \E j \in 1..Len(Pairs) : Pairs[j][1] = stack'[KeyAt(Len(containers))]
      BY <2>5, <2>6, <3>1 DEF Keyed, Table, Pairs
    <3> QED
      BY <1>2, <2>1, <2>3, <2>4, <2>8, <3>1, <3>2, LaidBecame
  <2> QED
    BY <2>7, <2>8
<1> QED
  BY <1>1, <1>2

LEMMA FromElementLaid ==
  ASSUME Shaped, LaidOut, FromElement
  PROVE  LaidOut'
<1>1. /\ IsBack /\ containers # << >> /\ ~F.to
      /\ Stay("next", IF error THEN F ELSE Inserted(F, pc[2]))
      /\ UNCHANGED <<pc, stack, heap, error, rest, origin>>
  BY DEF FromElement, FromFrame
<1>2. ~Writing
  BY <1>1, ToOrFrom
<1> QED
  BY <1>1, <1>2, InsertedLaid

LEMMA FromPairLaid ==
  ASSUME Shaped, LaidOut, FromPair
  PROVE  LaidOut'
<1>1. /\ IsBack /\ containers # << >> /\ ~F.to
      /\ Stay("next", IF error THEN F ELSE Inserted(F, <<pc[2], F.held>>))
      /\ UNCHANGED <<pc, stack, heap, error, rest, origin>>
  BY DEF FromPair, FromFrame
<1>2. ~Writing
  BY <1>1, ToOrFrom
<1> QED
  BY <1>1, <1>2, InsertedLaid

LEMMA FromKeyLaid ==
  ASSUME Shaped, LaidOut, FromKey
  PROVE  LaidOut'
<1>1. /\ IsBack /\ containers # << >> /\ ~F.to /\ F.stage = "value" /\ Kind[F.type] = "map"
      /\ UNCHANGED <<heap, error, rest, origin>>
  BY DEF FromKey, FromFrame
<1>2. ~Writing
  BY <1>1, ToOrFrom
<1>3. CASE ~Reading
  BY <1>1, <1>3, LaidIdle
<1>4. CASE Reading
  <2>1. Typed /\ IsSeq(stack) /\ IsSeq(containers) /\ Len(stack) \in Nat
        /\ "next" \in Stages /\ "key" \in Stages
    BY <1>4, LaidFacts DEF Stages
  <2>2. PICK n : n = Len(containers)
    OBVIOUS
  <2>3. /\ n \in 1..n /\ F = containers[n] /\ containers[n].type \in Plain
        /\ \A k \in 1..n : containers[k].type \in Plain
    BY <1>1, <1>4, <2>2, LaidFacts
  <2>4. CASE error
    <3>1. Stay("next", F) /\ UNCHANGED <<pc, stack>>
      BY <2>4 DEF FromKey
    <3>2. PICK g : g.type = F.type /\ g.at = F.at /\ Became(g)
      BY <1>1, <2>1, <3>1, StayLemma
    <3>3. \A k \in 1..Len(containers') : containers'[k].type \in Plain
      <4>1. /\ Len(containers') = n /\ containers'[n] = g
            /\ \A k \in 1..(n - 1) : containers'[k] = containers[k]
        BY <2>2, <3>2 DEF Became
      <4> QED
        BY <2>3, <3>2, <4>1
    <3>4. pc'[1] = "back"
      BY <1>1, <3>1 DEF IsBack
    <3> QED
      BY <1>1, <1>4, <2>4, <3>3, <3>4, LaidFailed
  <2>5. CASE ~error
    <3> DEFINE v == Last(stack)
    <3>1. /\ Stay("key", [F EXCEPT !.held = pc[2]])
          /\ stack' = Append(stack, v) /\ pc' = <<"from", Key[F.type], Len(stack')>>
      BY <2>5 DEF FromKey, KeyCopied
    <3>2. PICK g : IsContainer(g) /\ g.type = F.type /\ g.at = F.at /\ Became(g)
      <4> DEFINE f == [F EXCEPT !.held = pc[2]]  y == pc[2]
      <4>1. f = [F EXCEPT !.held = y] /\ Stay("key", f)
        BY <3>1
      <4> HIDE DEF f, y
      <4> QED
        BY <1>1, <2>1, <4>1, StayLemma
    <3> HIDE DEF v
    <3>3. PICK c : c = KeyAt(n)
      OBVIOUS
    <3>4. /\ IsSeq(stack') /\ Len(stack') = Len(stack) + 1
          /\ \A i \in 1..Len(stack) : stack'[i] = stack[i]
      BY <2>1, <3>1, AppendSeq
    <3>5. Len(stack) = c /\ Keyed(n) /\ c \in Nat \ {0}
      BY <1>1, <1>4, <2>2, <2>3, <2>5, <3>3, LaidFacts DEF LaidOut, IsBack
    <3>6. \/ stack'[c] = <<Nil>>
          \/ \E j \in 1..Len(Pairs) : Pairs[j][1] = stack'[c]
      <4>1. stack'[c] = stack[c]
        BY <3>4, <3>5
      <4> QED
        BY <2>3, <3>3, <3>5, <4>1 DEF Keyed, Table, Pairs
    <3>7. \A i \in 1..(c - 1) : stack'[i] = stack[i]
      BY <3>4, <3>5
    <3>8. pc'[1] = "from" /\ pc'[2] \in Plain
      <4>1. pc'[1] = "from" /\ pc'[2] = Key[F.type]
        BY <3>1
      <4>2. F.type \in Types
        BY <1>1, <2>1, Facts DEF IsContainer
      <4> QED
        BY <1>1, <2>3, <4>1, <4>2, ConvertAssumption
    <3>9. Len(stack') = c + 1
      BY <3>4, <3>5
    <3> QED
      BY <1>1, <1>4, <2>2, <2>5, <3>2, <3>3, <3>4, <3>6, <3>7, <3>8, <3>9, LaidBecame
  <2> QED
    BY <2>4, <2>5
<1> QED
  BY <1>3, <1>4

\* The innermost container has been read, and its table and key removed.
LEMMA LaidClosed ==
  ASSUME Shaped, LaidOut, Reading, containers # << >>, IsBack, ~error, FromClose(Down(1))
  PROVE  LaidOut'
<1>1. /\ containers' = Outer /\ pc' = <<"back", Content(F)>>
      /\ UNCHANGED <<heap, error, rest, origin>>
  BY DEF FromClose, Back
<1>2. PICK n, m, b, s : /\ n = Len(containers) /\ m = Len(stack) /\ b = Len(rest)
                        /\ s = Down(1)
  OBVIOUS
<1>3. /\ Typed /\ IsSeq(stack) /\ IsSeq(rest) /\ n \in 1..n /\ m \in Nat /\ b \in Nat /\ ~Writing
      /\ F = containers[n] /\ n \in Nat
      /\ \A k \in 1..n : containers[k].type \in Plain /\ k \in Nat \ {0} /\ Keyed(k)
  BY <1>2, LaidFacts
<1>4. m = b + 2 * n /\ \A i \in 1..b : stack[i + 1] = rest[i]
  BY <1>2 DEF LaidOut, IsBack, KeyAt
<1>5. F.at = IF n = 1 THEN 1 ELSE m - 1
  BY <1>2, <1>3, <1>4 DEF Keyed, KeyAt
<1>6. m \in Nat \ {0} /\ \A i \in 1..m : LuaValueOf(stack[i], Len(heap))
  BY <1>2, <1>3, <1>4 DEF Typed, LuaValue
<1>7. /\ IsSeq(s) /\ Len(s) = m - 1
      /\ \A j \in 1..(m - 1) : s[j] = stack[j]
  BY <1>2, <1>3, <1>6, DownSeq
<1>8. /\ Closed /\ IsSeq(stack') /\ Len(stack') = m - 2
      /\ \A j \in 1..(F.at - 1) : stack'[j] = s[j]
      /\ \A j \in F.at..(m - 2) : stack'[j] = s[j + 1]
  <2>1. \A j \in 1..Len(s) : LuaValueOf(s[j], Len(heap))
    BY <1>6, <1>7
  <2>2. FromClose(s) /\ Len(stack) - 1 <= Len(s) /\ \A j \in 1..(Len(stack) - 1) : s[j] = stack[j]
    BY <1>2, <1>6, <1>7
  <2>3. /\ Closed /\ IsSeq(stack') /\ Len(stack') = Len(s) - 1
        /\ \A j \in 1..(F.at - 1) : stack'[j] = s[j]
        /\ \A j \in F.at..(Len(s) - 1) : stack'[j] = s[j + 1]
    BY <1>3, <1>7, <2>1, <2>2, ReadClosed
  <2>4. Len(s) - 1 = m - 2
    BY <1>6, <1>7
  <2> QED
    BY <2>3, <2>4
<1>9. /\ Len(containers') = n - 1 /\ (containers' = << >> <=> n = 1)
      /\ \A k \in 1..(n - 1) : containers'[k] = containers[k]
  BY <1>2, <1>3, <1>8 DEF Closed
<1>10. Len(stack') = KeyAt(Len(containers))'
  BY <1>1, <1>2, <1>3, <1>4, <1>8, <1>9 DEF KeyAt
<1>11. CASE n = 1
  <2>1. /\ Len(stack') = b
        /\ \A j \in 1..b : j \in F.at..(m - 2) /\ j + 1 \in 1..(m - 1)
    BY <1>3, <1>4, <1>5, <1>8, <1>11
  <2>2. \A j \in 1..b : stack'[j] = rest[j]
    BY <1>4, <1>7, <1>8, <2>1
  <2>3. stack' = rest
    BY <1>2, <1>3, <1>8, <2>1, <2>2, SameSeq
  <2>4. pc'[1] = "back" /\ \A k \in 1..Len(containers') : FALSE
    BY <1>1, <1>9, <1>11
  <2> QED
    BY <1>1, <1>3, <1>9, <1>10, <1>11, <2>3, <2>4 DEF LaidOut
<1>12. CASE n # 1
  <2>1. \A j \in 1..(m - 2) : j \in 1..(F.at - 1) /\ j \in 1..(m - 1)
    BY <1>5, <1>6, <1>12
  <2>2. \A j \in 1..(m - 2) : stack'[j] = stack[j]
    BY <1>7, <1>8, <2>1
  <2>3. \A j \in 1..b : j + 1 \in 1..(m - 2)
    BY <1>3, <1>4, <1>12
  <2>4. \A j \in 1..b : stack'[j + 1] = rest[j]
    BY <1>4, <2>2, <2>3
  <2>5. ASSUME NEW k \in 1..(n - 1) PROVE containers'[k].type \in Plain /\ Keyed(k)'
    <3>1. k \in 1..n /\ \A i \in 1..KeyAt(k) : i \in 1..(m - 2)
      BY <1>2, <1>3, <1>4 DEF KeyAt
    <3>2. \A i \in 1..KeyAt(k) : stack'[i] = stack[i]
      BY <2>2, <3>1
    <3>3. containers'[k] = containers[k]
      BY <1>9
    <3>4. Keyed(k) /\ k \in Nat \ {0} /\ containers'[k].at = containers[k].at /\ Len(rest) \in Nat
      BY <1>2, <1>3, <3>1, <3>3
    <3> QED
      BY <1>1, <1>3, <3>1, <3>2, <3>3, <3>4, KeyedKept
  <2>6. pc'[1] = "back" /\ rest' = rest /\ b = Len(rest)
    BY <1>1, <1>2
  <2> QED
    BY <1>1, <1>3, <1>9, <1>10, <1>12, <2>4, <2>5, <2>6 DEF LaidOut
<1> QED
  BY <1>11, <1>12

LEMMA FromNextLaid ==
  ASSUME Shaped, LaidOut, FromNext
  PROVE  LaidOut'
<1>1. /\ IsBack /\ containers # << >> /\ ~F.to /\ F.stage = "next" /\ Known(Last(stack))
      /\ UNCHANGED <<heap, error, rest, origin>>
  BY DEF FromNext, FromFrame, FromClose
<1>2. ~Writing
  BY <1>1, ToOrFrom
<1>3. CASE ~Reading
  BY <1>1, <1>3, LaidIdle
<1>4. CASE Reading
  <2> DEFINE i == After(Last(stack))
  <2>1. /\ i > Len(Pairs) => FromClose(Down(1))
        /\ ~(i > Len(Pairs)) /\ error => FromClose(Down(1) \o Pairs[i])
        /\ ~(i > Len(Pairs)) /\ ~error =>
             /\ stack' = Down(1) \o Pairs[i]
             /\ Stay("value", F)
             /\ pc' = <<"from", Elem[F.type], Len(stack) + 1>>
    BY DEF FromNext
  <2>2. i \in 1..(Len(Pairs) + 1) /\ Len(Pairs) \in Nat
    <3>1. Len(Pairs) \in Nat
      BY <1>1, <1>2, FromFacts DEF IsTable, IsSeq
    <3> QED
      BY <1>1, <3>1, AfterIs
  <2> HIDE DEF i
  <2>3. PICK n, c : n = Len(containers) /\ c = KeyAt(n)
    OBVIOUS
  <2>4. /\ n \in 1..n /\ F = containers[n] /\ Typed /\ IsSeq(stack) /\ IsSeq(containers)
        /\ containers[n].type \in Plain /\ \A k \in 1..n : containers[k].type \in Plain
    BY <1>1, <1>4, <2>3, LaidFacts
  <2>5. CASE error
    <3>1. \E s : FromClose(s)
      BY <2>1, <2>5
    <3>2. containers' = Outer /\ pc'[1] = "back"
      BY <3>1 DEF FromClose, Back
    <3>3. Closed
      BY <1>1, <2>4, <3>2, ClosedLemma
    <3>4. \A k \in 1..Len(containers') : containers'[k].type \in Plain
      BY <2>3, <2>4, <3>3 DEF Closed
    <3> QED
      BY <1>1, <1>4, <2>5, <3>2, <3>4, LaidFailed
  <2>6. CASE ~error /\ i > Len(Pairs)
    BY <1>1, <1>4, <2>1, <2>6, LaidClosed
  <2>7. CASE ~error /\ ~(i > Len(Pairs))
    <3> DEFINE s == Down(1) \o Pairs[i]
    <3>1. i \in 1..Len(Pairs)
      BY <2>2, <2>7
    <3>2. /\ IsSeq(s) /\ Len(s) = Len(stack) + 1
          /\ \A j \in 1..(Len(stack) - 1) : s[j] = stack[j]
          /\ s[Len(stack)] = Pairs[i][1]
      BY <1>1, <1>2, <3>1, NextPushed
    <3>3. stack' = s /\ Stay("value", F) /\ pc' = <<"from", Elem[F.type], Len(stack) + 1>>
      BY <2>1, <2>7
    <3> HIDE DEF s
    <3>4. Len(stack) = c
      BY <1>1, <1>4, <2>3, <2>7 DEF LaidOut, IsBack
    <3>5. "value" \in Stages
      BY DEF Stages
    <3>6. PICK g : g.type = F.type /\ g.at = F.at /\ Became(g)
      BY <1>1, <2>4, <3>3, <3>5, StayLemma
    <3>7. /\ IsSeq(stack') /\ Len(stack') = c + 1
          /\ \A j \in 1..(c - 1) : stack'[j] = stack[j]
          /\ \E j \in 1..Len(Pairs) : Pairs[j][1] = stack'[c]
      BY <3>1, <3>2, <3>3, <3>4
    <3>8. pc'[1] = "from" /\ pc'[2] \in Plain
      <4>1. pc'[1] = "from" /\ pc'[2] = Elem[F.type]
        BY <3>3
      <4>2. F.type \in Types /\ Container(F.type)
        BY <1>1, <2>4, Facts DEF IsContainer
      <4> QED
        BY <2>4, <4>1, <4>2, ConvertAssumption
    <3>9. ~error' /\ ~error
      BY <1>1, <2>7
    <3> QED
      BY <1>1, <1>4, <2>3, <3>6, <3>7, <3>8, <3>9, LaidBecame
  <2> QED
    BY <2>5, <2>6, <2>7
<1> QED
  BY <1>3, <1>4

LEMMA FromRaiseLaid ==
  ASSUME Shaped, LaidOut, FromRaise
  PROVE  LaidOut' /\ (Reading => error)
<1>1. /\ IsBack /\ containers # << >> /\ ~F.to /\ ~Known(Last(stack))
      /\ pc' = <<"raised", None>> /\ containers' = << >>
      /\ UNCHANGED <<heap, error, rest, origin>>
  BY DEF FromRaise, FromFrame
<1>2. CASE ~Reading
  BY <1>1, <1>2, LaidIdle
<1>3. CASE Reading
  <2>1. error
    <3> SUFFICES ASSUME ~error PROVE FALSE
      OBVIOUS
    <3>1. PICK n : n = Len(containers)
      OBVIOUS
    <3>2. /\ n \in 1..n /\ F = containers[n] /\ Keyed(n)
      BY <1>1, <1>3, <3>1, LaidFacts
    <3>3. Len(stack) = KeyAt(n)
      BY <1>1, <1>3, <3>1 DEF LaidOut, IsBack
    <3> QED
      BY <1>1, <3>2, <3>3 DEF Keyed, Table, Known, Pairs, Last
  <2>2. pc'[1] # "from" /\ Len(containers') = 0
    BY <1>1, EmptyIs
  <2>3. LaidOut'
    BY <1>1, <1>3, <2>1, <2>2, LaidFailed
  <2> QED
    BY <2>1, <2>3
<1> QED
  BY <1>2, <1>3

LEMMA FinishLaid ==
  ASSUME Shaped, LaidOut, Finish
  PROVE  LaidOut'
<1>1. /\ IsBack /\ containers = << >> /\ pc' = <<"end", pc[2]>>
      /\ UNCHANGED <<containers, stack, heap, error, rest, origin>>
  BY DEF Finish
<1>2. CASE ~Reading
  BY <1>1, <1>2, LaidIdle
<1>3. CASE Reading
  <2>1. Len(containers') = 0 /\ pc'[1] = "end" /\ pc[1] = "back"
    BY <1>1, EmptyIs DEF IsBack
  <2>2. ~error => stack = rest
    BY <1>1, <1>3, <2>1 DEF LaidOut
  <2> QED
    BY <1>1, <2>1, <2>2 DEF LaidOut
<1> QED
  BY <1>2, <1>3

LEMMA ReadBackLaid ==
  ASSUME Shaped, LaidOut, NEW above \in {<< >>, << <<"integer", 0>> >>}, ReadBack(above)
  PROVE  LaidOut'
<1>1. /\ pc[1] = "end" /\ ~error /\ origin.by = "cpp" /\ pc' = <<"from", origin.type, 1>>
      /\ stack' = stack \o above /\ origin' = [origin EXCEPT !.by = "back"] /\ rest' = above
      /\ UNCHANGED <<containers, heap, error>>
  BY DEF ReadBack
<1>2. /\ Typed /\ Writing /\ containers = << >> /\ IsSeq(stack) /\ Len(stack) = 1
  BY <1>1 DEF Shaped, Typed, Writing, Directed, WritePlaced, Wanted
<1>3. IsSeq(above) /\ Len(above) \in Nat
  <2>1. CASE above = << >>
    BY <2>1, EmptyIs
  <2>2. CASE above = << <<"integer", 0>> >>
    <3>1. above \in Seq({<<"integer", 0>>})
      BY <2>2
    <3> QED
      BY <3>1, SeqIs
  <2> QED
    BY <2>1, <2>2
<1>4. /\ IsSeq(stack') /\ Len(stack') = 1 + Len(above)
      /\ \A i \in 1..Len(above) : stack'[i + 1] = above[i]
  <2>1. /\ IsSeq(stack \o above) /\ Len(stack \o above) = Len(stack) + Len(above)
        /\ \A i \in 1..Len(above) : (stack \o above)[Len(stack) + i] = above[i]
    <3>1. IsSeq(stack) /\ IsSeq(above)
      BY <1>2, <1>3
    <3> QED
      BY <3>1, JoinSeq
  <2>2. \A i \in 1..Len(above) : 1 + i = i + 1
    BY <1>3
  <2> QED
    BY <1>1, <1>2, <2>1, <2>2
<1>5. pc'[1] = "from" /\ pc'[2] = origin.type /\ pc'[3] = 1
  BY <1>1
<1>6. origin'.type = origin.type
  <2>1. origin' = [type |-> origin.type, value |-> origin.value, by |-> "back"]
    BY <1>1, <1>2 DEF Typed, Tagged
  <2> QED
    BY <2>1
<1>7. Len(containers') = 0
  BY <1>1, <1>2, EmptyIs
<1>8. Len(stack') = KeyAt(Len(containers))' + 1
  BY <1>1, <1>3, <1>4, <1>7 DEF KeyAt
<1> QED
  BY <1>1, <1>2, <1>3, <1>4, <1>5, <1>6, <1>7, <1>8 DEF LaidOut, Reading

LEMMA LaidOutStep ==
  ASSUME Shaped, LaidOut, [ConvertNext]_convertVars
  PROVE  LaidOut'
<1>1. CASE UNCHANGED convertVars
  BY <1>1 DEF convertVars, LaidOut, Reading, Writing, KeyAt, Keyed, Table
<1>2. ASSUME Writing, UNCHANGED <<rest, origin>>
      PROVE  LaidOut'
  BY <1>2, LaidIdle DEF Reading
<1>3. CASE ToBasic \/ ToEnum \/ ToUnknown \/ ToOpen
  <2>1. pc[1] = "to" /\ UNCHANGED <<rest, origin>>
    BY <1>3 DEF ToBasic, ToEnum, ToUnknown, ToOpen
  <2> QED
    BY <1>2, <2>1 DEF Shaped, Directed
<1>4. CASE ToNext \/ ToValue \/ ToSettled \/ ToClose
  <2>1. containers # << >> /\ F.to /\ UNCHANGED <<rest, origin>>
    BY <1>4 DEF ToNext, ToValue, ToSettled, ToClose, ToFrame
  <2> QED
    BY <1>2, <2>1, ToOrFrom
<1>5. CASE FromBasic
  BY <1>5, FromBasicLaid
<1>6. CASE FromEnum
  BY <1>6, FromEnumLaid
<1>7. CASE FromOpen
  BY <1>7, FromOpenLaid
<1>8. CASE FromNext
  BY <1>8, FromNextLaid
<1>9. CASE FromRaise
  BY <1>9, FromRaiseLaid
<1>10. CASE FromElement
  BY <1>10, FromElementLaid
<1>11. CASE FromKey
  BY <1>11, FromKeyLaid
<1>12. CASE FromPair
  BY <1>12, FromPairLaid
<1>13. CASE Finish
  BY <1>13, FinishLaid
<1>14. ASSUME NEW above \in {<< >>, << <<"integer", 0>> >>}, ReadBack(above)
       PROVE  LaidOut'
  BY <1>14, ReadBackLaid
<1> QED
  BY <1>1, <1>3, <1>4, <1>5, <1>6, <1>7, <1>8, <1>9, <1>10, <1>11, <1>12, <1>13, <1>14
     DEF ConvertNext, Step

LEMMA LaidOutAlways == ConvertSpec => [](Shaped /\ Original /\ LaidOut)
<1>1. ConvertInit => LaidOut
  BY InitLaid
<1>2. Shaped /\ LaidOut /\ [ConvertNext]_convertVars => LaidOut'
  BY LaidOutStep
<1> QED
  BY <1>1, <1>2, ShapedAlways, PTL DEF ConvertSpec

(***************************************************************************)
(* A conversion that succeeds leaves on the stack the one new value, or    *)
(* all that was there but the value that it read: each element is removed  *)
(* by its own conversion, and each key and table by its container's.       *)
(***************************************************************************)
THEOREM StackIsKept == ConvertSpec => []StackKept
<1>1. ASSUME Shaped, LaidOut
      PROVE  StackKept
  <2> SUFFICES ASSUME pc[1] = "end", ~error, origin.type \in Plain
               PROVE  IF origin.by = "cpp" THEN Len(stack) = 1 ELSE stack = rest
    BY DEF StackKept
  <2>1. containers = << >>
    BY <1>1 DEF Shaped, Directed
  <2>2. CASE origin.by = "cpp"
    BY <1>1, <2>1, <2>2 DEF Shaped, WritePlaced, Writing, Wanted
  <2>3. CASE origin.by # "cpp"
    BY <1>1, <2>1, <2>3 DEF LaidOut, Reading, Writing
  <2> QED
    BY <2>2, <2>3
<1> QED
  BY <1>1, LaidOutAlways, PTL

\* Lua raises an error only after something could not be converted.
FailedFirst == pc[1] = "raised" /\ origin.type \in Plain => error

(***************************************************************************)
(* While nothing has failed, lua_next finds the key it is given: a value   *)
(* without objects is read, or refused, without an error of Lua, unless    *)
(* something in it could not be converted before.                          *)
(***************************************************************************)
THEOREM RaisesOnlyAfterFailure == ConvertSpec => []FailedFirst
<1>1. ASSUME Shaped, LaidOut
      PROVE  FailedFirst
  BY <1>1 DEF FailedFirst, Shaped, Directed, LaidOut, Reading
<1> QED
  BY <1>1, LaidOutAlways, PTL

------------------------------------------------------------------------------
(***************************************************************************)
(* What the values of Lua mean: M[<<t, h>>] says whether the table h can   *)
(* be read as a t, and as what.                                            *)
(***************************************************************************)

Ok(M, t, v) == IF Container(t) THEN v[1] = "table" /\ M[<<t, v[2]>>].ok ELSE Readable(t, v)

Meaning(M, t, v) == IF Container(t) THEN M[<<t, v[2]>>].value ELSE Read(t, v)

Has(M, t, v) == Container(t) /\ v[1] = "table" => <<t, v[2]>> \in DOMAIN M

\* A pair of a table, for a container of type t.
Element(M, t, p) ==
  IF Kind[t] = "map" THEN <<Meaning(M, Key[t], p[1]), Meaning(M, Elem[t], p[2])>>
                     ELSE Meaning(M, Elem[t], p[2])

Fine(M, t, p) == Ok(M, Elem[t], p[2]) /\ (Kind[t] = "map" => Ok(M, Key[t], p[1]))

\* The first j of the pairs ps: of those with equal keys the first counts.
Collected(M, t, ps, j) ==
  IF Kind[t] = "list" THEN [i \in 1..j |-> Element(M, t, ps[i])]
  ELSE IF Kind[t] = "map"
  THEN {Element(M, t, ps[i]) : i \in
          {m \in 1..j : \A k \in 1..(m - 1) : Element(M, t, ps[k])[1] # Element(M, t, ps[m])[1]}}
  ELSE {Element(M, t, ps[i]) : i \in 1..j}

\* M is right for the tables it speaks of.
Consistent(M) ==
  \A u \in DOMAIN M :
    /\ Container(u[1]) /\ u[2] \in 1..Len(heap)
    /\ LET ps == heap[u[2]]
       IN  /\ \A i \in 1..Len(ps) :
                /\ ps[i][1] # <<Nil>> /\ \A j \in 1..Len(ps) : ps[i][1] = ps[j][1] => i = j
                /\ Has(M, Elem[u[1]], ps[i][2])
                /\ Kind[u[1]] = "map" => Has(M, Key[u[1]], ps[i][1])
           /\ M[u].ok <=> \A i \in 1..Len(ps) : Fine(M, u[1], ps[i])
           /\ M[u].ok => M[u].value = <<Kind[u[1]], Collected(M, u[1], ps, Len(ps))>>

\* What is converted for the container k, or at last, is v as a t.
Child(M, k, t, v) ==
  IF k < Len(containers)
  THEN containers[k + 1].type = t /\ stack[containers[k + 1].at] = v
  ELSE /\ pc[1] = "from" => pc[2] = t /\ stack[pc[3]] = v
       /\ pc[1] \in {"back", "end"} => Ok(M, t, v) /\ pc[2] = Meaning(M, t, v)

\* The container has what the first j pairs mean.
Gathered(M, f, ps, j) ==
  /\ \A i \in 1..j : Fine(M, f.type, ps[i])
  /\ Content(f)[2] = Collected(M, f.type, ps, j)
  /\ Kind[f.type] = "map" =>
       {y[1] : y \in ToSet(f.items)} = {Element(M, f.type, ps[i])[1] : i \in 1..j}

\* The container f goes through the pairs ps, and is at the j-th.
Going(M, k, f, ps, j) ==
  /\ stack[KeyAt(k)] = IF j = 0 THEN <<Nil>> ELSE ps[j][1]
  /\ f.stage = "next" => Gathered(M, f, ps, j) /\ k = Len(containers) /\ pc[1] = "back"
  /\ f.stage # "next" => j > 0 /\ Gathered(M, f, ps, j - 1)
  /\ f.stage = "value" => Child(M, k, Elem[f.type], ps[j][2])
  /\ f.stage = "key" => /\ Kind[f.type] = "map" /\ Ok(M, Elem[f.type], ps[j][2])
                        /\ f.held = Meaning(M, Elem[f.type], ps[j][2])
                        /\ Child(M, k, Key[f.type], ps[j][1])

\* The container k goes through a table that M knows.
Framed(M, k) ==
  /\ <<containers[k].type, stack[containers[k].at][2]>> \in DOMAIN M
  /\ \E j \in 0..Len(Table(k)) : Going(M, k, containers[k], Table(k), j)

\* What is read is v, and each part of it means what M says.
Meaningful(M, v) ==
  /\ Consistent(M) /\ Has(M, origin.type, v)
  /\ Ok(M, origin.type, v) =>
       /\ ~error
       /\ \A k \in 1..Len(containers) : Ok(M, containers[k].type, stack[containers[k].at])
       /\ pc[1] = "from" => Ok(M, pc[2], stack[pc[3]])
  /\ ~error =>
       /\ Child(M, 0, origin.type, v)
       /\ \A k \in 1..Len(containers) : Framed(M, k)

------------------------------------------------------------------------------

\* What Inserted makes of the items.
More(f, x) ==
  IF \/ Kind[f.type] = "list"
     \/ \A i \in 1..Len(f.items) :
          IF Kind[f.type] = "map" THEN f.items[i][1] # x[1] ELSE f.items[i] # x
  THEN Append(f.items, x) ELSE f.items

LEMMA StaySame ==
  ASSUME Typed, containers # << >>, NEW s \in Stages, Stay(s, F)
  PROVE  Became(At(F, s, F.items, F.held))
<1>1. IsContainer(F) /\ IsSeq(containers)
  BY Facts DEF Typed
<1>2. [F EXCEPT !.stage = s] = At(F, s, F.items, F.held)
  BY <1>1, ExceptLemma
<1>3. containers' = Append(Outer, At(F, s, F.items, F.held))
  BY <1>2 DEF Stay
<1> QED
  BY <1>1, <1>3, BecameLemma

LEMMA StayHeld ==
  ASSUME Typed, containers # << >>, NEW s \in Stages, NEW h, NEW f, f = Held(F, h), Stay(s, f)
  PROVE  Became(At(F, s, F.items, h))
<1>1. IsContainer(F) /\ IsSeq(containers)
  BY Facts DEF Typed
<1>2. [Held(F, h) EXCEPT !.stage = s] = At(F, s, F.items, h)
  BY <1>1, HeldLemma
<1>3. containers' = Append(Outer, At(F, s, F.items, h))
  BY <1>2 DEF Stay
<1> QED
  BY <1>1, <1>3, BecameLemma

LEMMA StayInserted ==
  ASSUME Typed, containers # << >>, NEW s \in Stages, NEW x, Stay(s, Inserted(F, x))
  PROVE  Became(At(F, s, More(F, x), F.held)) /\ IsSeq(More(F, x))
<1>1. IsContainer(F) /\ IsSeq(F.items) /\ IsSeq(containers)
  BY Facts DEF Typed, IsContainer
<1>2. [Inserted(F, x) EXCEPT !.stage = s] = At(F, s, More(F, x), F.held) /\ IsSeq(More(F, x))
  <2> DEFINE A == \/ Kind[F.type] = "list"
                  \/ \A i \in 1..Len(F.items) :
                       IF Kind[F.type] = "map" THEN F.items[i][1] # x[1] ELSE F.items[i] # x
             q == Append(F.items, x)
  <2>1. IsSeq(q)
    BY <1>1, AppendSeq
  <2>2. /\ Inserted(F, x) = IF A THEN [F EXCEPT !.items = q] ELSE F
        /\ More(F, x) = IF A THEN q ELSE F.items
    BY DEF Inserted, More
  <2> HIDE DEF A, q
  <2>3. CASE A
    <3>1. [[F EXCEPT !.items = q] EXCEPT !.stage = s] = At(F, s, q, F.held)
      BY <1>1, ExceptLemma
    <3> QED
      BY <2>1, <2>2, <2>3, <3>1, Zenon
  <2>4. CASE ~A
    <3>1. [F EXCEPT !.stage = s] = At(F, s, F.items, F.held)
      BY <1>1, ExceptLemma
    <3> QED
      BY <1>1, <2>2, <2>4, <3>1, Zenon
  <2> QED
    BY <2>3, <2>4
<1>3. containers' = Append(Outer, At(F, s, More(F, x), F.held))
  BY <1>2 DEF Stay
<1>4. Became(At(F, s, More(F, x), F.held))
  BY <1>1, <1>3, BecameLemma
<1> QED
  BY <1>2, <1>4

LEMMA SetOf ==
  ASSUME NEW q, IsSeq(q)
  PROVE  ToSet(q) = {q[i] : i \in 1..Len(q)}
<1>1. DOMAIN q = 1..Len(q)
  <2>1. q = [i \in 1..Len(q) |-> q[i]]
    BY DEF IsSeq
  <2>2. DOMAIN [i \in 1..Len(q) |-> q[i]] = 1..Len(q)
    OBVIOUS
  <2> QED
    BY <2>1, <2>2, Zenon
<1> QED
  BY <1>1 DEF ToSet

LEMMA SetOfEmpty == ToSet(<< >>) = {}
<1>1. IsSeq(<< >>) /\ Len(<< >>) = 0
  BY EmptyIs
<1>2. ToSet(<< >>) = {(<< >>)[i] : i \in 1..0}
  BY <1>1, SetOf
<1>3. 1..0 = {}
  OBVIOUS
<1> QED
  BY <1>2, <1>3

LEMMA SetOfAppend ==
  ASSUME NEW q, IsSeq(q), NEW x
  PROVE  ToSet(Append(q, x)) = ToSet(q) \cup {x}
<1> DEFINE r == Append(q, x)  n == Len(q)
<1>1. /\ IsSeq(r) /\ Len(r) = n + 1 /\ n \in Nat
      /\ \A i \in 1..n : r[i] = q[i]
      /\ r[n + 1] = x
  BY AppendSeq DEF IsSeq
<1>2. ToSet(r) = {r[i] : i \in 1..Len(r)} /\ ToSet(q) = {q[i] : i \in 1..n}
  BY <1>1, SetOf
<1>3. Len(r) = n + 1
  BY <1>1
<1> HIDE DEF r, n
<1>4. \A i \in 1..(n + 1) : i \in 1..n \/ i = n + 1
  BY <1>1
<1>5. n + 1 \in 1..(n + 1) /\ \A i \in 1..n : i \in 1..(n + 1)
  BY <1>1
<1>6. {r[i] : i \in 1..(n + 1)} = {q[i] : i \in 1..n} \cup {x}
  <2>1. ASSUME NEW y \in {r[i] : i \in 1..(n + 1)} PROVE y \in {q[i] : i \in 1..n} \cup {x}
    BY <1>1, <1>4
  <2>2. ASSUME NEW y \in {q[i] : i \in 1..n} \cup {x} PROVE y \in {r[i] : i \in 1..(n + 1)}
    BY <1>1, <1>5
  <2> QED
    BY <2>1, <2>2
<1>7. ToSet(r) = ToSet(q) \cup {x}
  BY <1>2, <1>3, <1>6
<1> QED
  BY <1>7 DEF r

\* A container that has what the first j - 1 pairs mean, and gets the j-th.
LEMMA GatheredMore ==
  ASSUME NEW M, NEW f, IsContainer(f), NEW ps, NEW j \in Nat \ {0},
         Gathered(M, f, ps, j - 1), Fine(M, f.type, ps[j]), NEW g,
         g.type = f.type, g.items = More(f, Element(M, f.type, ps[j]))
  PROVE  Gathered(M, g, ps, j)
<1> DEFINE t == f.type  q == f.items  r == g.items
           E(i) == Element(M, t, ps[i])
<1>1. IsSeq(q) /\ Len(q) \in Nat
  BY DEF IsContainer, IsSeq
<1>2. \A i \in 1..j : i \in 1..(j - 1) \/ i = j
  OBVIOUS
<1>3. \A i \in 1..j : Fine(M, t, ps[i])
  BY <1>2 DEF Gathered
<1>4. /\ IF Kind[t] = "list" THEN q = Collected(M, t, ps, j - 1)
                             ELSE ToSet(q) = Collected(M, t, ps, j - 1)
      /\ Kind[t] = "map" => {y[1] : y \in ToSet(q)} = {E(i)[1] : i \in 1..(j - 1)}
  BY DEF Gathered, Content
<1>5. /\ r = IF \/ Kind[t] = "list"
                \/ \A i \in 1..Len(q) : IF Kind[t] = "map" THEN q[i][1] # E(j)[1] ELSE q[i] # E(j)
             THEN Append(q, E(j)) ELSE q
  BY DEF More
<1>6. ToSet(q) = {q[i] : i \in 1..Len(q)} /\ ToSet(Append(q, E(j))) = ToSet(q) \cup {E(j)}
  BY <1>1, SetOf, SetOfAppend
<1>7. /\ g.type = t
      /\ Collected(M, t, ps, j) =
           IF Kind[t] = "list" THEN [i \in 1..j |-> E(i)]
           ELSE IF Kind[t] = "map"
           THEN {E(i) : i \in {m \in 1..j : \A k \in 1..(m - 1) : E(k)[1] # E(m)[1]}}
           ELSE {E(i) : i \in 1..j}
      /\ Collected(M, t, ps, j - 1) =
           IF Kind[t] = "list" THEN [i \in 1..(j - 1) |-> E(i)]
           ELSE IF Kind[t] = "map"
           THEN {E(i) : i \in {m \in 1..(j - 1) : \A k \in 1..(m - 1) : E(k)[1] # E(m)[1]}}
           ELSE {E(i) : i \in 1..(j - 1)}
  BY DEF Collected
<1> HIDE DEF E
<1>8. CASE Kind[t] = "list"
  <2>1. r = Append(q, E(j)) /\ q = [i \in 1..(j - 1) |-> E(i)]
    BY <1>4, <1>5, <1>7, <1>8
  <2>2. Len(q) = j - 1
    <3> DEFINE S == {E(i) : i \in 1..(j - 1)}
    <3>1. q \in [1..(j - 1) -> S]
      BY <2>1
    <3> HIDE DEF S
    <3>2. q \in Seq(S)
      BY <3>1, SeqDef
    <3> QED
      BY <3>1, <3>2
  <2>3. /\ IsSeq(r) /\ Len(r) = j /\ r[j] = E(j) /\ \A i \in 1..(j - 1) : r[i] = E(i)
    <3>1. /\ IsSeq(Append(q, E(j))) /\ Len(Append(q, E(j))) = Len(q) + 1
          /\ \A i \in 1..Len(q) : Append(q, E(j))[i] = q[i]
          /\ Append(q, E(j))[Len(q) + 1] = E(j)
      BY <1>1, AppendSeq
    <3>2. (j - 1) + 1 = j
      OBVIOUS
    <3>3. Len(r) = j /\ IsSeq(r) /\ r[j] = E(j)
      BY <2>1, <2>2, <3>1, <3>2
    <3>4. \A i \in 1..(j - 1) : r[i] = q[i]
      BY <2>1, <2>2, <3>1
    <3>5. \A i \in 1..(j - 1) : q[i] = E(i)
      BY <2>1
    <3> QED
      BY <3>3, <3>4, <3>5
  <2>4. \A i \in 1..j : r[i] = E(i)
    BY <1>2, <2>3
  <2>5. r = [i \in 1..j |-> r[i]]
    BY <2>3 DEF IsSeq
  <2>6. r = [i \in 1..j |-> E(i)]
    BY <2>4, <2>5
  <2> QED
    BY <1>3, <1>7, <1>8, <2>6 DEF Gathered, Content
<1>9. ASSUME Kind[t] # "list"
      PROVE  r = q \/ r = Append(q, E(j))
  BY <1>5
<1>10. CASE Kind[t] # "list" /\ Kind[t] # "map"
  <2>1. ToSet(q) = {E(i) : i \in 1..(j - 1)} /\ Collected(M, t, ps, j) = {E(i) : i \in 1..j}
    BY <1>4, <1>7, <1>10
  <2>2. {E(i) : i \in 1..j} = {E(i) : i \in 1..(j - 1)} \cup {E(j)}
    <3>1. j \in 1..j /\ \A i \in 1..(j - 1) : i \in 1..j
      OBVIOUS
    <3> QED
      BY <1>2, <3>1
  <2>3. ToSet(r) = ToSet(q) \cup {E(j)}
    <3>1. CASE r = Append(q, E(j))
      BY <1>6, <3>1
    <3>2. CASE r # Append(q, E(j))
      <4>1. r = q /\ \E i \in 1..Len(q) : q[i] = E(j)
        BY <1>5, <1>10, <3>2
      <4>2. E(j) \in ToSet(q)
        BY <1>6, <4>1
      <4> QED
        BY <4>1, <4>2
    <3> QED
      BY <3>1, <3>2
  <2>4. ToSet(r) = Collected(M, t, ps, j)
    BY <2>1, <2>2, <2>3
  <2> QED
    BY <1>3, <1>7, <1>10, <2>4 DEF Gathered, Content
<1>11. CASE Kind[t] = "map"
  <2> DEFINE First(k) == {m \in 1..k : \A l \in 1..(m - 1) : E(l)[1] # E(m)[1]}
             K == {E(i)[1] : i \in 1..(j - 1)}
  <2>1. /\ ToSet(q) = {E(i) : i \in First(j - 1)} /\ Collected(M, t, ps, j) = {E(i) : i \in First(j)}
        /\ {y[1] : y \in ToSet(q)} = K
    BY <1>4, <1>7, <1>11
  <2>2. First(j) = First(j - 1) \cup (IF E(j)[1] \in K THEN {} ELSE {j})
    <3>1. E(j)[1] \in K <=> \E l \in 1..(j - 1) : E(l)[1] = E(j)[1]
      OBVIOUS
    <3>2. j \in 1..j /\ j \notin 1..(j - 1) /\ \A i \in 1..(j - 1) : i \in 1..j
      OBVIOUS
    <3> QED
      BY <1>2, <3>1, <3>2
  <2>3. {E(i)[1] : i \in 1..j} = K \cup {E(j)[1]}
    <3>1. j \in 1..j /\ \A i \in 1..(j - 1) : i \in 1..j
      OBVIOUS
    <3> QED
      BY <1>2, <3>1
  <2>4. r = IF E(j)[1] \in K THEN q ELSE Append(q, E(j))
    <3>1. E(j)[1] \in K <=> \E y \in ToSet(q) : y[1] = E(j)[1]
      BY <2>1
    <3>2. E(j)[1] \in K <=> \E i \in 1..Len(q) : q[i][1] = E(j)[1]
      BY <1>6, <3>1
    <3> QED
      BY <1>5, <1>11, <3>2
  <2> HIDE DEF K, First
  <2>5. CASE E(j)[1] \in K
    <3>1. r = q /\ First(j) = First(j - 1) /\ {E(i)[1] : i \in 1..j} = K
      BY <2>2, <2>3, <2>4, <2>5
    <3>2. ToSet(r) = Collected(M, t, ps, j) /\ {y[1] : y \in ToSet(r)} = {E(i)[1] : i \in 1..j}
      BY <2>1, <3>1
    <3> QED
      BY <1>3, <1>7, <1>11, <3>2 DEF Gathered, Content, E
  <2>6. CASE E(j)[1] \notin K
    <3>1. r = Append(q, E(j)) /\ First(j) = First(j - 1) \cup {j} /\ ToSet(r) = ToSet(q) \cup {E(j)}
      BY <1>6, <2>2, <2>4, <2>6
    <3>2. {E(i) : i \in First(j - 1) \cup {j}} = {E(i) : i \in First(j - 1)} \cup {E(j)}
      OBVIOUS
    <3>3. ToSet(r) = Collected(M, t, ps, j)
      BY <2>1, <3>1, <3>2
    <3>4. {y[1] : y \in ToSet(q) \cup {E(j)}} = {y[1] : y \in ToSet(q)} \cup {E(j)[1]}
      OBVIOUS
    <3>5. {y[1] : y \in ToSet(r)} = {E(i)[1] : i \in 1..j}
      BY <2>1, <2>3, <3>1, <3>4
    <3> QED
      BY <1>3, <1>7, <1>11, <3>3, <3>5 DEF Gathered, Content, E
  <2> QED
    BY <2>5, <2>6
<1> QED
  BY <1>8, <1>10, <1>11

------------------------------------------------------------------------------
(***************************************************************************)
(* A step of a conversion keeps the meaning of what is read.               *)
(***************************************************************************)

\* What is known while a value is read and nothing has failed.
LEMMA MeaningFacts ==
  ASSUME Shaped, LaidOut, Reading, ~error, NEW M, NEW v, Meaningful(M, v),
         NEW n, n = Len(containers)
  PROVE  /\ Typed /\ IsSeq(stack) /\ IsSeq(containers) /\ IsSeq(rest) /\ ~Writing
         /\ Len(stack) \in Nat /\ Len(rest) \in Nat /\ n \in Nat
         /\ KeyAt(n) \in Nat /\ Consistent(M)
         /\ containers # << >> => n \in 1..n /\ F = containers[n]
         /\ containers = << >> => n = 0
         /\ \A k \in 1..n :
              /\ k \in Nat \ {0} /\ Keyed(k) /\ Framed(M, k)
              /\ KeyAt(k) \in Nat /\ KeyAt(k) <= KeyAt(n)
              /\ containers[k].at \in 1..(KeyAt(k) - 1)
              /\ containers[k].type \in Types /\ Container(containers[k].type)
              /\ stack[containers[k].at][1] = "table"
         /\ Child(M, 0, origin.type, v)
<1>1. /\ Typed /\ IsSeq(stack) /\ IsSeq(containers) /\ IsSeq(rest) /\ ~Writing
      /\ Len(stack) \in Nat /\ Len(rest) \in Nat /\ n \in Nat
      /\ KeyAt(n) \in Nat
      /\ containers # << >> => n \in 1..n /\ F = containers[n]
      /\ containers = << >> => n = 0
      /\ \A k \in 1..n : /\ k \in Nat \ {0} /\ Keyed(k)
                         /\ KeyAt(k) \in Nat /\ KeyAt(k) <= KeyAt(n)
  BY LaidFacts, EmptyIs
<1>2. Consistent(M) /\ Child(M, 0, origin.type, v) /\ \A k \in 1..n : Framed(M, k)
  BY DEF Meaningful
<1>3. \A k \in 1..n : containers[k].at \in 1..(KeyAt(k) - 1)
  BY <1>1 DEF Keyed, KeyAt
<1>4. \A k \in 1..n : containers[k].type \in Types /\ Container(containers[k].type)
  BY <1>1 DEF Typed, IsContainer
<1>5. \A k \in 1..n : stack[containers[k].at][1] = "table"
  BY <1>1 DEF Shaped, ReadPlaced, Directed
<1> QED
  BY <1>1, <1>2, <1>3, <1>4, <1>5

LEMMA ConsistentKept ==
  ASSUME NEW M, Consistent(M), UNCHANGED heap
  PROVE  Consistent(M)'
  BY DEF Consistent

\* What M says of a table.
LEMMA ConsistentAt ==
  ASSUME NEW M, Consistent(M), NEW t, NEW h, <<t, h>> \in DOMAIN M, NEW ps, ps = heap[h]
  PROVE  /\ Container(t) /\ h \in 1..Len(heap)
         /\ \A i \in 1..Len(ps) :
              /\ ps[i][1] # <<Nil>> /\ \A j \in 1..Len(ps) : ps[i][1] = ps[j][1] => i = j
              /\ Has(M, Elem[t], ps[i][2])
              /\ Kind[t] = "map" => Has(M, Key[t], ps[i][1])
         /\ M[<<t, h>>].ok <=> \A i \in 1..Len(ps) : Fine(M, t, ps[i])
         /\ M[<<t, h>>].ok => M[<<t, h>>].value = <<Kind[t], Collected(M, t, ps, Len(ps))>>
<1> DEFINE u == <<t, h>>
<1>1. u[1] = t /\ u[2] = h /\ u \in DOMAIN M
  OBVIOUS
<1> HIDE DEF u
<1>2. /\ Container(t) /\ h \in 1..Len(heap)
      /\ \A i \in 1..Len(ps) :
           /\ ps[i][1] # <<Nil>> /\ \A j \in 1..Len(ps) : ps[i][1] = ps[j][1] => i = j
           /\ Has(M, Elem[t], ps[i][2])
           /\ Kind[t] = "map" => Has(M, Key[t], ps[i][1])
      /\ M[u].ok <=> \A i \in 1..Len(ps) : Fine(M, t, ps[i])
      /\ M[u].ok => M[u].value = <<Kind[t], Collected(M, t, ps, Len(ps))>>
  BY <1>1 DEF Consistent
<1> QED
  BY <1>2 DEF u

\* An error is never undone, and what is Ok raises none.
LEMMA MeaningFailed ==
  ASSUME NEW M, NEW v, Meaningful(M, v), UNCHANGED <<heap, origin>>, error',
         ~Ok(M, origin.type, v)
  PROVE  Meaningful(M, v)'
<1>1. Consistent(M)' /\ Has(M, origin'.type, v) /\ ~Ok(M, origin'.type, v)
  BY ConsistentKept DEF Meaningful
<1>2. Has(M, origin.type, v)' /\ ~Ok(M, origin.type, v)'
  BY <1>1 DEF Has, Ok
<1> QED
  BY <1>1, <1>2 DEF Meaningful

\* A container around the innermost, or around what has been converted.
LEMMA FramedKept ==
  ASSUME NEW M, NEW k \in Nat \ {0}, Framed(M, k), containers[k].stage # "next",
         containers[k].at \in 1..KeyAt(k), Len(rest) \in Nat,
         containers'[k] = containers[k], UNCHANGED <<heap, rest>>,
         \A i \in 1..KeyAt(k) : stack'[i] = stack[i],
         \A t, w : Child(M, k, t, w) => Child(M, k, t, w)'
  PROVE  Framed(M, k)'
<1>1. /\ KeyAt(k)' = KeyAt(k) /\ stack'[KeyAt(k)] = stack[KeyAt(k)]
      /\ stack'[containers[k].at] = stack[containers[k].at]
      /\ Table(k)' = Table(k)
  BY DEF KeyAt, Table
<1>2. PICK f, ps : f = containers[k] /\ ps = Table(k)
  OBVIOUS
<1>3. PICK j \in 0..Len(ps) : Going(M, k, f, ps, j)
  BY <1>2 DEF Framed
<1>4. Going(M, k, f, ps, j)'
  <2>1. /\ stack[KeyAt(k)] = IF j = 0 THEN <<Nil>> ELSE ps[j][1]
        /\ j > 0 /\ Gathered(M, f, ps, j - 1)
        /\ f.stage = "value" => Child(M, k, Elem[f.type], ps[j][2])
        /\ f.stage = "key" => /\ Kind[f.type] = "map" /\ Ok(M, Elem[f.type], ps[j][2])
                              /\ f.held = Meaning(M, Elem[f.type], ps[j][2])
                              /\ Child(M, k, Key[f.type], ps[j][1])
    BY <1>2, <1>3 DEF Going
  <2>2. Gathered(M, f, ps, j - 1)' <=> Gathered(M, f, ps, j - 1)
    BY DEF Gathered, Fine, Content, Collected, Ok, Meaning, Element
  <2>3. f.stage = "value" => Child(M, k, Elem[f.type], ps[j][2])'
    BY <2>1
  <2>4. f.stage = "key" => Child(M, k, Key[f.type], ps[j][1])'
    BY <2>1
  <2>5. f.stage # "next"
    BY <1>2
  <2>6. stack'[KeyAt(k)'] = IF j = 0 THEN <<Nil>> ELSE ps[j][1]
    BY <1>1, <2>1
  <2> QED
    BY <2>1, <2>2, <2>3, <2>4, <2>5, <2>6 DEF Going
<1>5. containers'[k] = f /\ Table(k)' = ps
  BY <1>1, <1>2
<1>6. <<containers[k].type, stack[containers[k].at][2]>> \in DOMAIN M
  BY DEF Framed
<1>7. <<containers'[k].type, stack'[containers'[k].at][2]>> \in DOMAIN M
  BY <1>1, <1>6
<1>8. \E i \in 0..Len(Table(k)') : Going(M, k, containers[k], Table(k), i)'
  BY <1>4, <1>5
<1> QED
  BY <1>7, <1>8 DEF Framed

LEMMA ChildKept ==
  ASSUME NEW M, NEW k, k < Len(containers), k < Len(containers)',
         containers'[k + 1].type = containers[k + 1].type,
         containers'[k + 1].at = containers[k + 1].at,
         stack'[containers[k + 1].at] = stack[containers[k + 1].at]
  PROVE  \A t, w : Child(M, k, t, w) => Child(M, k, t, w)'
  BY DEF Child

\* What is converted has a meaning.
LEMMA ChildHas ==
  ASSUME Shaped, LaidOut, Reading, ~error, NEW M, NEW v, Meaningful(M, v), pc[1] = "from"
  PROVE  Has(M, pc[2], stack[pc[3]])
<1>0. PICK n : n = Len(containers)
  OBVIOUS
<1>1. /\ n \in Nat /\ Consistent(M) /\ Child(M, 0, origin.type, v)
      /\ containers # << >> => n \in 1..n
      /\ containers = << >> => n = 0
      /\ \A k \in 1..n : Framed(M, k)
  BY <1>0, MeaningFacts
<1>2. CASE containers = << >>
  <2>1. pc[2] = origin.type /\ stack[pc[3]] = v
    BY <1>0, <1>1, <1>2 DEF Child
  <2> QED
    BY <2>1 DEF Meaningful
<1>3. CASE containers # << >>
  <2>1. n \in 1..n /\ Framed(M, n)
    BY <1>1, <1>3
  <2>2. PICK f, ps, t, h : /\ f = containers[n] /\ ps = Table(n) /\ t = f.type
                           /\ h = stack[containers[n].at][2]
    OBVIOUS
  <2>3. /\ <<t, h>> \in DOMAIN M /\ ps = heap[h]
        /\ \E j \in 0..Len(ps) : Going(M, n, f, ps, j)
    BY <2>1, <2>2 DEF Framed, Table
  <2>4. PICK j \in 0..Len(ps) : Going(M, n, f, ps, j)
    BY <2>3
  <2>5. f.stage # "next" /\ f.stage \in {"next", "key", "value"}
    <3>1. f.stage # "next"
      BY <2>4 DEF Going
    <3>2. IsContainer(f)
      BY <2>1, <2>2, <1>0 DEF Shaped, Typed
    <3> QED
      BY <3>1, <3>2 DEF IsContainer
  <2>6. /\ \A i \in 1..Len(ps) : Has(M, Elem[t], ps[i][2]) /\ (Kind[t] = "map" => Has(M, Key[t], ps[i][1]))
    BY <1>1, <2>3, ConsistentAt
  <2>7. j \in 1..Len(ps)
    <3>1. j > 0 /\ j \in 0..Len(ps)
      BY <2>4, <2>5 DEF Going
    <3> QED
      BY <3>1
  <2>8. CASE f.stage = "value"
    <3>1. Child(M, n, Elem[t], ps[j][2])
      BY <2>2, <2>4, <2>8 DEF Going
    <3>2. ~(n < n)
      BY <2>1
    <3>3. pc[2] = Elem[t] /\ stack[pc[3]] = ps[j][2]
      BY <1>0, <3>1, <3>2 DEF Child
    <3> QED
      BY <2>6, <2>7, <3>3
  <2>9. CASE f.stage = "key"
    <3>1. Child(M, n, Key[t], ps[j][1]) /\ Kind[t] = "map"
      BY <2>2, <2>4, <2>9 DEF Going
    <3>2. ~(n < n)
      BY <2>1
    <3>3. pc[2] = Key[t] /\ stack[pc[3]] = ps[j][1]
      BY <1>0, <3>1, <3>2 DEF Child
    <3> QED
      BY <2>6, <2>7, <3>1, <3>3
  <2> QED
    BY <2>5, <2>8, <2>9
<1> QED
  BY <1>2, <1>3

\* lua_next goes on after the j-th pair.
LEMMA AfterKey ==
  ASSUME NEW ps, ps = Pairs, Len(ps) \in Nat,
         \A i \in 1..Len(ps) : /\ ps[i][1] # <<Nil>>
                               /\ \A l \in 1..Len(ps) : ps[i][1] = ps[l][1] => i = l,
         NEW j \in 0..Len(ps), NEW k, k = IF j = 0 THEN <<Nil>> ELSE ps[j][1]
  PROVE  After(k) = j + 1
<1>1. CASE j = 0
  BY <1>1 DEF After
<1>2. CASE j # 0
  <2>1. j \in 1..Len(ps) /\ k = ps[j][1] /\ k # <<Nil>>
    BY <1>2
  <2> DEFINE c == CHOOSE i \in 1..Len(Pairs) : Pairs[i][1] = k
  <2>2. c \in 1..Len(ps) /\ ps[c][1] = k
    BY <2>1
  <2>3. After(k) = 1 + c
    BY <2>1 DEF After
  <2> HIDE DEF c
  <2>4. c = j
    BY <2>1, <2>2
  <2> QED
    BY <2>3, <2>4
<1> QED
  BY <1>1, <1>2

\* The innermost container becomes g, which is at the j-th pair.
LEMMA MeaningBecame ==
  ASSUME Shaped, LaidOut, Reading, ~error, ~error', NEW M, NEW v, Meaningful(M, v),
         containers # << >>, UNCHANGED <<heap, rest, origin>>,
         NEW g, g.type = F.type, g.at = F.at, Became(g),
         NEW n, n = Len(containers), NEW ps, ps = Pairs,
         \A i \in 1..(KeyAt(n) - 1) : stack'[i] = stack[i],
         NEW j \in 0..Len(ps), Going(M, n, g, ps, j)',
         Ok(M, F.type, stack[F.at]) /\ pc'[1] = "from" => Ok(M, pc'[2], stack'[pc'[3]])
  PROVE  Meaningful(M, v)'
<1>1. /\ n \in Nat \ {0} /\ n \in 1..n /\ Len(rest) \in Nat /\ F = containers[n]
      /\ KeyAt(n) \in Nat /\ Consistent(M) /\ Child(M, 0, origin.type, v)
      /\ \A k \in 1..n :
           /\ k \in Nat \ {0} /\ Framed(M, k) /\ KeyAt(k) \in Nat
           /\ containers[k].at \in 1..(KeyAt(k) - 1)
  BY MeaningFacts
<1>2. /\ Len(containers') = n
      /\ \A k \in 1..(n - 1) : containers'[k] = containers[k]
      /\ containers'[n] = g
  BY DEF Became
<1>3. \A k \in 1..n : /\ containers'[k].type = containers[k].type
                      /\ containers'[k].at = containers[k].at
                      /\ stack'[containers[k].at] = stack[containers[k].at]
  <2> TAKE k \in 1..n
  <2>1. containers[k].at \in 1..(KeyAt(n) - 1)
    <3>1. KeyAt(k) \in Nat /\ KeyAt(k) <= KeyAt(n) /\ containers[k].at \in 1..(KeyAt(k) - 1)
      BY <1>1 DEF KeyAt
    <3> QED
      BY <1>1, <3>1
  <2>2. CASE k = n
    BY <1>1, <1>2, <2>1, <2>2
  <2>3. CASE k \in 1..(n - 1)
    BY <1>2, <2>1, <2>3
  <2> QED
    BY <1>1, <2>2, <2>3
<1>4. ASSUME NEW k \in 0..(n - 1)
      PROVE  \A t, w : Child(M, k, t, w) => Child(M, k, t, w)'
  <2>1. k + 1 \in 1..n /\ k < n
    BY <1>1
  <2>2. k < Len(containers) /\ k < Len(containers)'
    BY <1>2, <2>1
  <2>3. /\ containers'[k + 1].type = containers[k + 1].type
        /\ containers'[k + 1].at = containers[k + 1].at
        /\ stack'[containers[k + 1].at] = stack[containers[k + 1].at]
    BY <1>3, <2>1
  <2> QED
    BY <2>2, <2>3, ChildKept
<1>5. Child(M, 0, origin.type, v)'
  <2>1. 0 \in 0..(n - 1)
    BY <1>1
  <2>2. PICK t : t = origin.type /\ t = origin'.type
    OBVIOUS
  <2>3. Child(M, 0, t, v)'
    BY <1>1, <1>4, <2>1, <2>2
  <2> QED
    BY <2>2, <2>3 DEF Child
<1>6. ASSUME NEW k \in 1..(n - 1) PROVE Framed(M, k)'
  <2>1. k \in 1..n /\ k \in 0..(n - 1) /\ k # n
    BY <1>1
  <2>2. containers[k].stage # "next"
    BY <1>1, <2>1 DEF Framed, Going
  <2>3. containers[k].at \in 1..KeyAt(k) /\ \A i \in 1..KeyAt(k) : i \in 1..(KeyAt(n) - 1)
    <3>1. KeyAt(k) \in Nat /\ KeyAt(k) <= KeyAt(n) - 2
      BY <1>1 DEF KeyAt
    <3> QED
      BY <1>1, <2>1, <3>1
  <2>4. \A i \in 1..KeyAt(k) : stack'[i] = stack[i]
    BY <2>3
  <2>5. \A t, w : Child(M, k, t, w) => Child(M, k, t, w)'
    BY <1>4, <2>1
  <2>6. k \in Nat \ {0} /\ Framed(M, k) /\ containers'[k] = containers[k]
    BY <1>1, <1>2, <2>1
  <2> QED
    BY <1>1, <2>2, <2>3, <2>4, <2>5, <2>6, FramedKept
<1>7. Framed(M, n)'
  <2>1. <<containers[n].type, stack[containers[n].at][2]>> \in DOMAIN M
    BY <1>1 DEF Framed
  <2>2. <<containers'[n].type, stack'[containers'[n].at][2]>> \in DOMAIN M
    BY <1>1, <1>3, <2>1
  <2>3. Table(n)' = ps /\ containers'[n] = g
    BY <1>1, <1>2, <1>3 DEF Table, Pairs
  <2>4. \E i \in 0..Len(Table(n)') : Going(M, n, containers[n], Table(n), i)'
    BY <2>3
  <2> QED
    BY <2>2, <2>4 DEF Framed
<1>8. \A k \in 1..Len(containers') : Framed(M, k)'
  BY <1>1, <1>2, <1>6, <1>7
<1>9. Ok(M, origin'.type, v) =>
        /\ \A k \in 1..Len(containers') : Ok(M, containers'[k].type, stack'[containers'[k].at])
        /\ pc'[1] = "from" => Ok(M, pc'[2], stack'[pc'[3]])
  <2> SUFFICES ASSUME Ok(M, origin.type, v)
               PROVE  /\ \A k \in 1..n : Ok(M, containers'[k].type, stack'[containers'[k].at])
                      /\ pc'[1] = "from" => Ok(M, pc'[2], stack'[pc'[3]])
    BY <1>2
  <2>1. \A k \in 1..n : Ok(M, containers[k].type, stack[containers[k].at])
    BY DEF Meaningful
  <2>2. Ok(M, F.type, stack[F.at])
    BY <1>1, <2>1
  <2>3. \A k \in 1..n : Ok(M, containers'[k].type, stack'[containers'[k].at])
    BY <1>3, <2>1
  <2> QED
    BY <2>2, <2>3
<1>10. Consistent(M)' /\ Has(M, origin'.type, v)
  BY <1>1, ConsistentKept DEF Meaningful
<1> QED
  BY <1>5, <1>8, <1>9, <1>10 DEF Meaningful, Ok, Has

\* Where the value is that is converted.
LEMMA FromPlace ==
  ASSUME Shaped, LaidOut, Reading, pc[1] = "from", NEW n, n = Len(containers)
  PROVE  /\ ~error /\ pc[2] \in Plain /\ pc[2] \in Types
         /\ Len(stack) = KeyAt(n) + 1 /\ pc[3] \in 1..Len(stack)
         /\ n > 0 => pc[3] = Len(stack)
         /\ n = 0 => pc[3] = 1
<1>1. /\ ~error /\ pc[2] \in Plain /\ pc[2] \in Types /\ Len(stack) = KeyAt(n) + 1
      /\ containers = << >> => pc[3] = 1
  BY DEF LaidOut, Shaped, Directed
<1>2. /\ Len(stack) \in Nat /\ containers # << >> => n \in 1..n
      /\ n \in Nat
  BY LaidFacts
<1>3. containers = << >> <=> n = 0
  BY <1>2, LaidFacts, EmptyIs
<1>4. pc[3] \in 1..Len(stack) /\ (containers # << >> => pc[3] = Len(stack))
  BY <1>2, LaidFacts, Facts DEF Shaped, ReadPlaced, Reading
<1> QED
  BY <1>1, <1>2, <1>3, <1>4

\* A value that is no container is converted.
LEMMA MeaningAnswered ==
  ASSUME Shaped, LaidOut, Reading, NEW M, NEW v, Meaningful(M, v), pc[1] = "from",
         NEW t, NEW w, t = pc[2], w = stack[pc[3]], ~Container(t), Readable(t, w),
         pc' = <<"back", Read(t, w)>>, stack' = RemoveAt(stack, pc[3]),
         UNCHANGED <<containers, heap, error, rest, origin>>
  PROVE  Meaningful(M, v)'
<1>0. PICK n, m : n = Len(containers) /\ m = Len(stack)
  OBVIOUS
<1>1. /\ ~error /\ m = KeyAt(n) + 1 /\ pc[3] \in 1..m /\ (n > 0 => pc[3] = m)
  BY <1>0, FromPlace
<1>2. /\ n \in Nat /\ m \in Nat /\ Len(rest) \in Nat /\ IsSeq(stack) /\ Consistent(M)
      /\ \A k \in 1..n :
           /\ k \in Nat \ {0} /\ Framed(M, k) /\ KeyAt(k) \in Nat /\ KeyAt(k) <= KeyAt(n)
           /\ containers[k].at \in 1..(KeyAt(k) - 1)
      /\ Child(M, 0, origin.type, v)
  BY <1>0, <1>1, MeaningFacts
<1>3. \A i \in 1..(pc[3] - 1) : stack'[i] = stack[i]
  BY <1>0, <1>1, <1>2, RemoveSeq
<1>4. n > 0 => \A i \in 1..KeyAt(n) : stack'[i] = stack[i]
  <2> SUFFICES ASSUME n > 0 PROVE \A i \in 1..KeyAt(n) : stack'[i] = stack[i]
    OBVIOUS
  <2>1. pc[3] - 1 = KeyAt(n)
    BY <1>1, <1>2 DEF KeyAt
  <2> QED
    BY <1>3, <2>1
<1>5. Ok(M, t, w) /\ Meaning(M, t, w) = Read(t, w)
  BY DEF Ok, Meaning
<1>6. pc'[1] = "back" /\ pc'[2] = Read(t, w)
  OBVIOUS
<1>7. ASSUME NEW k \in 0..n
      PROVE  \A s, x : Child(M, k, s, x) => Child(M, k, s, x)'
  <2>1. CASE k < n
    <3>1. k + 1 \in 1..n /\ k < Len(containers) /\ n > 0
      BY <1>0, <1>2, <2>1
    <3>2. containers[k + 1].at \in 1..KeyAt(n)
      BY <1>2, <3>1 DEF KeyAt
    <3>3. stack'[containers[k + 1].at] = stack[containers[k + 1].at]
      BY <1>4, <3>1, <3>2
    <3>4. containers' = containers /\ k < Len(containers) /\ k < Len(containers)'
      BY <3>1
    <3>5. /\ containers'[k + 1].type = containers[k + 1].type
          /\ containers'[k + 1].at = containers[k + 1].at
      BY <3>4
    <3> QED
      BY <3>3, <3>4, <3>5, ChildKept
  <2>2. CASE k = n
    <3> TAKE s, x
    <3> SUFFICES ASSUME Child(M, k, s, x) PROVE Child(M, k, s, x)'
      OBVIOUS
    <3>1. ~(k < Len(containers)) /\ ~(k < Len(containers'))
      BY <1>0, <1>2, <2>2
    <3>2. t = s /\ w = x
      BY <3>1 DEF Child
    <3>3. Ok(M, s, x)' /\ pc'[2] = Meaning(M, s, x)'
      BY <1>5, <1>6, <3>2 DEF Ok, Meaning
    <3> QED
      BY <1>6, <3>1, <3>3 DEF Child
  <2> QED
    BY <1>2, <2>1, <2>2
<1>8. Child(M, 0, origin.type, v)'
  <2>1. 0 \in 0..n
    BY <1>2
  <2>2. PICK s : s = origin.type /\ s = origin'.type
    OBVIOUS
  <2>3. Child(M, 0, s, v)'
    BY <1>2, <1>7, <2>1, <2>2
  <2> QED
    BY <2>2, <2>3 DEF Child
<1>9. ASSUME NEW k \in 1..n PROVE Framed(M, k)'
  <2>1. k \in 0..n /\ n > 0
    BY <1>2
  <2>2. containers[k].stage # "next"
    BY <1>2 DEF Framed, Going
  <2>3. \A i \in 1..KeyAt(k) : i \in 1..KeyAt(n)
    BY <1>2 DEF KeyAt
  <2>4. \A i \in 1..KeyAt(k) : stack'[i] = stack[i]
    BY <1>4, <2>1, <2>3
  <2>5. containers[k].at \in 1..KeyAt(k)
    BY <1>2
  <2>6. \A s, x : Child(M, k, s, x) => Child(M, k, s, x)'
    BY <1>7, <2>1
  <2>7. k \in Nat \ {0} /\ Framed(M, k) /\ containers'[k] = containers[k]
    BY <1>2
  <2> QED
    BY <1>2, <2>2, <2>4, <2>5, <2>6, <2>7, FramedKept
<1>10. ASSUME NEW k \in 1..n PROVE stack'[containers[k].at] = stack[containers[k].at]
  <2>1. n > 0 /\ containers[k].at \in 1..(KeyAt(k) - 1) /\ KeyAt(k) \in Nat /\ KeyAt(k) <= KeyAt(n)
    BY <1>2
  <2>2. containers[k].at \in 1..KeyAt(n)
    BY <1>2, <2>1 DEF KeyAt
  <2> QED
    BY <1>4, <2>1, <2>2
<1>11. Ok(M, origin'.type, v) =>
         \A k \in 1..Len(containers') : Ok(M, containers'[k].type, stack'[containers'[k].at])
  BY <1>0, <1>10 DEF Meaningful
<1>12. Consistent(M)' /\ Has(M, origin'.type, v)
  BY <1>2, ConsistentKept DEF Meaningful
<1>13. \A k \in 1..Len(containers') : Framed(M, k)'
  BY <1>0, <1>9
<1> QED
  BY <1>1, <1>6, <1>8, <1>11, <1>12, <1>13 DEF Meaningful, Ok, Has

\* What is converted is not what its type needs.
LEMMA MeaningRefused ==
  ASSUME NEW M, NEW v, Meaningful(M, v), UNCHANGED <<heap, origin>>, error',
         error \/ (pc[1] = "from" /\ ~Ok(M, pc[2], stack[pc[3]]))
  PROVE  Meaningful(M, v)'
<1>1. ~Ok(M, origin.type, v)
  BY DEF Meaningful
<1> QED
  BY <1>1, MeaningFailed

LEMMA FromBasicMeans ==
  ASSUME Shaped, LaidOut, Reading, NEW M, NEW v, Meaningful(M, v), FromBasic
  PROVE  Meaningful(M, v)'
<1>1. /\ pc[1] = "from" /\ ~Container(pc[2]) /\ UNCHANGED <<containers, heap, rest, origin>>
  BY DEF FromBasic
<1>2. pc[2] \in Plain /\ pc[2] \in Types
  BY <1>1, FromPlace
<1>3. CASE Readable(pc[2], stack[pc[3]])
  <2>1. /\ pc' = <<"back", Read(pc[2], stack[pc[3]])>> /\ error' = error
        /\ stack' = RemoveAt(stack, pc[3])
    BY <1>2, <1>3, ConvertAssumption DEF FromBasic, Back, Removed
  <2> QED
    BY <1>1, <1>3, <2>1, MeaningAnswered
<1>4. CASE ~Readable(pc[2], stack[pc[3]])
  <2>1. error' /\ ~Ok(M, pc[2], stack[pc[3]])
    BY <1>1, <1>4 DEF FromBasic, Ok
  <2> QED
    BY <1>1, <2>1, MeaningRefused
<1> QED
  BY <1>3, <1>4

LEMMA FromEnumMeans ==
  ASSUME Shaped, LaidOut, Reading, NEW M, NEW v, Meaningful(M, v), FromEnum
  PROVE  Meaningful(M, v)'
<1>1. /\ pc[1] = "from" /\ Kind[pc[2]] = "enum" /\ UNCHANGED <<containers, heap, rest, origin>>
      /\ ~Container(pc[2])
  BY DEF FromEnum, Container
<1>3. CASE Readable(pc[2], stack[pc[3]])
  <2>1. Fits(Elem[pc[2]], stack[pc[3]])
    BY <1>1, <1>3 DEF Readable, Under
  <2>2. /\ pc' = <<"back", Read(pc[2], stack[pc[3]])>> /\ error' = error
        /\ stack' = RemoveAt(stack, pc[3])
    BY <1>1, <1>3, <2>1 DEF FromEnum, Back, Removed
  <2> QED
    BY <1>1, <1>3, <2>2, MeaningAnswered
<1>4. CASE ~Readable(pc[2], stack[pc[3]])
  <2>1. error' /\ ~Ok(M, pc[2], stack[pc[3]])
    BY <1>1, <1>4 DEF FromEnum, Ok
  <2> QED
    BY <1>1, <2>1, MeaningRefused
<1> QED
  BY <1>3, <1>4

LEMMA FromOpenMeans ==
  ASSUME Shaped, LaidOut, Reading, NEW M, NEW v, Meaningful(M, v), FromOpen
  PROVE  Meaningful(M, v)'
<1>0. PICK n, m, t, w : /\ n = Len(containers) /\ m = Len(stack)
                        /\ t = pc[2] /\ w = stack[pc[3]]
  OBVIOUS
<1>1. /\ pc[1] = "from" /\ Container(t) /\ pc' = <<"back", None>>
      /\ UNCHANGED <<heap, rest, origin>>
  BY <1>0 DEF FromOpen, Back
<1>2. CASE w[1] # "table"
  <2>1. error' /\ ~Ok(M, pc[2], stack[pc[3]])
    BY <1>0, <1>1, <1>2 DEF FromOpen, Ok
  <2> QED
    BY <1>1, <2>1, MeaningRefused
<1>3. CASE w[1] = "table"
  <2>1. /\ ~error /\ m = KeyAt(n) + 1 /\ pc[3] \in 1..m /\ (n > 0 => pc[3] = m)
    BY <1>0, <1>1, FromPlace
  <2>2. /\ n \in Nat /\ m \in Nat /\ Len(rest) \in Nat /\ IsSeq(stack) /\ Consistent(M)
        /\ IsSeq(containers)
        /\ \A k \in 1..n :
             /\ k \in Nat \ {0} /\ Framed(M, k) /\ KeyAt(k) \in Nat /\ KeyAt(k) <= KeyAt(n)
             /\ containers[k].at \in 1..(KeyAt(k) - 1)
        /\ Child(M, 0, origin.type, v)
    BY <1>0, <2>1, MeaningFacts
  <2>0. PICK f : f = [to |-> FALSE, type |-> pc[2], at |-> pc[3],
                       items |-> << >>, held |-> None, stage |-> "next"]
    OBVIOUS
  <2>3. /\ stack' = Append(stack, <<Nil>>) /\ containers' = Append(containers, f)
        /\ error' = error
    BY <1>0, <1>3, <2>0 DEF FromOpen
  <2>4. f.type = t /\ f.at = pc[3] /\ f.stage = "next" /\ f.items = << >>
    BY <1>0, <2>0
  <2>5. /\ Len(containers') = n + 1
        /\ \A k \in 1..n : containers'[k] = containers[k]
        /\ containers'[n + 1] = f
    BY <1>0, <2>2, <2>3, OpenedLemma DEF Opened
  <2>6. /\ Len(stack') = m + 1
        /\ \A i \in 1..m : stack'[i] = stack[i]
        /\ stack'[m + 1] = <<Nil>>
    BY <1>0, <2>2, <2>3, AppendSeq
  <2>7. \A k \in 1..n : KeyAt(k) \in 1..m /\ containers[k].at \in 1..m /\ containers[k].at \in 1..KeyAt(k)
    <3> TAKE k \in 1..n
    <3>1. KeyAt(k) \in Nat /\ KeyAt(k) <= KeyAt(n) /\ containers[k].at \in 1..(KeyAt(k) - 1)
      BY <2>2
    <3> QED
      BY <2>1, <2>2, <3>1 DEF KeyAt
  <2>8. ASSUME NEW k \in 0..n
        PROVE  \A s, x : Child(M, k, s, x) => Child(M, k, s, x)'
    <3>1. CASE k < n
      <4>1. k + 1 \in 1..n /\ k < Len(containers)
        BY <1>0, <2>2, <3>1
      <4>2. k < Len(containers)'
        BY <2>2, <2>5, <3>1
      <4>3. /\ containers'[k + 1].type = containers[k + 1].type
            /\ containers'[k + 1].at = containers[k + 1].at
            /\ stack'[containers[k + 1].at] = stack[containers[k + 1].at]
        BY <2>5, <2>6, <2>7, <4>1
      <4> QED
        BY <4>1, <4>2, <4>3, ChildKept
    <3>2. CASE k = n
      <4> TAKE s, x
      <4> SUFFICES ASSUME Child(M, k, s, x) PROVE Child(M, k, s, x)'
        OBVIOUS
      <4>1. ~(k < Len(containers))
        BY <1>0, <2>2, <3>2
      <4>2. t = s /\ w = x
        BY <1>0, <1>1, <4>1 DEF Child
      <4>3. k < Len(containers') /\ containers'[k + 1].type = s
        BY <2>2, <2>4, <2>5, <3>2, <4>2
      <4>4. stack'[containers'[k + 1].at] = x
        BY <1>0, <2>1, <2>4, <2>5, <2>6, <3>2, <4>2
      <4> QED
        BY <4>3, <4>4 DEF Child
    <3> QED
      BY <2>2, <3>1, <3>2
  <2>9. Child(M, 0, origin.type, v)'
    <3>1. 0 \in 0..n
      BY <2>2
    <3>2. PICK s : s = origin.type /\ s = origin'.type
      BY <1>1
    <3>3. Child(M, 0, s, v)'
      BY <2>2, <2>8, <3>1, <3>2
    <3> QED
      BY <3>2, <3>3 DEF Child
  <2>10. ASSUME NEW k \in 1..n PROVE Framed(M, k)'
    <3>1. k \in 0..n
      OBVIOUS
    <3>2. containers[k].stage # "next"
      BY <1>1, <2>2 DEF Framed, Going
    <3>3. \A i \in 1..KeyAt(k) : stack'[i] = stack[i]
      <4>1. \A i \in 1..KeyAt(k) : i \in 1..m
        BY <2>2, <2>7
      <4> QED
        BY <2>6, <4>1
    <3>4. \A s, x : Child(M, k, s, x) => Child(M, k, s, x)'
      BY <2>8, <3>1
    <3>5. k \in Nat \ {0} /\ Framed(M, k) /\ containers'[k] = containers[k]
      BY <2>2, <2>5
    <3> QED
      BY <1>1, <2>2, <2>7, <3>2, <3>3, <3>4, <3>5, FramedKept
  <2>11. Framed(M, n + 1)'
    <3>1. <<t, w[2]>> \in DOMAIN M
      BY <1>0, <1>1, <1>3, <2>1, ChildHas DEF Has
    <3>2. stack'[containers'[n + 1].at] = w /\ containers'[n + 1].type = t
      BY <1>0, <2>1, <2>4, <2>5, <2>6
    <3>3. PICK ps : ps = heap[w[2]]
      OBVIOUS
    <3>4. Table(n + 1)' = ps
      BY <1>1, <3>2, <3>3 DEF Table
    <3>5. Gathered(M, f, ps, 0)
      <4>1. Content(f)[2] = IF Kind[t] = "list" THEN << >> ELSE {}
        BY <2>4, SetOfEmpty DEF Content
      <4>2. \A i \in 1..0 : FALSE
        OBVIOUS
      <4>3. Kind[t] \in {"list", "map"} \/ Collected(M, t, ps, 0) = {}
        BY <4>2 DEF Collected
      <4>4. Kind[t] = "map" => Collected(M, t, ps, 0) = {}
        <5> SUFFICES ASSUME Kind[t] = "map" PROVE Collected(M, t, ps, 0) = {}
          OBVIOUS
        <5> DEFINE S == {i \in 1..0 : \A k \in 1..(i - 1) : Element(M, t, ps[k])[1] # Element(M, t, ps[i])[1]}
        <5>1. S = {}
          BY <4>2
        <5>2. Collected(M, t, ps, 0) = {Element(M, t, ps[i]) : i \in S}
          BY DEF Collected
        <5> HIDE DEF S
        <5> QED
          BY <5>1, <5>2
      <4>5. Kind[t] = "list" => Collected(M, t, ps, 0) = << >>
        <5>1. [i \in 1..0 |-> Element(M, t, ps[i])] = << >>
          OBVIOUS
        <5> QED
          BY <5>1 DEF Collected
      <4>6. Content(f)[2] = Collected(M, t, ps, 0)
        BY <4>1, <4>3, <4>4, <4>5
      <4>7. {y[1] : y \in ToSet(f.items)} = {Element(M, t, ps[i])[1] : i \in 1..0}
        BY <2>4, <4>2, SetOfEmpty
      <4> QED
        BY <2>4, <4>2, <4>6, <4>7 DEF Gathered
    <3>6. Going(M, n + 1, f, ps, 0)'
      <4>1. KeyAt(n + 1)' = m + 1
        BY <1>1, <2>1, <2>2 DEF KeyAt
      <4>2. n + 1 = Len(containers') /\ pc'[1] = "back"
        BY <1>1, <2>5
      <4>3. Gathered(M, f, ps, 0)'
        BY <3>5 DEF Gathered, Fine, Content, Collected, Ok, Meaning, Element
      <4> QED
        BY <2>4, <2>6, <4>1, <4>2, <4>3 DEF Going
    <3>7. containers'[n + 1] = f
      BY <2>5
    <3>9. Len(ps) \in Nat
      <4>1. w[2] \in 1..Len(heap)
        BY <2>2, <3>1, ConsistentAt
      <4> QED
        BY <3>3, <4>1 DEF Shaped, Typed, IsTable, IsSeq
    <3>8. \E j \in 0..Len(Table(n + 1)') : Going(M, n + 1, containers[n + 1], Table(n + 1), j)'
      <4>1. 0 \in 0..Len(ps)
        BY <3>9
      <4> QED
        BY <3>4, <3>6, <3>7, <4>1
    <3> QED
      BY <3>1, <3>2, <3>8 DEF Framed
  <2>12. \A k \in 1..Len(containers') : k \in 1..n \/ k = n + 1
    BY <2>2, <2>5
  <2>13. \A k \in 1..Len(containers') : Framed(M, k)'
    BY <2>10, <2>11, <2>12
  <2>14. Ok(M, origin'.type, v) =>
           \A k \in 1..Len(containers') : Ok(M, containers'[k].type, stack'[containers'[k].at])
    <3> SUFFICES ASSUME Ok(M, origin.type, v), NEW k \in 1..Len(containers')
                 PROVE  Ok(M, containers'[k].type, stack'[containers'[k].at])
      BY <1>1
    <3>1. Ok(M, t, w) /\ \A l \in 1..n : Ok(M, containers[l].type, stack[containers[l].at])
      BY <1>0, <1>1 DEF Meaningful
    <3>2. CASE k \in 1..n
      <4>1. containers'[k] = containers[k] /\ stack'[containers[k].at] = stack[containers[k].at]
        BY <2>5, <2>6, <2>7, <3>2
      <4> QED
        BY <3>1, <3>2, <4>1
    <3>3. CASE k = n + 1
      <4>1. stack'[containers'[k].at] = w /\ containers'[k].type = t
        BY <1>0, <2>1, <2>4, <2>5, <2>6, <3>3
      <4> QED
        BY <3>1, <4>1
    <3> QED
      BY <2>12, <3>2, <3>3
  <2>15. Consistent(M)' /\ Has(M, origin'.type, v)
    BY <1>1, <2>2, ConsistentKept DEF Meaningful
  <2>16. ~error' /\ pc'[1] = "back"
    BY <1>1, <2>1, <2>3
  <2> QED
    BY <2>9, <2>13, <2>14, <2>15, <2>16 DEF Meaningful, Ok, Has
<1> QED
  BY <1>2, <1>3

\* The innermost container is at a pair of its table.
LEMMA FramePairs ==
  ASSUME Shaped, LaidOut, Reading, ~error, NEW M, NEW v, Meaningful(M, v), containers # << >>,
         NEW n, n = Len(containers), NEW ps, ps = Pairs
  PROVE  /\ n \in 1..n /\ F = containers[n] /\ Len(ps) \in Nat /\ IsContainer(F)
         /\ F.stage \in Stages /\ IsSeq(F.items)
         /\ <<F.type, stack[F.at][2]>> \in DOMAIN M /\ ps = heap[stack[F.at][2]]
         /\ stack[F.at][1] = "table" /\ F.at \in 1..(KeyAt(n) - 1) /\ KeyAt(n) \in Nat
         /\ \E j \in 0..Len(ps) : Going(M, n, F, ps, j)
         /\ \A i \in 1..Len(ps) :
              /\ ps[i][1] # <<Nil>> /\ \A l \in 1..Len(ps) : ps[i][1] = ps[l][1] => i = l
         /\ Ok(M, F.type, stack[F.at]) <=> \A i \in 1..Len(ps) : Fine(M, F.type, ps[i])
         /\ Ok(M, F.type, stack[F.at]) =>
              Meaning(M, F.type, stack[F.at]) = <<Kind[F.type], Collected(M, F.type, ps, Len(ps))>>
<1>1. /\ n \in 1..n /\ F = containers[n] /\ Framed(M, n) /\ Consistent(M) /\ KeyAt(n) \in Nat
      /\ F.at \in 1..(KeyAt(n) - 1) /\ Container(F.type) /\ stack[F.at][1] = "table" /\ ~Writing
  BY MeaningFacts
<1>2. /\ Len(ps) \in Nat /\ IsContainer(F)
  BY <1>1, FromFacts DEF IsTable, IsSeq
<1>3. F.stage \in Stages /\ IsSeq(F.items)
  BY <1>2 DEF IsContainer, Stages
<1>4. PICK t, h : t = F.type /\ h = stack[F.at][2]
  OBVIOUS
<1>5. <<t, h>> \in DOMAIN M /\ ps = heap[h] /\ \E j \in 0..Len(ps) : Going(M, n, F, ps, j)
  BY <1>1, <1>4 DEF Framed, Table, Pairs
<1>6. /\ \A i \in 1..Len(ps) :
           /\ ps[i][1] # <<Nil>> /\ \A l \in 1..Len(ps) : ps[i][1] = ps[l][1] => i = l
      /\ M[<<t, h>>].ok <=> \A i \in 1..Len(ps) : Fine(M, t, ps[i])
      /\ M[<<t, h>>].ok => M[<<t, h>>].value = <<Kind[t], Collected(M, t, ps, Len(ps))>>
  <2>1. Consistent(M) /\ <<t, h>> \in DOMAIN M /\ ps = heap[h]
    BY <1>1, <1>5
  <2> QED
    BY ONLY <2>1, ConsistentAt
<1>7. /\ Ok(M, F.type, stack[F.at]) <=> M[<<t, h>>].ok
      /\ Meaning(M, F.type, stack[F.at]) = M[<<t, h>>].value
  BY <1>1, <1>4 DEF Ok, Meaning
<1>8. /\ Ok(M, F.type, stack[F.at]) <=> \A i \in 1..Len(ps) : Fine(M, F.type, ps[i])
      /\ Ok(M, F.type, stack[F.at]) =>
           Meaning(M, F.type, stack[F.at]) = <<Kind[F.type], Collected(M, F.type, ps, Len(ps))>>
  <2>1. /\ Ok(M, t, stack[F.at]) <=> \A i \in 1..Len(ps) : Fine(M, t, ps[i])
        /\ Ok(M, t, stack[F.at]) =>
             Meaning(M, t, stack[F.at]) = <<Kind[t], Collected(M, t, ps, Len(ps))>>
    BY <1>4, <1>6, <1>7
  <2> QED
    BY <1>4, <2>1
<1>9. <<F.type, stack[F.at][2]>> \in DOMAIN M /\ ps = heap[stack[F.at][2]]
  BY <1>4, <1>5
<1>10. /\ \E j \in 0..Len(ps) : Going(M, n, F, ps, j)
       /\ \A i \in 1..Len(ps) :
            /\ ps[i][1] # <<Nil>> /\ \A l \in 1..Len(ps) : ps[i][1] = ps[l][1] => i = l
  BY <1>5, <1>6
<1> QED
  BY <1>1, <1>2, <1>3, <1>8, <1>9, <1>10, Zenon
\* What is gathered does not depend on the state.
LEMMA GatheredKept ==
  ASSUME NEW M, NEW f, NEW g, g.type = f.type, g.items = f.items, NEW ps, NEW j,
         Gathered(M, f, ps, j)
  PROVE  Gathered(M, g, ps, j)'
<1>1. Content(g) = Content(f)
  BY DEF Content
<1>2. Gathered(M, g, ps, j)
  BY <1>1 DEF Gathered
<1>3. Gathered(M, g, ps, j)' <=> Gathered(M, g, ps, j)
  BY Zenon DEF Gathered, Fine, Content, Collected, Ok, Meaning, Element
<1> QED
  BY <1>2, <1>3

\* The loop goes on with the next pair.
LEMMA MeaningNext ==
  ASSUME Shaped, LaidOut, Reading, ~error, NEW M, NEW v, Meaningful(M, v), containers # << >>,
         IsBack, F.stage = "next", NEW n, n = Len(containers), NEW ps, ps = Pairs,
         NEW j \in 0..(Len(ps) - 1), Going(M, n, F, ps, j), UNCHANGED <<heap, error, rest, origin>>,
         NEW s, s = Down(1) \o Pairs[j + 1], stack' = s,
         Stay("value", F), pc' = <<"from", Elem[F.type], Len(stack) + 1>>
  PROVE  Meaningful(M, v)'
<1>1. /\ n \in 1..n /\ F = containers[n] /\ Len(ps) \in Nat /\ IsContainer(F)
      /\ F.at \in 1..(KeyAt(n) - 1) /\ KeyAt(n) \in Nat
      /\ Ok(M, F.type, stack[F.at]) <=> \A i \in 1..Len(ps) : Fine(M, F.type, ps[i])
  BY FramePairs
<1>2. Typed /\ ~Writing /\ "value" \in Stages
  BY MeaningFacts DEF Stages
<1>3. Len(stack) = KeyAt(n)
  BY DEF LaidOut, IsBack
<1>4. PICK g : g = At(F, "value", F.items, F.held)
  OBVIOUS
<1>5. Became(g)
  BY <1>2, <1>4, StaySame
<1>6. g.type = F.type /\ g.at = F.at /\ g.items = F.items /\ g.stage = "value"
  BY <1>4 DEF At
<1>7. j + 1 \in 1..Len(ps) /\ (j + 1) - 1 = j /\ j + 1 \in 0..Len(ps)
  BY <1>1
<1>8. /\ Len(stack') = KeyAt(n) + 1
      /\ \A i \in 1..(KeyAt(n) - 1) : stack'[i] = stack[i]
      /\ stack'[KeyAt(n)] = ps[j + 1][1] /\ stack'[KeyAt(n) + 1] = ps[j + 1][2]
  <2>1. PICK i : i = j + 1
    OBVIOUS
  <2>2. i \in 1..Len(Pairs) /\ s = Down(1) \o Pairs[i]
    BY <1>7, <2>1
  <2>3. /\ Len(s) = Len(stack) + 1
        /\ \A k \in 1..(Len(stack) - 1) : s[k] = stack[k]
        /\ s[Len(stack)] = Pairs[i][1] /\ s[Len(stack) + 1] = Pairs[i][2]
    BY <1>2, <2>2, NextPushed
  <2> QED
    BY <1>3, <2>1, <2>3
<1>9. Gathered(M, g, ps, j)'
  <2>1. Gathered(M, F, ps, j)
    BY DEF Going
  <2>2. PICK f : f = F
    OBVIOUS
  <2> QED
    BY <1>6, <2>1, <2>2, GatheredKept
<1>10. Child(M, n, Elem[g.type], ps[j + 1][2])'
  <2>1. ~(n < Len(containers'))
    BY <1>1, <1>5 DEF Became
  <2>2. pc'[1] = "from" /\ pc'[2] = Elem[g.type] /\ pc'[3] = KeyAt(n) + 1
    BY <1>3, <1>6
  <2> QED
    BY <1>8, <2>1, <2>2 DEF Child
<1>11. KeyAt(n)' = KeyAt(n)
  BY DEF KeyAt
<1>12. Going(M, n, g, ps, j + 1)'
  <2>1. stack'[KeyAt(n)'] = IF j + 1 = 0 THEN <<Nil>> ELSE ps[j + 1][1]
    <3>1. j + 1 # 0
      BY <1>1
    <3> QED
      BY <1>8, <1>11, <3>1
  <2>2. g.stage # "next" /\ g.stage # "key" /\ j + 1 > 0
    BY <1>6
  <2> QED
    BY <1>7, <1>9, <1>10, <2>1, <2>2 DEF Going
<1>13. Ok(M, F.type, stack[F.at]) => Ok(M, pc'[2], stack'[pc'[3]])
  <2>1. pc'[2] = Elem[F.type] /\ stack'[pc'[3]] = ps[j + 1][2]
    BY <1>3, <1>8
  <2>2. Fine(M, F.type, ps[j + 1]) => Ok(M, Elem[F.type], ps[j + 1][2])
    BY DEF Fine
  <2> QED
    BY <1>1, <1>7, <2>1, <2>2
<1> QED
  BY <1>5, <1>6, <1>7, <1>8, <1>12, <1>13, MeaningBecame

\* The loop is over: the container has what its whole table means.
LEMMA MeaningClosed ==
  ASSUME Shaped, LaidOut, Reading, ~error, NEW M, NEW v, Meaningful(M, v), containers # << >>,
         IsBack, F.stage = "next", NEW n, n = Len(containers), NEW ps, ps = Pairs,
         Going(M, n, F, ps, Len(ps)), FromClose(Down(1))
  PROVE  Meaningful(M, v)'
<1>1. /\ n \in 1..n /\ F = containers[n] /\ IsContainer(F)
      /\ F.at \in 1..(KeyAt(n) - 1) /\ KeyAt(n) \in Nat
      /\ Ok(M, F.type, stack[F.at]) <=> \A i \in 1..Len(ps) : Fine(M, F.type, ps[i])
      /\ Ok(M, F.type, stack[F.at]) =>
           Meaning(M, F.type, stack[F.at]) = <<Kind[F.type], Collected(M, F.type, ps, Len(ps))>>
  BY FramePairs
<1>2. /\ Typed /\ IsSeq(stack) /\ IsSeq(containers) /\ ~Writing /\ Len(stack) \in Nat
      /\ Len(rest) \in Nat /\ Consistent(M) /\ Child(M, 0, origin.type, v)
      /\ \A k \in 1..n :
           /\ k \in Nat \ {0} /\ Framed(M, k) /\ Keyed(k)
           /\ KeyAt(k) \in Nat /\ KeyAt(k) <= KeyAt(n)
           /\ containers[k].at \in 1..(KeyAt(k) - 1)
  BY MeaningFacts
<1>3. PICK t, w, m, c, s : /\ t = F.type /\ w = stack[F.at] /\ m = Len(stack) /\ c = Content(F)
                           /\ s = Down(1)
  OBVIOUS
<1>4. /\ pc'[1] = "back" /\ pc'[2] = c /\ containers' = Outer
      /\ UNCHANGED <<heap, error, rest, origin>>
  BY <1>3 DEF FromClose, Back
<1>5. m = KeyAt(n) /\ m = Len(rest) + 2 * n
  BY <1>3 DEF LaidOut, IsBack, KeyAt
<1>6. Ok(M, t, w) /\ c = Meaning(M, t, w)
  <2>1. Gathered(M, F, ps, Len(ps))
    BY DEF Going
  <2>2. \A i \in 1..Len(ps) : Fine(M, F.type, ps[i])
    BY <2>1 DEF Gathered
  <2>3. Content(F)[2] = Collected(M, F.type, ps, Len(ps))
    BY <2>1 DEF Gathered
  <2>4. Content(F) = <<Kind[F.type], Content(F)[2]>>
    BY DEF Content
  <2> QED
    BY <1>1, <1>3, <2>2, <2>3, <2>4
<1>7. /\ Len(containers') = n - 1
      /\ \A k \in 1..(n - 1) : containers'[k] = containers[k]
  BY <1>2, <1>4, ClosedLemma DEF Closed
<1>8. n > 1 => \A i \in 1..(m - 2) : stack'[i] = stack[i]
  <2> SUFFICES ASSUME n > 1 PROVE \A i \in 1..(m - 2) : stack'[i] = stack[i]
    OBVIOUS
  <2>1. m \in Nat \ {0} /\ \A i \in 1..m : LuaValueOf(stack[i], Len(heap))
    BY <1>1, <1>2, <1>3, <1>5 DEF Typed, LuaValue
  <2>2. /\ IsSeq(s) /\ Len(s) = m - 1
        /\ \A j \in 1..(m - 1) : s[j] = stack[j]
    BY <1>2, <1>3, <2>1, DownSeq
  <2>3. \A j \in 1..Len(s) : LuaValueOf(s[j], Len(heap))
    BY <2>1, <2>2
  <2>4. FromClose(s) /\ Len(stack) - 1 <= Len(s) /\ \A j \in 1..(Len(stack) - 1) : s[j] = stack[j]
    BY <1>3, <2>1, <2>2
  <2>5. \A j \in 1..(F.at - 1) : stack'[j] = s[j]
    BY <1>2, <2>2, <2>3, <2>4, ReadClosed
  <2>6. F.at = m - 1
    <3>1. Keyed(n) /\ n # 1
      BY <1>1, <1>2
    <3> QED
      BY <1>1, <1>5, <3>1 DEF Keyed
  <2>7. F.at - 1 = m - 2 /\ \A j \in 1..(m - 2) : j \in 1..(m - 1)
    BY <2>1, <2>6
  <2> QED
    BY <2>2, <2>5, <2>7
<1>9. \A k \in 1..(n - 1) : /\ k \in 1..n /\ n > 1 /\ KeyAt(k) \in 1..(m - 2)
                            /\ containers[k].at \in 1..(m - 2)
                            /\ containers[k].at \in 1..KeyAt(k)
  <2> TAKE k \in 1..(n - 1)
  <2>1. k \in 1..n /\ n > 1 /\ k \in Nat \ {0} /\ n \in Nat /\ k <= n - 1
    BY <1>1
  <2>2. KeyAt(k) = Len(rest) + 2 * k
    BY DEF KeyAt
  <2>3. PICK a, b : a = containers[k].at /\ b = Len(rest)
    OBVIOUS
  <2>4. KeyAt(k) \in Nat /\ a \in 1..(KeyAt(k) - 1) /\ b \in Nat
    BY <1>2, <2>1, <2>3
  <2>5. KeyAt(k) \in 1..(m - 2)
    BY <1>5, <2>1, <2>2, <2>3, <2>4
  <2>6. a \in 1..KeyAt(k) /\ a \in 1..(m - 2)
    <3>1. PICK p, q : p = KeyAt(k) /\ q = m - 2
      OBVIOUS
    <3>2. p \in Nat /\ p \in 1..q /\ a \in 1..(p - 1) /\ q \in Int
      BY <1>2, <1>3, <2>4, <2>5, <3>1
    <3>3. a \in 1..p /\ a \in 1..q
      BY <3>2
    <3> QED
      BY <3>1, <3>3
  <2> QED
    BY <2>1, <2>3, <2>5, <2>6
<1>10. ASSUME NEW k \in 0..(n - 1)
       PROVE  \A z, x : Child(M, k, z, x) => Child(M, k, z, x)'
  <2>1. CASE k < n - 1
    <3>1. k + 1 \in 1..(n - 1) /\ k < Len(containers)
      BY <1>1, <2>1
    <3>2. k < Len(containers)'
      BY <1>7, <2>1
    <3>3. containers[k + 1].at \in 1..(m - 2) /\ n > 1 /\ containers'[k + 1] = containers[k + 1]
      BY <1>7, <1>9, <3>1
    <3>4. stack'[containers[k + 1].at] = stack[containers[k + 1].at]
      BY <1>8, <3>3
    <3>5. /\ containers'[k + 1].type = containers[k + 1].type
          /\ containers'[k + 1].at = containers[k + 1].at
      BY <3>3
    <3> QED
      BY <3>1, <3>2, <3>4, <3>5, ChildKept
  <2>2. CASE k = n - 1
    <3> TAKE z, x
    <3> SUFFICES ASSUME Child(M, k, z, x) PROVE Child(M, k, z, x)'
      OBVIOUS
    <3>1. k < Len(containers) /\ k + 1 = n
      BY <1>1, <2>2
    <3>2. z = t /\ x = w
      BY <1>1, <1>3, <3>1 DEF Child
    <3>3. ~(k < Len(containers'))
      BY <1>1, <1>7, <2>2
    <3>4. Ok(M, z, x)' /\ pc'[2] = Meaning(M, z, x)'
      BY <1>4, <1>6, <3>2 DEF Ok, Meaning
    <3> QED
      BY <1>4, <3>3, <3>4 DEF Child
  <2> QED
    BY <1>1, <2>1, <2>2
<1>11. Child(M, 0, origin.type, v)'
  <2>1. 0 \in 0..(n - 1)
    BY <1>1
  <2>2. PICK z : z = origin.type /\ z = origin'.type
    BY <1>4
  <2>3. Child(M, 0, z, v)'
    BY <1>2, <1>10, <2>1, <2>2
  <2> QED
    BY <2>2, <2>3 DEF Child
<1>12. ASSUME NEW k \in 1..(n - 1) PROVE Framed(M, k)'
  <2>1. k \in 0..(n - 1) /\ k \in 1..n /\ k # n /\ n > 1
    BY <1>1
  <2>2. containers[k].stage # "next"
    BY <1>2, <2>1 DEF Framed, Going
  <2>3. \A i \in 1..KeyAt(k) : stack'[i] = stack[i]
    <3>1. \A i \in 1..KeyAt(k) : i \in 1..(m - 2)
      BY <1>2, <1>3, <1>9
    <3> QED
      BY <1>8, <2>1, <3>1
  <2>4. \A z, x : Child(M, k, z, x) => Child(M, k, z, x)'
    BY <1>10, <2>1
  <2>5. /\ k \in Nat \ {0} /\ Framed(M, k) /\ containers'[k] = containers[k]
        /\ containers[k].at \in 1..KeyAt(k)
    BY <1>2, <1>7, <1>9, <2>1
  <2> QED
    BY <1>2, <1>4, <2>2, <2>3, <2>4, <2>5, FramedKept
<1>13. \A k \in 1..Len(containers') : Framed(M, k)'
  BY <1>7, <1>12
<1>14. Ok(M, origin'.type, v) =>
         \A k \in 1..Len(containers') : Ok(M, containers'[k].type, stack'[containers'[k].at])
  <2> SUFFICES ASSUME Ok(M, origin.type, v), NEW k \in 1..(n - 1)
               PROVE  Ok(M, containers'[k].type, stack'[containers'[k].at])
    BY <1>4, <1>7
  <2>1. \A l \in 1..n : Ok(M, containers[l].type, stack[containers[l].at])
    BY DEF Meaningful
  <2>2. containers'[k] = containers[k] /\ stack'[containers[k].at] = stack[containers[k].at]
    BY <1>7, <1>8, <1>9
  <2> QED
    BY <1>9, <2>1, <2>2
<1>15. Consistent(M)' /\ Has(M, origin'.type, v)
  BY <1>2, <1>4, ConsistentKept DEF Meaningful
<1> QED
  BY <1>4, <1>11, <1>13, <1>14, <1>15 DEF Meaningful, Ok, Has

LEMMA FromNextMeans ==
  ASSUME Shaped, LaidOut, Reading, NEW M, NEW v, Meaningful(M, v), FromNext
  PROVE  Meaningful(M, v)'
<1>1. /\ IsBack /\ containers # << >> /\ F.stage = "next" /\ UNCHANGED <<heap, error, rest, origin>>
  BY DEF FromNext, FromFrame, FromClose
<1>2. CASE error
  BY <1>1, <1>2, MeaningRefused
<1>3. CASE ~error
  <2>1. PICK n, ps : n = Len(containers) /\ ps = Pairs
    OBVIOUS
  <2>2. /\ \E j \in 0..Len(ps) : Going(M, n, F, ps, j)
        /\ Len(ps) \in Nat
        /\ \A i \in 1..Len(ps) :
             /\ ps[i][1] # <<Nil>> /\ \A l \in 1..Len(ps) : ps[i][1] = ps[l][1] => i = l
    BY <1>1, <1>3, <2>1, FramePairs
  <2>3. PICK j \in 0..Len(ps) : Going(M, n, F, ps, j)
    BY <2>2
  <2>4. Last(stack) = IF j = 0 THEN <<Nil>> ELSE ps[j][1]
    <3>1. Len(stack) = KeyAt(n)
      BY <1>1, <1>3, <2>1 DEF LaidOut, IsBack
    <3>2. stack[KeyAt(n)] = IF j = 0 THEN <<Nil>> ELSE ps[j][1]
      BY <2>3 DEF Going
    <3> QED
      BY <3>1, <3>2 DEF Last
  <2>5. After(Last(stack)) = j + 1
    <3>1. PICK k : k = Last(stack)
      OBVIOUS
    <3> QED
      BY <2>1, <2>2, <2>4, <3>1, AfterKey
  <2>6. CASE j = Len(ps)
    <3>1. j + 1 > Len(Pairs)
      BY <2>1, <2>2, <2>6
    <3>2. FromClose(Down(1))
      BY <2>5, <3>1 DEF FromNext
    <3> QED
      BY <1>1, <1>3, <2>1, <2>3, <2>6, <3>2, MeaningClosed
  <2>7. CASE j # Len(ps)
    <3>1. j \in 0..(Len(ps) - 1) /\ ~(j + 1 > Len(Pairs))
      BY <2>1, <2>2, <2>7
    <3>2. /\ stack' = Down(1) \o Pairs[j + 1] /\ Stay("value", F)
          /\ pc' = <<"from", Elem[F.type], Len(stack) + 1>>
      BY <1>3, <2>5, <3>1 DEF FromNext
    <3>3. PICK s : s = Down(1) \o Pairs[j + 1] /\ stack' = s
      BY <3>2
    <3> QED
      BY <1>1, <1>3, <2>1, <2>3, <3>1, <3>2, <3>3, MeaningNext
  <2> QED
    BY <2>6, <2>7
<1> QED
  BY <1>2, <1>3

\* The element of the j-th pair is inserted.
LEMMA MeaningInserted ==
  ASSUME Shaped, LaidOut, Reading, ~error, NEW M, NEW v, Meaningful(M, v), containers # << >>,
         IsBack, NEW n, n = Len(containers), NEW ps, ps = Pairs,
         NEW j \in 1..Len(ps), Going(M, n, F, ps, j), F.stage # "next",
         NEW x, x = Element(M, F.type, ps[j]), Fine(M, F.type, ps[j]),
         Stay("next", Inserted(F, x)), UNCHANGED <<pc, stack, heap, error, rest, origin>>
  PROVE  Meaningful(M, v)'
<1>1. /\ n \in 1..n /\ IsContainer(F) /\ Len(ps) \in Nat /\ F.at \in 1..(KeyAt(n) - 1)
  BY FramePairs
<1>2. Typed /\ "next" \in Stages
  BY MeaningFacts DEF Stages
<1>3. PICK f, g : f = F /\ g = At(F, "next", More(F, x), F.held)
  OBVIOUS
<1>4. Became(g)
  BY <1>2, <1>3, StayInserted
<1>5. g.type = f.type /\ g.at = f.at /\ g.items = More(f, x) /\ g.stage = "next"
  BY <1>3 DEF At
<1>6. j \in Nat \ {0} /\ j \in 0..Len(ps)
  BY <1>1
<1>7. Gathered(M, g, ps, j)
  <2>1. Gathered(M, f, ps, j - 1)
    BY <1>3 DEF Going
  <2>2. IsContainer(f) /\ Fine(M, f.type, ps[j]) /\ g.items = More(f, Element(M, f.type, ps[j]))
    BY <1>1, <1>3, <1>5
  <2> QED
    BY <1>5, <1>6, <2>1, <2>2, GatheredMore
<1>8. Gathered(M, g, ps, j)'
  BY <1>7, GatheredKept
<1>9. Going(M, n, g, ps, j)'
  <2>1. n = Len(containers') /\ pc'[1] = "back"
    BY <1>4 DEF Became, IsBack
  <2>2. stack'[KeyAt(n)'] = IF j = 0 THEN <<Nil>> ELSE ps[j][1]
    BY DEF Going, KeyAt
  <2> QED
    BY <1>5, <1>8, <2>1, <2>2 DEF Going
<1>10. /\ \A i \in 1..(KeyAt(n) - 1) : stack'[i] = stack[i]
       /\ g.type = F.type /\ g.at = F.at /\ pc'[1] # "from" /\ ~error'
  BY <1>3, <1>5 DEF IsBack
<1> QED
  BY <1>4, <1>6, <1>9, <1>10, MeaningBecame

\* What a container that is read is given.
LEMMA GivenBack ==
  ASSUME Shaped, LaidOut, Reading, ~error, NEW M, NEW v, Meaningful(M, v), containers # << >>,
         IsBack, F.stage # "next", NEW n, n = Len(containers), NEW ps, ps = Pairs
  PROVE  \E j \in 1..Len(ps) :
           /\ Going(M, n, F, ps, j)
           /\ F.stage = "value" => /\ Ok(M, Elem[F.type], ps[j][2])
                                   /\ pc[2] = Meaning(M, Elem[F.type], ps[j][2])
           /\ F.stage = "key" => /\ Kind[F.type] = "map"
                                 /\ Ok(M, Elem[F.type], ps[j][2])
                                 /\ F.held = Meaning(M, Elem[F.type], ps[j][2])
                                 /\ Ok(M, Key[F.type], ps[j][1])
                                 /\ pc[2] = Meaning(M, Key[F.type], ps[j][1])
<1>1. /\ n \in 1..n /\ \E j \in 0..Len(ps) : Going(M, n, F, ps, j)
      /\ Len(ps) \in Nat
  BY FramePairs
<1>2. PICK j \in 0..Len(ps) : Going(M, n, F, ps, j)
  BY <1>1
<1>3. j \in 1..Len(ps)
  <2>1. j > 0
    BY <1>2 DEF Going
  <2> QED
    BY <1>1, <2>1
<1>4. ~(n < Len(containers)) /\ pc[1] = "back"
  BY <1>1 DEF IsBack
<1>5. \A t, w : Child(M, n, t, w) => Ok(M, t, w) /\ pc[2] = Meaning(M, t, w)
  BY <1>4 DEF Child
<1>6. /\ F.stage = "value" => Child(M, n, Elem[F.type], ps[j][2])
      /\ F.stage = "key" => /\ Kind[F.type] = "map" /\ Ok(M, Elem[F.type], ps[j][2])
                            /\ F.held = Meaning(M, Elem[F.type], ps[j][2])
                            /\ Child(M, n, Key[F.type], ps[j][1])
  BY <1>2 DEF Going
<1> QED
  BY <1>2, <1>3, <1>5, <1>6

LEMMA FromElementMeans ==
  ASSUME Shaped, LaidOut, Reading, NEW M, NEW v, Meaningful(M, v), FromElement
  PROVE  Meaningful(M, v)'
<1>1. /\ IsBack /\ containers # << >> /\ F.stage = "value" /\ Kind[F.type] # "map"
      /\ UNCHANGED <<pc, stack, heap, error, rest, origin>>
  BY DEF FromElement, FromFrame
<1>2. CASE error
  BY <1>1, <1>2, MeaningRefused
<1>3. CASE ~error
  <2>1. PICK n, ps, x : n = Len(containers) /\ ps = Pairs /\ x = pc[2]
    OBVIOUS
  <2>2. PICK j \in 1..Len(ps) :
           /\ Going(M, n, F, ps, j)
           /\ Ok(M, Elem[F.type], ps[j][2]) /\ x = Meaning(M, Elem[F.type], ps[j][2])
    BY <1>1, <1>3, <2>1, GivenBack
  <2>3. Fine(M, F.type, ps[j]) /\ x = Element(M, F.type, ps[j])
    BY <1>1, <2>2 DEF Fine, Element
  <2>4. Stay("next", Inserted(F, x)) /\ F.stage # "next"
    BY <1>1, <1>3, <2>1 DEF FromElement
  <2> QED
    BY <1>1, <1>3, <2>1, <2>2, <2>3, <2>4, MeaningInserted
<1> QED
  BY <1>2, <1>3

LEMMA FromPairMeans ==
  ASSUME Shaped, LaidOut, Reading, NEW M, NEW v, Meaningful(M, v), FromPair
  PROVE  Meaningful(M, v)'
<1>1. /\ IsBack /\ containers # << >> /\ F.stage = "key"
      /\ UNCHANGED <<pc, stack, heap, error, rest, origin>>
  BY DEF FromPair, FromFrame
<1>2. CASE error
  BY <1>1, <1>2, MeaningRefused
<1>3. CASE ~error
  <2>1. PICK n, ps, x : n = Len(containers) /\ ps = Pairs /\ x = <<pc[2], F.held>>
    OBVIOUS
  <2>2. PICK j \in 1..Len(ps) :
           /\ Going(M, n, F, ps, j)
           /\ Kind[F.type] = "map"
           /\ Ok(M, Elem[F.type], ps[j][2]) /\ F.held = Meaning(M, Elem[F.type], ps[j][2])
           /\ Ok(M, Key[F.type], ps[j][1]) /\ pc[2] = Meaning(M, Key[F.type], ps[j][1])
    BY <1>1, <1>3, <2>1, GivenBack
  <2>3. Fine(M, F.type, ps[j]) /\ x = Element(M, F.type, ps[j])
    BY <2>1, <2>2 DEF Fine, Element
  <2>4. Stay("next", Inserted(F, x)) /\ F.stage # "next"
    BY <1>1, <1>3, <2>1 DEF FromPair
  <2> QED
    BY <1>1, <1>3, <2>1, <2>2, <2>3, <2>4, MeaningInserted
<1> QED
  BY <1>2, <1>3

LEMMA FromKeyMeans ==
  ASSUME Shaped, LaidOut, Reading, NEW M, NEW v, Meaningful(M, v), FromKey
  PROVE  Meaningful(M, v)'
<1>1. /\ IsBack /\ containers # << >> /\ F.stage = "value" /\ Kind[F.type] = "map"
      /\ UNCHANGED <<heap, error, rest, origin>>
  BY DEF FromKey, FromFrame
<1>2. CASE error
  BY <1>1, <1>2, MeaningRefused
<1>3. CASE ~error
  <2>1. PICK n, ps, x, m : n = Len(containers) /\ ps = Pairs /\ x = pc[2] /\ m = Len(stack)
    OBVIOUS
  <2>2. PICK j \in 1..Len(ps) :
           /\ Going(M, n, F, ps, j)
           /\ Ok(M, Elem[F.type], ps[j][2]) /\ x = Meaning(M, Elem[F.type], ps[j][2])
    BY <1>1, <1>3, <2>1, GivenBack
  <2>3. /\ n \in 1..n /\ F = containers[n] /\ Len(ps) \in Nat /\ IsContainer(F)
        /\ F.at \in 1..(KeyAt(n) - 1) /\ KeyAt(n) \in Nat
        /\ Ok(M, F.type, stack[F.at]) <=> \A i \in 1..Len(ps) : Fine(M, F.type, ps[i])
    BY <1>1, <1>3, <2>1, FramePairs
  <2>4. Typed /\ IsSeq(stack) /\ m \in Nat /\ "key" \in Stages
    BY <1>3, <2>1, MeaningFacts DEF Stages
  <2>5. PICK g, f : g = At(F, "key", F.items, x) /\ f = F
    OBVIOUS
  <2>6. PICK l, y : l = Last(stack) /\ y = Held(F, x)
    OBVIOUS
  <2>7. /\ Stay("key", y) /\ stack' = Append(stack, l) /\ pc' = <<"from", Key[F.type], Len(stack')>>
    BY <1>3, <2>1, <2>6 DEF FromKey, KeyCopied, Held
  <2>8. Became(g)
    BY <1>1, <2>4, <2>5, <2>6, <2>7, StayHeld
  <2>9. /\ g.type = F.type /\ g.at = F.at /\ g.stage = "key" /\ g.held = x
        /\ g.type = f.type /\ g.items = f.items
    BY <2>5 DEF At
  <2>10. m = KeyAt(n) /\ l = ps[j][1] /\ stack[m] = ps[j][1]
    <3>1. m = KeyAt(n)
      BY <1>1, <1>3, <2>1 DEF LaidOut, IsBack
    <3>2. stack[KeyAt(n)] = IF j = 0 THEN <<Nil>> ELSE ps[j][1]
      BY <2>2 DEF Going
    <3> QED
      BY <2>1, <2>6, <3>1, <3>2 DEF Last
  <2>11. /\ Len(stack') = m + 1 /\ stack'[m + 1] = l
         /\ \A i \in 1..m : stack'[i] = stack[i]
    BY <2>1, <2>4, <2>7, AppendSeq
  <2>12. Gathered(M, g, ps, j - 1)'
    <3>1. Gathered(M, f, ps, j - 1)
      BY <1>1, <2>2, <2>5 DEF Going
    <3> QED
      BY <2>9, <3>1, GatheredKept
  <2>13. Child(M, n, Key[g.type], ps[j][1])'
    <3>1. ~(n < Len(containers'))
      BY <2>1, <2>3, <2>8 DEF Became
    <3>2. pc'[1] = "from" /\ pc'[2] = Key[g.type] /\ stack'[pc'[3]] = ps[j][1]
      BY <2>7, <2>9, <2>10, <2>11
    <3> QED
      BY <3>1, <3>2 DEF Child
  <2>14. Going(M, n, g, ps, j)'
    <3>1. stack'[KeyAt(n)'] = IF j = 0 THEN <<Nil>> ELSE ps[j][1]
      <4>1. KeyAt(n)' = m /\ m \in 1..m /\ j # 0
        BY <1>1, <2>3, <2>10 DEF KeyAt
      <4> QED
        BY <2>10, <2>11, <4>1
    <3>2. g.stage = "key" /\ j > 0 /\ g.held = Meaning(M, Elem[g.type], ps[j][2])
          /\ Ok(M, Elem[g.type], ps[j][2]) /\ Kind[g.type] = "map"
      BY <1>1, <2>2, <2>9
    <3>3. Ok(M, Elem[g.type], ps[j][2])' /\ g.held = Meaning(M, Elem[g.type], ps[j][2])'
      BY <3>2 DEF Ok, Meaning
    <3> QED
      BY <2>12, <2>13, <3>1, <3>2, <3>3 DEF Going
  <2>15. Ok(M, F.type, stack[F.at]) => Ok(M, pc'[2], stack'[pc'[3]])
    <3>1. pc'[2] = Key[F.type] /\ stack'[pc'[3]] = ps[j][1]
      BY <2>7, <2>10, <2>11
    <3>2. Fine(M, F.type, ps[j]) => Ok(M, Key[F.type], ps[j][1])
      BY <1>1 DEF Fine
    <3> QED
      BY <2>3, <3>1, <3>2
  <2>16. j \in 0..Len(ps) /\ \A i \in 1..(KeyAt(n) - 1) : stack'[i] = stack[i]
    BY <2>3, <2>10, <2>11
  <2>17. ~error' /\ g.type = F.type /\ g.at = F.at
    BY <1>1, <1>3, <2>9
  <2> QED
    BY <1>1, <1>3, <2>1, <2>8, <2>14, <2>15, <2>16, <2>17, MeaningBecame
<1> QED
  BY <1>2, <1>3

LEMMA FinishMeans ==
  ASSUME Shaped, LaidOut, Reading, NEW M, NEW v, Meaningful(M, v), Finish
  PROVE  Meaningful(M, v)'
<1>1. /\ IsBack /\ containers = << >> /\ pc' = <<"end", pc[2]>>
      /\ UNCHANGED <<containers, stack, heap, error, rest, origin>>
  BY DEF Finish
<1>2. CASE error
  BY <1>1, <1>2, MeaningRefused
<1>3. CASE ~error
  <2>1. Len(containers) = 0 /\ Len(containers') = 0 /\ pc[1] = "back"
    BY <1>1, EmptyIs DEF IsBack
  <2>2. PICK t : t = origin.type /\ t = origin'.type
    BY <1>1
  <2>3. Ok(M, t, v) /\ pc[2] = Meaning(M, t, v)
    BY <1>3, <2>1, <2>2 DEF Meaningful, Child
  <2>4. pc'[1] = "end" /\ pc'[2] = pc[2]
    BY <1>1
  <2>5. Child(M, 0, origin.type, v)'
    BY <2>1, <2>2, <2>3, <2>4 DEF Child, Ok, Meaning
  <2>6. Consistent(M)' /\ Has(M, t, v)
    BY <1>1, <2>2, ConsistentKept DEF Meaningful
  <2>7. \A k \in 1..Len(containers') : FALSE
    BY <2>1
  <2> QED
    BY <1>1, <1>3, <2>2, <2>4, <2>5, <2>6, <2>7 DEF Meaningful, Has
<1> QED
  BY <1>2, <1>3

LEMMA MeaningStep ==
  ASSUME Shaped, LaidOut, Reading, NEW M, NEW v, Meaningful(M, v), [ConvertNext]_convertVars
  PROVE  Meaningful(M, v)'
<1>1. CASE UNCHANGED convertVars
  <2>1. /\ pc' = pc /\ containers' = containers /\ stack' = stack /\ heap' = heap
        /\ error' = error /\ rest' = rest /\ origin' = origin
    BY <1>1 DEF convertVars
  <2>2. \A k, t, w : Child(M, k, t, w)' <=> Child(M, k, t, w)
    BY <2>1 DEF Child, Ok, Meaning
  <2>3. \A f, ps, j : Gathered(M, f, ps, j)' <=> Gathered(M, f, ps, j)
    <3> TAKE f, ps, j
    <3> QED
      BY Zenon DEF Gathered, Fine, Content, Collected, Ok, Meaning, Element
  <2>4. \A k : KeyAt(k)' = KeyAt(k)
    BY <2>1 DEF KeyAt
  <2>5. \A k, f, ps, j : Going(M, k, f, ps, j)' <=> Going(M, k, f, ps, j)
    BY <2>1, <2>2, <2>3, <2>4 DEF Going, Ok, Meaning
  <2>6. \A k : Framed(M, k)' <=> Framed(M, k)
    BY <2>1, <2>5 DEF Framed, Table
  <2>7. Consistent(M)' <=> Consistent(M)
    BY <2>1 DEF Consistent
  <2>8. PICK t : t = origin.type /\ t = origin'.type
    BY <2>1
  <2>9. /\ Child(M, 0, origin.type, v)' <=> Child(M, 0, t, v)'
        /\ Child(M, 0, origin.type, v) <=> Child(M, 0, t, v)
    BY <2>8 DEF Child
  <2> QED
    BY <2>1, <2>2, <2>6, <2>7, <2>8, <2>9 DEF Meaningful, Ok, Has
<1>2. ~Writing
  BY DEF Reading
<1>3. CASE ToBasic \/ ToEnum \/ ToUnknown \/ ToOpen
  <2>1. pc[1] = "to"
    BY <1>3 DEF ToBasic, ToEnum, ToUnknown, ToOpen
  <2> QED
    BY <1>2, <2>1 DEF Shaped, Directed
<1>4. CASE ToNext \/ ToValue \/ ToSettled \/ ToClose
  <2>1. containers # << >> /\ F.to
    BY <1>4 DEF ToNext, ToValue, ToSettled, ToClose, ToFrame
  <2> QED
    BY <1>2, <2>1, ToOrFrom
<1>5. CASE FromBasic
  BY <1>5, FromBasicMeans
<1>6. CASE FromEnum
  BY <1>6, FromEnumMeans
<1>7. CASE FromOpen
  BY <1>7, FromOpenMeans
<1>8. CASE FromNext
  BY <1>8, FromNextMeans
<1>9. CASE FromRaise
  <2>1. error /\ error' /\ UNCHANGED <<heap, origin>>
    BY <1>9, FromRaiseLaid DEF FromRaise
  <2> QED
    BY <2>1, MeaningRefused
<1>10. CASE FromElement
  BY <1>10, FromElementMeans
<1>11. CASE FromKey
  BY <1>11, FromKeyMeans
<1>12. CASE FromPair
  BY <1>12, FromPairMeans
<1>13. CASE Finish
  BY <1>13, FinishMeans
<1>14. ASSUME NEW above \in {<< >>, << <<"integer", 0>> >>}, ReadBack(above)
       PROVE  FALSE
  BY <1>2, <1>14 DEF ReadBack, Writing
<1> QED
  BY <1>1, <1>3, <1>4, <1>5, <1>6, <1>7, <1>8, <1>9, <1>10, <1>11, <1>12, <1>13, <1>14
     DEF ConvertNext, Step

------------------------------------------------------------------------------
(***************************************************************************)
(* A table of Lua is read whole: the meaning of a container whose elements *)
(* and keys are no containers is the one that ReadExact states.            *)
(***************************************************************************)

\* A conversion ends with the value alone.
EndNamed == pc[1] = "end" => pc = <<"end", pc[2]>>

LEMMA EndNamedAlways == ConvertSpec => []EndNamed
<1>1. ConvertInit => EndNamed
  BY DEF ConvertInit, EndNamed
<1>2. ASSUME EndNamed, [ConvertNext]_convertVars
      PROVE  EndNamed'
  <2>1. CASE UNCHANGED pc
    BY <1>2, <2>1 DEF EndNamed
  <2>2. CASE Finish
    BY <2>2 DEF EndNamed, Finish
  <2>3. ASSUME pc'[1] # "end" PROVE EndNamed'
    BY <2>3 DEF EndNamed
  <2>4. CASE ToBasic \/ ToEnum \/ ToUnknown \/ ToOpen \/ ToNext \/ ToValue \/ ToSettled \/ ToClose
    <3>1. pc'[1] \in {"to", "back"}
      BY <2>4 DEF ToBasic, ToEnum, ToUnknown, ToOpen, ToNext, ToValue, ToSettled, ToClose, Back
    <3> QED
      BY <2>3, <3>1
  <2>5. CASE FromBasic \/ FromEnum \/ FromOpen \/ FromRaise
    <3>1. pc'[1] \in {"back", "raised"}
      BY <2>5 DEF FromBasic, FromEnum, FromOpen, FromRaise, Back
    <3> QED
      BY <2>3, <3>1
  <2>6. CASE FromNext
    <3>1. pc'[1] \in {"back", "from"}
      BY <2>6 DEF FromNext, FromClose, Back
    <3> QED
      BY <2>3, <3>1
  <2>7. CASE FromElement \/ FromPair
    BY <2>1, <2>7 DEF FromElement, FromPair
  <2>8. CASE FromKey
    <3>1. UNCHANGED pc \/ pc'[1] = "from"
      BY <2>8 DEF FromKey
    <3> QED
      BY <2>1, <2>3, <3>1
  <2>9. ASSUME NEW above \in {<< >>, << <<"integer", 0>> >>}, ReadBack(above)
        PROVE  EndNamed'
    BY <2>3, <2>9 DEF ReadBack
  <2> QED
    BY <1>2, <2>1, <2>2, <2>4, <2>5, <2>6, <2>7, <2>8, <2>9 DEF ConvertNext, Step, convertVars
<1> QED
  BY <1>1, <1>2, PTL DEF ConvertSpec

\* What a flat container means does not depend on other tables.
LEMMA FlatMeaning ==
  ASSUME NEW t, Flat(t), NEW M, NEW ps, Len(ps) \in Nat
  PROVE  /\ (\A i \in 1..Len(ps) : Fine(M, t, ps[i])) <=> Convertible(t, ps)
         /\ Collected(M, t, ps, Len(ps)) = Meant(t, ps)
<1>1. Container(t) /\ ~Container(Elem[t]) /\ (Kind[t] = "map" => ~Container(Key[t]))
  BY DEF Flat
<1>2. \A p : Fine(M, t, p) <=> Readable(Elem[t], p[2]) /\ (Kind[t] = "map" => Readable(Key[t], p[1]))
  BY <1>1 DEF Fine, Ok
<1>3. \A p : Element(M, t, p) = IF Kind[t] = "map" THEN <<Read(Key[t], p[1]), Read(Elem[t], p[2])>>
                                                   ELSE Read(Elem[t], p[2])
  BY <1>1 DEF Element, Meaning
<1>4. (\A i \in 1..Len(ps) : Fine(M, t, ps[i])) <=> Convertible(t, ps)
  BY <1>2 DEF Convertible
<1>5. CASE Kind[t] = "map"
  <2> DEFINE A == {j \in 1..Len(ps) : \A k \in 1..(j - 1) :
                     Read(Key[t], ps[k][1]) # Read(Key[t], ps[j][1])}
             B == {m \in 1..Len(ps) : \A k \in 1..(m - 1) :
                     Element(M, t, ps[k])[1] # Element(M, t, ps[m])[1]}
  <2>1. \A p : /\ Element(M, t, p) = <<Read(Key[t], p[1]), Read(Elem[t], p[2])>>
               /\ Element(M, t, p)[1] = Read(Key[t], p[1])
    BY <1>3, <1>5
  <2>2. A = B
    BY <2>1
  <2>3. Meant(t, ps) = {<<Read(Key[t], ps[i][1]), Read(Elem[t], ps[i][2])>> : i \in A}
    BY <1>5 DEF Meant
  <2>4. Collected(M, t, ps, Len(ps)) = {Element(M, t, ps[i]) : i \in B}
    BY <1>5 DEF Collected
  <2> HIDE DEF A, B
  <2>5. \A i : Element(M, t, ps[i]) = <<Read(Key[t], ps[i][1]), Read(Elem[t], ps[i][2])>>
    BY <2>1
  <2>6. {Element(M, t, ps[i]) : i \in B}
          = {<<Read(Key[t], ps[i][1]), Read(Elem[t], ps[i][2])>> : i \in B}
    BY ONLY <2>5
  <2>7. Collected(M, t, ps, Len(ps)) = Meant(t, ps)
    BY ONLY <2>2, <2>3, <2>4, <2>6
  <2> QED
    BY <1>4, <2>7
<1>6. CASE Kind[t] # "map"
  <2> DEFINE q == [i \in 1..Len(ps) |-> Read(Elem[t], ps[i][2])]
  <2>1. \A p : Element(M, t, p) = Read(Elem[t], p[2])
    BY <1>3, <1>6
  <2>2. Meant(t, ps) = IF Kind[t] = "list" THEN q ELSE ToSet(q)
    BY <1>6 DEF Meant
  <2>3. Collected(M, t, ps, Len(ps)) =
          IF Kind[t] = "list" THEN [i \in 1..Len(ps) |-> Element(M, t, ps[i])]
                              ELSE {Element(M, t, ps[i]) : i \in 1..Len(ps)}
    BY <1>6 DEF Collected
  <2>4. q = [i \in 1..Len(ps) |-> Element(M, t, ps[i])]
    BY <2>1
  <2>5. ToSet(q) = {Element(M, t, ps[i]) : i \in 1..Len(ps)}
    BY <2>1 DEF ToSet
  <2> HIDE DEF q
  <2>6. Collected(M, t, ps, Len(ps)) = Meant(t, ps)
    BY <2>2, <2>3, <2>4, <2>5
  <2> QED
    BY <1>4, <2>6
<1> QED
  BY <1>5, <1>6

\* What is read of Lua has a meaning all along.
FlatRead ==
  Reading /\ origin.by = "lua" /\ Flat(origin.type) =>
    \E M, v : v = origin.value /\ Meaningful(M, v)

LEMMA FlatReadInit == ConvertInit => FlatRead
<1> SUFFICES ASSUME ConvertInit, Reading, origin.by = "lua", Flat(origin.type)
             PROVE  \E M, v : v = origin.value /\ Meaningful(M, v)
  BY DEF FlatRead
<1>1. PICK s \in Scripts :
        /\ pc = <<"from", s[3], 1>> /\ stack = <<s[2]>> /\ heap = s[1]
        /\ origin = [type |-> s[3], value |-> s[2], by |-> "lua"]
  <2>1. ASSUME NEW vt \in Values, origin = [type |-> vt[1], value |-> vt[2], by |-> "cpp"]
        PROVE  FALSE
    BY <2>1
  <2> QED
    BY <2>1 DEF ConvertInit
<1>2. PICK t, v, n : t = s[3] /\ v = s[2] /\ n = Len(heap)
  OBVIOUS
<1>3. /\ origin.type = t /\ origin.value = v /\ ~error /\ containers = << >>
      /\ pc[1] = "from" /\ pc[2] = t /\ pc[3] = 1 /\ stack[1] = v
      /\ Flat(t)
  BY <1>1, <1>2 DEF ConvertInit
<1>4. /\ Container(t) /\ ~Container(Elem[t]) /\ (Kind[t] = "map" => ~Container(Key[t]))
  BY <1>3 DEF Flat
<1>5. /\ LuaValueOf(v, n)
      /\ \A h \in 1..n :
           /\ Len(heap[h]) \in Nat
           /\ \A i \in 1..Len(heap[h]) :
                /\ heap[h][i][1] # <<Nil>>
                /\ \A j \in 1..Len(heap[h]) : heap[h][i][1] = heap[h][j][1] => i = j
  <2>1. LuaValueOf(s[2], Len(s[1]))
    BY ScriptsAssumption
  <2>2. \A h \in 1..Len(s[1]) :
          /\ IsSeq(s[1][h])
          /\ \A i \in 1..Len(s[1][h]) :
               /\ s[1][h][i][1] # <<Nil>>
               /\ \A j \in 1..Len(s[1][h]) : s[1][h][i][1] = s[1][h][j][1] => i = j
    BY ScriptsAssumption
  <2>3. \A h \in 1..Len(s[1]) : Len(s[1][h]) \in Nat
    BY <2>2 DEF IsSeq
  <2>4. heap = s[1] /\ n = Len(s[1]) /\ v = s[2]
    BY <1>1, <1>2
  <2> QED
    BY <2>1, <2>2, <2>3, <2>4
<1>6. v[1] = "table" => v[2] \in 1..n
  <2>1. v = <<Nil>> => v[1] # "table"
    BY ConvertAssumption
  <2> QED
    BY <1>5, <2>1 DEF LuaValueOf
<1>7. PICK D, M :
        /\ D = IF v[1] = "table" THEN {<<t, v[2]>>} ELSE {}
        /\ M = [u \in D |-> [ok |-> Convertible(t, heap[v[2]]),
                             value |-> <<Kind[t], Meant(t, heap[v[2]])>>]]
  OBVIOUS
<1>8. /\ DOMAIN M = D
      /\ \A u \in D : /\ M[u].ok <=> Convertible(t, heap[v[2]])
                      /\ M[u].value = <<Kind[t], Meant(t, heap[v[2]])>>
  BY <1>7
<1>9. Consistent(M)
  <2> SUFFICES ASSUME NEW u \in D, NEW ps, ps = heap[u[2]]
               PROVE  /\ Container(u[1]) /\ u[2] \in 1..Len(heap)
                      /\ \A i \in 1..Len(ps) :
                           /\ ps[i][1] # <<Nil>>
                           /\ \A j \in 1..Len(ps) : ps[i][1] = ps[j][1] => i = j
                           /\ Has(M, Elem[u[1]], ps[i][2])
                           /\ Kind[u[1]] = "map" => Has(M, Key[u[1]], ps[i][1])
                      /\ M[u].ok <=> \A i \in 1..Len(ps) : Fine(M, u[1], ps[i])
                      /\ M[u].ok => M[u].value = <<Kind[u[1]], Collected(M, u[1], ps, Len(ps))>>
    BY <1>8 DEF Consistent
  <2>1. u[1] = t /\ u[2] = v[2] /\ v[1] = "table"
    BY <1>7
  <2>2. u[2] \in 1..n /\ ps = heap[v[2]] /\ Len(ps) \in Nat
    BY <1>5, <1>6, <2>1
  <2>3. \A i \in 1..Len(ps) :
          /\ ps[i][1] # <<Nil>>
          /\ \A j \in 1..Len(ps) : ps[i][1] = ps[j][1] => i = j
    BY <1>5, <2>2
  <2>4. \A w : Has(M, Elem[t], w) /\ (Kind[t] = "map" => Has(M, Key[t], w))
    BY <1>4 DEF Has
  <2>5. /\ (\A i \in 1..Len(ps) : Fine(M, t, ps[i])) <=> Convertible(t, ps)
        /\ Collected(M, t, ps, Len(ps)) = Meant(t, ps)
    BY <1>3, <2>2, FlatMeaning
  <2>6. /\ M[u].ok <=> \A i \in 1..Len(ps) : Fine(M, t, ps[i])
        /\ M[u].value = <<Kind[t], Collected(M, t, ps, Len(ps))>>
    BY <1>8, <2>2, <2>5
  <2> QED
    BY <1>2, <1>4, <2>1, <2>2, <2>3, <2>4, <2>6
<1>10. Has(M, t, v)
  BY <1>7, <1>8 DEF Has
<1>11. Len(containers) = 0
  BY <1>3, EmptyIs
<1>12. Child(M, 0, t, v)
  BY <1>3, <1>11 DEF Child
<1>13. Meaningful(M, v)
  BY <1>3, <1>9, <1>10, <1>11, <1>12 DEF Meaningful
<1> QED
  BY <1>3, <1>13

LEMMA FlatReadStep ==
  ASSUME Shaped, LaidOut, FlatRead, [ConvertNext]_convertVars
  PROVE  FlatRead'
<1>1. UNCHANGED origin \/ origin'.by = "back"
  <2>1. ASSUME NEW above, ReadBack(above) PROVE origin'.by = "back"
    <3>1. origin = [type |-> origin.type, value |-> origin.value, by |-> origin.by]
      BY DEF Shaped, Typed, Tagged
    <3>2. origin' = [origin EXCEPT !.by = "back"]
      BY <2>1 DEF ReadBack
    <3> QED
      BY <3>1, <3>2
  <2>2. ASSUME Step PROVE UNCHANGED origin
    BY <2>2 DEF Step, ToBasic, ToEnum, ToUnknown, ToOpen, ToNext, ToValue, ToSettled, ToClose,
       FromBasic, FromEnum, FromOpen, FromNext, FromClose, FromRaise, FromElement, FromKey,
       FromPair, Finish
  <2> QED
    BY <2>1, <2>2 DEF ConvertNext, convertVars
<1>2. CASE origin'.by = "back"
  BY <1>2 DEF FlatRead
<1>3. CASE UNCHANGED origin
  <2> SUFFICES ASSUME Reading, origin.by = "lua", Flat(origin.type)
               PROVE  (\E M, v : v = origin.value /\ Meaningful(M, v))'
    BY <1>3 DEF FlatRead, Reading, Writing, Flat
  <2>1. PICK M, v : v = origin.value /\ Meaningful(M, v)
    BY DEF FlatRead
  <2>2. Meaningful(M, v)'
    BY <2>1, MeaningStep
  <2>3. v = origin'.value
    BY <1>3, <2>1
  <2> QED
    BY <2>2, <2>3
<1> QED
  BY <1>1, <1>2, <1>3

(***************************************************************************)
(* A table of Lua is read whole, each element as it is converted alone,    *)
(* the first of those with equal keys; a value that does not fit, or that  *)
(* has an element that does not, is refused with an error.                 *)
(***************************************************************************)
THEOREM ReadsExactly == ConvertSpec => []ReadExact
<1>1. ASSUME Shaped, Original, LaidOut, FlatRead, EndNamed
      PROVE  ReadExact
  <2> SUFFICES ASSUME Ended, origin.by = "lua", Flat(origin.type), origin.type \in Plain,
                      NEW t, NEW v, NEW ps, t = origin.type, v = origin.value, ps = heap[v[2]]
               PROVE  IF v[1] = "table" /\ Convertible(t, ps)
                      THEN pc = <<"end", <<Kind[t], Meant(t, ps)>>>> /\ ~error
                      ELSE error
    BY DEF ReadExact
  <2>1. Reading
    BY DEF Reading, Writing
  <2>2. PICK M : Meaningful(M, v)
    BY <1>1, <2>1 DEF FlatRead
  <2>3. Container(t) /\ Consistent(M) /\ Has(M, t, v) /\ Flat(t) /\ (Ok(M, t, v) => ~error)
    BY <2>2 DEF Meaningful, Flat
  <2>4. containers = << >> /\ Len(containers) = 0
    BY <1>1, EmptyIs DEF Ended, Shaped, Directed
  <2>5. ~error => pc[1] = "end"
    BY <1>1, <2>1 DEF Ended, LaidOut
  <2>6. ~error => Ok(M, t, v) /\ pc[2] = Meaning(M, t, v)
    <3> SUFFICES ASSUME ~error PROVE Ok(M, t, v) /\ pc[2] = Meaning(M, t, v)
      OBVIOUS
    <3>1. Child(M, 0, t, v)
      BY <2>2 DEF Meaningful, Child
    <3> QED
      BY <2>4, <2>5, <3>1 DEF Child
  <2>7. CASE v[1] # "table"
    BY <2>3, <2>6, <2>7 DEF Ok
  <2>8. CASE v[1] = "table"
    <3>1. <<t, v[2]>> \in DOMAIN M
      BY <2>3, <2>8 DEF Has
    <3>2. PICK h : h = v[2]
      OBVIOUS
    <3>3. /\ h \in 1..Len(heap)
          /\ M[<<t, h>>].ok <=> \A i \in 1..Len(ps) : Fine(M, t, ps[i])
          /\ M[<<t, h>>].ok => M[<<t, h>>].value = <<Kind[t], Collected(M, t, ps, Len(ps))>>
      BY <2>3, <3>1, <3>2, ConsistentAt
    <3>4. Len(ps) \in Nat
      BY <1>1, <3>2, <3>3 DEF Shaped, Typed, IsTable, IsSeq
    <3>5. /\ (\A i \in 1..Len(ps) : Fine(M, t, ps[i])) <=> Convertible(t, ps)
          /\ Collected(M, t, ps, Len(ps)) = Meant(t, ps)
      BY <2>3, <3>4, FlatMeaning
    <3>6. Ok(M, t, v) <=> Convertible(t, ps)
      BY <2>3, <2>8, <3>2, <3>3, <3>5 DEF Ok
    <3>7. CASE ~Convertible(t, ps)
      BY <2>6, <3>6, <3>7
    <3>8. CASE Convertible(t, ps)
      <4>1. ~error /\ pc[1] = "end" /\ pc[2] = Meaning(M, t, v)
        BY <2>3, <2>5, <2>6, <3>6, <3>8
      <4>2. Meaning(M, t, v) = <<Kind[t], Meant(t, ps)>>
        BY <2>3, <3>2, <3>3, <3>5, <3>8 DEF Meaning
      <4>3. pc = <<"end", pc[2]>>
        BY <1>1, <4>1 DEF EndNamed
      <4> QED
        BY <2>8, <3>8, <4>1, <4>2, <4>3
    <3> QED
      BY <2>8, <3>7, <3>8
  <2> QED
    BY <2>7, <2>8
<1>2. ConvertSpec => []FlatRead
  <2>1. Shaped /\ LaidOut /\ FlatRead /\ [ConvertNext]_convertVars => FlatRead'
    BY FlatReadStep
  <2> QED
    BY <2>1, FlatReadInit, LaidOutAlways, PTL DEF ConvertSpec
<1> QED
  BY <1>1, <1>2, EndNamedAlways, LaidOutAlways, PTL
------------------------------------------------------------------------------
(***************************************************************************)
(* What is written: M[<<t, h>>] says for which value of type t the table h *)
(* was created, in the words of Meaningful.                                *)
(***************************************************************************)

\* v is what some value of type t is written as.
Denoted(M, t, v) ==
  IF Container(t) THEN v[1] = "table" /\ <<t, v[2]>> \in DOMAIN M
                  ELSE Fits(Under(t), v) /\ v # <<Nil>>

\* v is what the value x of type t is written as.
Stands(M, t, v, x) == Denoted(M, t, v) /\ Meaning(M, t, v) = x

\* The pairs ps are there, and the items r still to be written, of a list,
\* a set and a map x.
Listed(M, t, x, ps, r) ==
  /\ Len(x[2]) = Len(ps) + Len(r)
  /\ \A i \in 1..Len(ps) : Element(M, t, ps[i]) = x[2][i]
  /\ \A i \in 1..Len(r) : r[i][2] = x[2][Len(ps) + i]

Gotten(M, t, x, ps, r) ==
  x[2] = {Element(M, t, ps[i]) : i \in 1..Len(ps)} \cup {r[i][2] : i \in 1..Len(r)}

Mapped(M, t, x, ps, r) ==
  /\ x[2] = {Element(M, t, ps[i]) : i \in 1..Len(ps)} \cup {r[i] : i \in 1..Len(r)}
  /\ \A i, j \in 1..Len(ps) : Element(M, t, ps[i])[1] = Element(M, t, ps[j])[1] => i = j
  /\ \A i, j \in 1..Len(r) : r[i][1] = r[j][1] => i = j
  /\ \A i \in 1..Len(ps), j \in 1..Len(r) : Element(M, t, ps[i])[1] # r[j][1]

\* An array has its indices as keys.
Written(M, t, x, ps, r) ==
  /\ \A i \in 1..Len(ps) :
       /\ Denoted(M, Elem[t], ps[i][2])
       /\ IF Kind[t] = "map" THEN Denoted(M, Key[t], ps[i][1]) ELSE ps[i][1] = <<"integer", i>>
  /\ Kind[t] # "map" => \A i \in 1..Len(r) : r[i][1] = Len(ps) + i
  /\ Kind[t] = "list" => Listed(M, t, x, ps, r)
  /\ Kind[t] = "set" => Gotten(M, t, x, ps, r)
  /\ Kind[t] = "map" => Mapped(M, t, x, ps, r)

TableOf(k) == stack[containers[k].at][2]

\* What is converted for the container k, or at last, is x as a t.
Due(M, k, t, x) ==
  IF k < Len(containers)
  THEN containers[k + 1].type = t /\ M[<<t, TableOf(k + 1)>>].value = x
  ELSE /\ pc[1] = "to" =>
            \/ pc[2] = t /\ pc[3] = x
            \/ /\ t \in Types /\ Kind[t] = "enum" /\ x = <<"enum", x[2]>>
               /\ pc[2] = Elem[t] /\ pc[3] = <<Kind[Elem[t]], x[2]>>
       /\ pc[1] \in {"back", "end"} => Stands(M, t, stack[Len(stack)], x)

\* The container f, the k-th, has been written into the table h so far.
Underway(M, k, f, h) ==
  /\ <<f.type, h>> \in DOMAIN M
  /\ Written(M, f.type, M[<<f.type, h>>].value, heap[h], f.items)
  /\ f.stage = "key" => Kind[f.type] = "map" /\ Due(M, k, Key[f.type], f.items[1][1])
  /\ f.stage = "value" =>
       /\ IF Kind[f.type] = "map" THEN Stands(M, Key[f.type], stack[f.at + 1], f.items[1][1])
                                  ELSE stack[f.at + 1] = <<"integer", f.items[1][1]>>
       /\ Due(M, k, Elem[f.type], f.items[1][2])

\* M knows of the tables what they are written for.
Recorded(M) ==
  \A u \in DOMAIN M :
    /\ u = <<u[1], u[2]>> /\ Container(u[1]) /\ u[2] \in 1..Len(heap)
    /\ <<u[1], M[u].value>> \in Values
    /\ M[u].ok <=> <<u[1], M[u].value>> \in Registered
    /\ \A z \in DOMAIN M : u[2] = z[2] => u = z

Whole(M, u) == Written(M, u[1], M[u].value, heap[u[2]], << >>)

\* Each table has been written whole, or belongs to a container under way.
Denoting(M) ==
  /\ Recorded(M)
  /\ \A u \in DOMAIN M : Whole(M, u) \/ \E k \in 1..Len(containers) : TableOf(k) = u[2]
  /\ Due(M, 0, origin.type, origin.value)
  /\ \A k \in 1..Len(containers) :
       /\ Underway(M, k, containers[k], TableOf(k))
       /\ \A j \in 1..Len(containers) : TableOf(j) = TableOf(k) => j = k

------------------------------------------------------------------------------

\* Any order of a set has each element once.
LEMMA Ordered ==
  ASSUME NEW S, IsFiniteSet(S), NEW q \in SetToSeqs(S)
  PROVE  /\ IsSeq(q) /\ S = {q[i] : i \in 1..Len(q)}
         /\ \A i, j \in 1..Len(q) : q[i] = q[j] => i = j
<1> DEFINE n == Cardinality(S)
<1>1. n \in Nat
  BY FS_CardinalityType
<1>2. q \in [1..n -> S] /\ \A i, j \in 1..n : i # j => q[i] # q[j]
  BY DEF SetToSeqs
<1>3. n = Cardinality(S)
  OBVIOUS
<1> HIDE DEF n
<1>4. q \in Injection(1..n, S)
  BY <1>2 DEF Injection, IsInjective
<1>5. IsFiniteSet(1..n) /\ Cardinality(1..n) = n
  <2>1. 1 \in Int /\ n \in Int /\ (1 > n => n = 0)
    BY <1>1
  <2> QED
    BY <1>1, <2>1, FS_Interval
<1>6. q \in Surjection(1..n, S)
  BY <1>3, <1>4, <1>5, FS_Injection
<1>7. \A y \in S : \E i \in 1..n : q[i] = y
  BY <1>6 DEF Surjection
<1>8. IsSeq(q) /\ Len(q) = n
  <2>1. q \in Seq(S)
    BY <1>1, <1>2, SeqDef
  <2>2. Len(q) = n
    BY <1>1, <1>2
  <2> QED
    BY <2>1, <2>2, SeqIs
<1>9. \A i \in 1..n : q[i] \in S
  BY <1>2
<1>10. S = {q[i] : i \in 1..n}
  BY <1>7, <1>9
<1> QED
  BY <1>2, <1>8, <1>10

LEMMA ItemsLeft ==
  ASSUME NEW t, NEW x, <<t, x>> \in Values, Container(t), NEW q \in Items(t, x), NEW M,
         NEW ps, Len(ps) = 0
  PROVE  Written(M, t, x, ps, q)
<1>0. IsSeq(q) /\ Formed(t, x) /\ \A i \in 1..Len(ps) : FALSE
  BY ItemsWritten, ValuesAssumption
<1>1. {Element(M, t, ps[i]) : i \in 1..Len(ps)} = {}
  BY <1>0
<1>2. CASE Kind[t] = "list"
  <2> DEFINE n == Len(x[2])
  <2>1. n \in Nat
    BY <1>0, <1>2 DEF Formed, IsSeq
  <2>2. q = [i \in 1..n |-> <<i, x[2][i]>>]
    BY <1>2 DEF Items
  <2>3. n = Len(x[2])
    OBVIOUS
  <2> HIDE DEF n
  <2>4. DOMAIN q = 1..n /\ DOMAIN q = 1..Len(q) /\ Len(q) \in Nat
    BY <1>0, <2>2 DEF IsSeq
  <2>5. Len(q) = n
    BY <2>1, <2>4
  <2>6. \A i \in 1..Len(q) : q[i][1] = 0 + i /\ q[i][2] = x[2][0 + i]
    <3>1. \A i \in 1..n : q[i] = <<i, x[2][i]>>
      BY <2>2
    <3>2. \A i \in 1..n : 0 + i = i
      BY <2>1
    <3> QED
      BY <2>5, <3>1, <3>2
  <2>7. Listed(M, t, x, ps, q)
    BY <1>0, <2>1, <2>3, <2>5, <2>6 DEF Listed
  <2> QED
    BY <1>0, <1>2, <2>6, <2>7 DEF Written
<1>3. CASE Kind[t] = "set"
  <2>1. IsFiniteSet(x[2])
    BY <1>0, <1>3 DEF Formed
  <2>2. PICK r \in SetToSeqs(x[2]) : q = [i \in 1..Len(r) |-> <<i, r[i]>>]
    BY <1>3 DEF Items
  <2>3. IsSeq(r) /\ x[2] = {r[i] : i \in 1..Len(r)}
    BY <2>1, Ordered
  <2>4. DOMAIN q = 1..Len(r) /\ DOMAIN q = 1..Len(q) /\ Len(q) \in Nat /\ Len(r) \in Nat
    BY <1>0, <2>2, <2>3 DEF IsSeq
  <2>5. Len(q) = Len(r)
    BY <2>4
  <2>6. \A i \in 1..Len(q) : q[i][1] = 0 + i /\ q[i][2] = r[i]
    BY <2>2, <2>5
  <2>7. x[2] = {q[i][2] : i \in 1..Len(q)}
    BY <2>3, <2>5, <2>6
  <2>8. Gotten(M, t, x, ps, q)
    BY <1>1, <2>7 DEF Gotten
  <2> QED
    BY <1>0, <1>3, <2>6, <2>8 DEF Written
<1>4. CASE Kind[t] = "map"
  <2>1. IsFiniteSet(x[2]) /\ \A y, z \in x[2] : y[1] = z[1] => y = z
    BY <1>0, <1>4 DEF Formed
  <2>2. q \in SetToSeqs(x[2])
    BY <1>4 DEF Items
  <2>3. x[2] = {q[i] : i \in 1..Len(q)} /\ \A i, j \in 1..Len(q) : q[i] = q[j] => i = j
    BY <2>1, <2>2, Ordered
  <2>4. \A i, j \in 1..Len(q) : q[i][1] = q[j][1] => i = j
    BY <2>1, <2>3
  <2>5. Mapped(M, t, x, ps, q)
    BY <1>0, <1>1, <2>3, <2>4 DEF Mapped
  <2> QED
    BY <1>0, <1>4, <2>5 DEF Written
<1> QED
  BY <1>2, <1>3, <1>4 DEF Container

LEMMA Multiple ==
  ASSUME NEW m \in Nat \ {0}, NEW z \in Int, -m < m * z, m * z < m
  PROVE  z = 0
<1>1. CASE z >= 1
  <2>1. m * z >= m
    BY <1>1
  <2> QED
    BY <2>1
<1>2. CASE z <= -1
  <2>1. m * z <= -m
    BY <1>2
  <2> QED
    BY <2>1
<1> QED
  BY <1>1, <1>2

LEMMA Factors ==
  \A m, d, y \in Int : /\ m * d + m * y = m * (d + y)
                       /\ (m * d) * y = m * (d * y)
                       /\ m * d \in Int
  OBVIOUS

\* A value of an integer type comes back from the integer of Lua.
LEMMA Narrowed ==
  ASSUME NEW t \in Types, Kind[t] = "integer",
         NEW n \in Least[t]..(Least[t] + Size[t] - 1)
  PROVE  Narrow(t, ToInteger(n)) = n
<1>1. PICK l, s, k, w : l = Least[t] /\ s = Size[t] /\ k = LuaLeast /\ w = LuaSize
  OBVIOUS
<1>2. /\ l \in Int /\ s \in Nat \ {0} /\ k \in Int /\ w \in Nat \ {0} /\ w % s = 0
      /\ n \in Int /\ l <= n /\ n < l + s
  BY <1>1, ConvertAssumption
<1>3. PICK d \in Int : w = s * d
  <2>1. w \div s \in Int /\ w = s * (w \div s) + (w % s)
    BY <1>2, Division
  <2>2. w \div s \in Int /\ w = s * (w \div s)
    BY <1>2, <2>1, Factors
  <2> QED
    BY <2>2
<1>4. PICK a \in Int, b \in Int : n - k = w * a + b /\ b = (n - k) % w
  <2>1. PICK y \in Int : y = n - k
    BY <1>2
  <2>2. y \div w \in Int /\ y % w \in Int /\ y = w * (y \div w) + (y % w)
    BY <1>2, Division
  <2> QED
    BY <2>1, <2>2
<1>5. PICK m : m = k + b
  OBVIOUS
<1>6. m \in Int /\ m - l \in Int
  BY <1>2, <1>5
<1>7. PICK e \in Int, r \in Int : m - l = s * e + r /\ r = (m - l) % s /\ r \in 0..(s - 1)
  <2>1. PICK y \in Int : y = m - l
    BY <1>6
  <2>2. /\ y \div s \in Int /\ y % s \in Int /\ y % s \in 0..(s - 1)
        /\ y = s * (y \div s) + (y % s)
    BY <1>2, Division
  <2> QED
    BY <2>1, <2>2
<1>8. PICK c \in Int : c = d * a
  BY Factors
<1>9. w * a = s * c
  BY <1>2, <1>3, <1>8, Factors
<1>10. PICK x \in Int, y \in Int, z \in Int : x = s * c /\ y = s * e /\ z = s * (e + c) /\ y + x = z
  <2>1. s \in Int /\ e + c \in Int
    BY <1>2
  <2> QED
    BY <2>1, Factors
<1>11. n - l = z + r
  BY <1>2, <1>4, <1>5, <1>7, <1>9, <1>10
<1>12. -s < z /\ z < s
  BY <1>2, <1>7, <1>11
<1>13. e + c = 0
  <2>1. e + c \in Int /\ -s < s * (e + c) /\ s * (e + c) < s
    BY <1>10, <1>12
  <2> QED
    BY <1>2, <2>1, Multiple
<1>14. z = 0
  BY <1>2, <1>10, <1>13
<1>15. n = l + r
  BY <1>2, <1>11, <1>14
<1> QED
  BY <1>1, <1>4, <1>5, <1>7, <1>15 DEF Narrow, ToInteger, Wrap

\* N knows the tables that M knows, and maybe others.
Extends(N, M) == DOMAIN M \subseteq DOMAIN N /\ \A u \in DOMAIN M : N[u] = M[u]

LEMMA StandsKept ==
  ASSUME NEW M, NEW N, Extends(N, M)
  PROVE  /\ \A t, v : Denoted(M, t, v) => Denoted(N, t, v) /\ Meaning(N, t, v) = Meaning(M, t, v)
         /\ \A t, v, x : Stands(M, t, v, x) => Stands(N, t, v, x)
<1>1. ASSUME NEW t, NEW v, Denoted(M, t, v)
      PROVE  Denoted(N, t, v) /\ Meaning(N, t, v) = Meaning(M, t, v)
  BY <1>1 DEF Denoted, Meaning, Extends
<1> QED
  BY <1>1 DEF Stands

LEMMA WrittenKept ==
  ASSUME NEW M, NEW N, Extends(N, M), NEW t, NEW x, NEW ps, NEW r, Written(M, t, x, ps, r)
  PROVE  Written(N, t, x, ps, r)
<1>1. \A i \in 1..Len(ps) :
        /\ Denoted(N, Elem[t], ps[i][2])
        /\ IF Kind[t] = "map" THEN Denoted(N, Key[t], ps[i][1]) ELSE ps[i][1] = <<"integer", i>>
  BY StandsKept DEF Written
<1>2. \A i \in 1..Len(ps) : Element(N, t, ps[i]) = Element(M, t, ps[i])
  BY StandsKept DEF Written, Element
<1>3. Kind[t] = "list" => Listed(N, t, x, ps, r)
  BY <1>2 DEF Written, Listed
<1>4. Kind[t] = "set" => Gotten(N, t, x, ps, r)
  <2>1. {Element(N, t, ps[i]) : i \in 1..Len(ps)} = {Element(M, t, ps[i]) : i \in 1..Len(ps)}
    BY <1>2
  <2> QED
    BY <2>1 DEF Written, Gotten
<1>5. Kind[t] = "map" => Mapped(N, t, x, ps, r)
  <2>1. {Element(N, t, ps[i]) : i \in 1..Len(ps)} = {Element(M, t, ps[i]) : i \in 1..Len(ps)}
    BY <1>2
  <2> QED
    BY <1>2, <2>1 DEF Written, Mapped
<1>6. Kind[t] # "map" => \A i \in 1..Len(r) : r[i][1] = Len(ps) + i
  BY DEF Written
<1> QED
  BY <1>1, <1>3, <1>4, <1>5, <1>6 DEF Written

\* The sequence qs is ps with p at the place k.
HasInserted(qs, ps, k, p) ==
  /\ IsSeq(qs) /\ Len(qs) = Len(ps) + 1 /\ Len(ps) \in Nat
  /\ \A i \in 1..Len(qs) :
       \/ i = k /\ qs[i] = p
       \/ i # k /\ \E j \in 1..Len(ps) : qs[i] = ps[j] /\ j = IF i < k THEN i ELSE i - 1
  /\ \A j \in 1..Len(ps) : \E i \in 1..Len(qs) : qs[i] = ps[j]
  /\ \E i \in 1..Len(qs) : qs[i] = p

LEMMA InsertedSet ==
  ASSUME NEW ps, IsSeq(ps), NEW k \in 1..(Len(ps) + 1), NEW p,
         NEW qs, qs = InsertAt(ps, k, p)
  PROVE  HasInserted(qs, ps, k, p)
<1>1. PICK n \in Nat : n = Len(ps)
  BY DEF IsSeq
<1>2. /\ IsSeq(qs) /\ Len(qs) = n + 1
      /\ \A i \in 1..(k - 1) : qs[i] = ps[i]
      /\ qs[k] = p
      /\ \A i \in (k + 1)..(n + 1) : qs[i] = ps[i - 1]
  BY <1>1, InsertSeq
<1>3. ASSUME NEW i \in 1..(n + 1)
      PROVE  \/ i = k /\ qs[i] = p
             \/ i # k /\ \E j \in 1..n : qs[i] = ps[j] /\ j = IF i < k THEN i ELSE i - 1
  <2>1. CASE i < k
    <3>1. i \in 1..(k - 1) /\ i \in 1..n
      BY <1>1, <1>3, <2>1
    <3> QED
      BY <1>2, <2>1, <3>1
  <2>2. CASE i = k
    BY <1>2, <2>2
  <2>3. CASE i > k
    <3>1. i \in (k + 1)..(n + 1) /\ i - 1 \in 1..n /\ ~(i < k)
      BY <1>1, <1>3, <2>3
    <3> QED
      BY <1>2, <3>1
  <2> QED
    BY <1>1, <1>3, <2>1, <2>2, <2>3
<1>4. ASSUME NEW j \in 1..n
      PROVE  \E i \in 1..(n + 1) : qs[i] = ps[j]
  <2>1. CASE j < k
    <3>1. j \in 1..(k - 1) /\ j \in 1..(n + 1)
      BY <1>1, <1>4, <2>1
    <3> QED
      BY <1>2, <3>1
  <2>2. CASE j >= k
    <3>1. j + 1 \in (k + 1)..(n + 1) /\ j + 1 \in 1..(n + 1) /\ (j + 1) - 1 = j
      BY <1>1, <1>4, <2>2
    <3> QED
      BY <1>2, <3>1
  <2> QED
    BY <1>1, <1>4, <2>1, <2>2
<1>5. k \in 1..(n + 1)
  BY <1>1
<1> QED
  BY <1>1, <1>2, <1>3, <1>4, <1>5 DEF HasInserted

\* The first of the items is written.
LEMMA WrittenMore ==
  ASSUME NEW M, NEW t, NEW x, NEW ps, IsSeq(ps), NEW r, IsSeq(r), r # << >>,
         Written(M, t, x, ps, r),
         NEW a, NEW b, Stands(M, Elem[t], b, r[1][2]),
         IF Kind[t] = "map" THEN Stands(M, Key[t], a, r[1][1]) /\ r[1] = <<r[1][1], r[1][2]>>
                            ELSE a = <<"integer", r[1][1]>>,
         NEW k \in 1..(Len(ps) + 1), Kind[t] # "map" => k = Len(ps) + 1
  PROVE  Written(M, t, x, InsertAt(ps, k, <<a, b>>), Tail(r))
<1>1. PICK qs, z, p : qs = InsertAt(ps, k, <<a, b>>) /\ z = Tail(r) /\ p = <<a, b>>
  OBVIOUS
<1>2. PICK n \in Nat, l \in Nat : n = Len(ps) /\ l = Len(z) /\ Len(r) = l + 1
  <2>1. IsSeq(z) /\ Len(r) \in Nat \ {0} /\ Len(z) = Len(r) - 1
    BY <1>1, TailIs
  <2>2. Len(ps) \in Nat /\ Len(z) \in Nat
    BY <2>1 DEF IsSeq
  <2>3. Len(r) = Len(z) + 1
    BY <2>1, <2>2
  <2> QED
    BY <2>2, <2>3
<1>3. \A i \in 1..l : z[i] = r[i + 1] /\ i + 1 \in 1..(l + 1) /\ i + 1 # 1
  <2>1. \A i \in 1..(Len(r) - 1) : Tail(r)[i] = r[i + 1]
    BY TailIs
  <2>2. Len(r) - 1 = l
    BY <1>2
  <2> QED
    BY <1>1, <2>1, <2>2
<1>4. \A i \in 1..(l + 1) : i = 1 \/ \E j \in 1..l : r[i] = z[j]
  <2> TAKE i \in 1..(l + 1)
  <2> SUFFICES ASSUME i # 1 PROVE \E j \in 1..l : r[i] = z[j]
    OBVIOUS
  <2>1. i - 1 \in 1..l /\ (i - 1) + 1 = i
    BY <1>2
  <2> QED
    BY <1>3, <2>1
<1>5. 1 \in 1..(l + 1)
  BY <1>2
<1>6. /\ Len(qs) = n + 1
      /\ \A i \in 1..(n + 1) :
           \/ i = k /\ qs[i] = p
           \/ i # k /\ \E j \in 1..n : qs[i] = ps[j] /\ j = IF i < k THEN i ELSE i - 1
      /\ \A j \in 1..n : \E i \in 1..(n + 1) : qs[i] = ps[j]
      /\ \E i \in 1..(n + 1) : qs[i] = p
      /\ k \in 1..(n + 1)
  <2>0. qs = InsertAt(ps, k, p)
    BY <1>1
  <2>1. HasInserted(qs, ps, k, p)
    BY <2>0, InsertedSet
  <2>2. Len(ps) = n /\ Len(qs) = n + 1
    BY <1>2, <2>1 DEF HasInserted
  <2> QED
    BY <2>1, <2>2 DEF HasInserted
<1>7. /\ \A i \in 1..n :
           /\ Denoted(M, Elem[t], ps[i][2])
           /\ IF Kind[t] = "map" THEN Denoted(M, Key[t], ps[i][1]) ELSE ps[i][1] = <<"integer", i>>
      /\ Kind[t] # "map" => \A i \in 1..(l + 1) : r[i][1] = n + i
      /\ Kind[t] = "list" => Listed(M, t, x, ps, r)
      /\ Kind[t] = "set" => Gotten(M, t, x, ps, r)
      /\ Kind[t] = "map" => Mapped(M, t, x, ps, r)
  BY <1>2 DEF Written
<1>8. p[1] = a /\ p[2] = b
  BY <1>1
<1>9. ASSUME Kind[t] # "map"
      PROVE  /\ k = n + 1 /\ p[1] = <<"integer", n + 1>> /\ qs[n + 1] = p
             /\ \A i \in 1..n : qs[i] = ps[i]
             /\ Element(M, t, p) = r[1][2]
  <2>1. k = n + 1 /\ p[1] = <<"integer", n + 1>>
    BY <1>2, <1>5, <1>7, <1>8, <1>9
  <2>2. qs[n + 1] = p /\ \A i \in 1..n : qs[i] = ps[i]
    <3>1. \A i \in 1..n : i \in 1..(n + 1) /\ i < n + 1 /\ i # n + 1
      BY <1>2
    <3> QED
      BY <1>6, <2>1, <3>1
  <2>3. Element(M, t, p) = r[1][2]
    BY <1>8, <1>9 DEF Element, Stands
  <2> QED
    BY <2>1, <2>2, <2>3
<1>10. \A i \in 1..(n + 1) :
         /\ Denoted(M, Elem[t], qs[i][2])
         /\ IF Kind[t] = "map" THEN Denoted(M, Key[t], qs[i][1]) ELSE qs[i][1] = <<"integer", i>>
  <2>1. Denoted(M, Elem[t], p[2])
    BY <1>8 DEF Stands
  <2>2. CASE Kind[t] = "map"
    <3>1. Denoted(M, Key[t], p[1])
      BY <1>8, <2>2 DEF Stands
    <3> QED
      BY <1>6, <1>7, <2>1, <2>2, <3>1
  <2>3. CASE Kind[t] # "map"
    <3>1. \A i \in 1..(n + 1) : i \in 1..n \/ i = n + 1
      BY <1>2
    <3> QED
      BY <1>7, <1>9, <2>1, <2>3, <3>1
  <2> QED
    BY <2>2, <2>3
<1>11. Kind[t] # "map" => \A i \in 1..l : z[i][1] = (n + 1) + i
  <2> SUFFICES ASSUME Kind[t] # "map", NEW i \in 1..l PROVE z[i][1] = (n + 1) + i
    OBVIOUS
  <2>1. z[i][1] = n + (i + 1)
    BY <1>3, <1>7
  <2> QED
    BY <1>2, <2>1
<1>12. {Element(M, t, qs[i]) : i \in 1..(n + 1)}
         = {Element(M, t, ps[i]) : i \in 1..n} \cup {Element(M, t, p)}
  <2> DEFINE S == {Element(M, t, qs[i]) : i \in 1..(n + 1)}  T == {Element(M, t, ps[i]) : i \in 1..n}
  <2>1. \A y \in S : y \in T \cup {Element(M, t, p)}
    BY <1>6
  <2>2. \A y \in T : y \in S
    BY <1>6
  <2>3. Element(M, t, p) \in S
    BY <1>6
  <2> HIDE DEF S, T
  <2>4. S = T \cup {Element(M, t, p)}
    BY <2>1, <2>2, <2>3
  <2> QED
    BY <2>4 DEF S, T
<1>13. ASSUME Kind[t] = "list" PROVE Listed(M, t, x, qs, z)
  <2>1. /\ Len(x[2]) = n + (l + 1)
        /\ \A i \in 1..n : Element(M, t, ps[i]) = x[2][i]
        /\ \A i \in 1..(l + 1) : r[i][2] = x[2][n + i]
    BY <1>2, <1>7, <1>13 DEF Listed
  <2>2. Len(x[2]) = (n + 1) + l
    BY <1>2, <2>1
  <2>3. Element(M, t, p) = x[2][n + 1]
    BY <1>5, <1>9, <1>13, <2>1
  <2>4. \A i \in 1..(n + 1) : i \in 1..n \/ i = n + 1
    BY <1>2
  <2>5. \A i \in 1..(n + 1) : Element(M, t, qs[i]) = x[2][i]
    BY <1>9, <1>13, <2>1, <2>3, <2>4
  <2>6. \A i \in 1..l : z[i][2] = x[2][(n + 1) + i]
    <3> TAKE i \in 1..l
    <3>1. z[i][2] = x[2][n + (i + 1)]
      BY <1>3, <2>1
    <3>2. n + (i + 1) = (n + 1) + i
      BY <1>2
    <3> QED
      BY <3>1, <3>2
  <2> QED
    BY <1>2, <1>6, <2>2, <2>5, <2>6 DEF Listed
<1>14. ASSUME Kind[t] = "set" PROVE Gotten(M, t, x, qs, z)
  <2> DEFINE A == {Element(M, t, ps[i]) : i \in 1..n}  B == {Element(M, t, qs[i]) : i \in 1..(n + 1)}
             C == {r[i][2] : i \in 1..(l + 1)}  D == {z[i][2] : i \in 1..l}
  <2>1. x[2] = A \cup C
    BY <1>2, <1>7, <1>14 DEF Gotten
  <2>2. B = A \cup {r[1][2]}
    BY <1>9, <1>12, <1>14
  <2>3. C = D \cup {r[1][2]}
    <3>1. \A y \in D : y \in C
      BY <1>3
    <3>2. \A y \in C : y \in D \cup {r[1][2]}
      BY <1>4
    <3>3. r[1][2] \in C
      BY <1>5
    <3> HIDE DEF C, D
    <3> QED
      BY <3>1, <3>2, <3>3
  <2> HIDE DEF A, B, C, D
  <2>4. x[2] = B \cup D
    BY <2>1, <2>2, <2>3
  <2> QED
    BY <1>2, <1>6, <2>4 DEF Gotten, B, D
<1>15. ASSUME Kind[t] = "map" PROVE Mapped(M, t, x, qs, z)
  <2>0. Element(M, t, p) = r[1]
    BY <1>8, <1>15 DEF Element, Stands
  <2> DEFINE A == {Element(M, t, ps[i]) : i \in 1..n}  B == {Element(M, t, qs[i]) : i \in 1..(n + 1)}
             C == {r[i] : i \in 1..(l + 1)}  D == {z[i] : i \in 1..l}
  <2>1. /\ x[2] = A \cup C
        /\ \A i, j \in 1..n : Element(M, t, ps[i])[1] = Element(M, t, ps[j])[1] => i = j
        /\ \A i, j \in 1..(l + 1) : r[i][1] = r[j][1] => i = j
        /\ \A i \in 1..n, j \in 1..(l + 1) : Element(M, t, ps[i])[1] # r[j][1]
    BY <1>2, <1>7, <1>15 DEF Mapped
  <2>2. B = A \cup {r[1]}
    BY <1>12, <2>0
  <2>3. C = D \cup {r[1]}
    <3>1. \A y \in D : y \in C
      BY <1>3
    <3>2. \A y \in C : y \in D \cup {r[1]}
      BY <1>4
    <3>3. r[1] \in C
      BY <1>5
    <3> HIDE DEF C, D
    <3> QED
      BY <3>1, <3>2, <3>3
  <2> HIDE DEF A, B, C, D
  <2>4. x[2] = B \cup D
    BY <2>1, <2>2, <2>3
  <2>5. ASSUME NEW i \in 1..(n + 1), NEW j \in 1..(n + 1),
               Element(M, t, qs[i])[1] = Element(M, t, qs[j])[1]
        PROVE  i = j
    <3>1. CASE i = k /\ qs[i] = p
      <4>1. \A m \in 1..n : qs[j] # ps[m]
        BY <1>5, <2>0, <2>1, <2>5, <3>1
      <4> QED
        BY <1>6, <3>1, <4>1
    <3>2. CASE j = k /\ qs[j] = p
      <4>1. \A m \in 1..n : qs[i] # ps[m]
        BY <1>5, <2>0, <2>1, <2>5, <3>2
      <4> QED
        BY <1>6, <3>2, <4>1
    <3>3. CASE ~(i = k /\ qs[i] = p) /\ ~(j = k /\ qs[j] = p)
      <4>1. PICK e \in 1..n : qs[i] = ps[e] /\ e = IF i < k THEN i ELSE i - 1
        BY <1>6, <3>3
      <4>2. PICK m \in 1..n : qs[j] = ps[m] /\ m = IF j < k THEN j ELSE j - 1
        BY <1>6, <3>3
      <4>3. e = m
        BY <2>1, <2>5, <4>1, <4>2
      <4>4. i # k /\ j # k
        BY <1>6, <3>3
      <4> QED
        BY <1>2, <1>6, <4>1, <4>2, <4>3, <4>4
    <3> QED
      BY <3>1, <3>2, <3>3
  <2>6. \A i, j \in 1..l : z[i][1] = z[j][1] => i = j
    <3> TAKE i \in 1..l, j \in 1..l
    <3>1. PICK u, v : u = i + 1 /\ v = j + 1
      OBVIOUS
    <3>2. z[i] = r[u] /\ z[j] = r[v] /\ u \in 1..(l + 1) /\ v \in 1..(l + 1)
      BY <1>3, <3>1
    <3>3. r[u][1] = r[v][1] => u = v
      BY <2>1, <3>2
    <3> QED
      BY <3>1, <3>2, <3>3
  <2>7. ASSUME NEW i \in 1..(n + 1), NEW j \in 1..l
        PROVE  Element(M, t, qs[i])[1] # z[j][1]
    <3>1. z[j] = r[j + 1] /\ j + 1 \in 1..(l + 1) /\ j + 1 # 1
      BY <1>3
    <3>2. r[1][1] # z[j][1]
      BY <1>5, <2>1, <3>1
    <3>3. \A m \in 1..n : Element(M, t, ps[m])[1] # z[j][1]
      BY <2>1, <3>1
    <3> QED
      BY <1>6, <2>0, <3>2, <3>3
  <2> QED
    BY <1>2, <1>6, <2>4, <2>5, <2>6, <2>7 DEF Mapped, B, D
<1>16. Written(M, t, x, qs, z)
  BY <1>2, <1>6, <1>10, <1>11, <1>13, <1>14, <1>15 DEF Written
<1> QED
  BY <1>1, <1>16

------------------------------------------------------------------------------

\* A value can be read back if all its enumerators are registered.
LEMMA OkStands ==
  ASSUME NEW M, Recorded(M), NEW t, NEW x, <<t, x>> \in Values, NEW v, Stands(M, t, v, x)
  PROVE  Ok(M, t, v) <=> <<t, x>> \in Registered
<1>1. <<t, x>> \in Registered <=>
        /\ Kind[t] = "enum" => x[2] \in Enumerators[t]
        /\ Container(t) => Parts(t, x) \subseteq Registered
  BY ValuesAssumption
<1>2. CASE Container(t)
  <2> DEFINE u == <<t, v[2]>>
  <2>1. v[1] = "table" /\ u \in DOMAIN M /\ M[u].value = x
    BY <1>2 DEF Stands, Denoted, Meaning
  <2>2. u[1] = t
    OBVIOUS
  <2> HIDE DEF u
  <2>3. M[u].ok <=> <<t, x>> \in Registered
    BY <2>1, <2>2 DEF Recorded
  <2> QED
    BY <1>2, <2>1, <2>3 DEF Ok, u
<1>3. CASE ~Container(t)
  <2>1. Fits(Under(t), v) /\ Read(t, v) = x
    BY <1>3 DEF Stands, Denoted, Meaning
  <2>2. Kind[t] = "enum" => x[2] = Cast(Elem[t], v)[2]
    BY <2>1 DEF Read
  <2> QED
    BY <1>1, <1>3, <2>1, <2>2 DEF Ok, Readable, Enumerated
<1> QED
  BY <1>2, <1>3

\* What stands for a value is not nil.
LEMMA StandsSome ==
  ASSUME NEW M, NEW t, NEW v, Denoted(M, t, v)
  PROVE  v # <<Nil>> /\ Has(M, t, v)
<1>1. v = <<Nil>> => v[1] = Nil
  OBVIOUS
<1>2. Container(t) => v[1] = "table"
  BY DEF Denoted
<1>3. v # <<Nil>>
  BY <1>1, <1>2, ConvertAssumption DEF Denoted
<1> QED
  BY <1>3 DEF Denoted, Has

\* A table that has been written is what its value is made of.
LEMMA WholeRead ==
  ASSUME NEW M, Recorded(M), NEW t, Container(t), NEW x, <<t, x>> \in Values,
         NEW ps, IsSeq(ps), Written(M, t, x, ps, << >>)
  PROVE  /\ \A i \in 1..Len(ps) :
              /\ ps[i][1] # <<Nil>> /\ \A j \in 1..Len(ps) : ps[i][1] = ps[j][1] => i = j
              /\ Has(M, Elem[t], ps[i][2])
              /\ Kind[t] = "map" => Has(M, Key[t], ps[i][1])
         /\ <<t, x>> \in Registered <=> \A i \in 1..Len(ps) : Fine(M, t, ps[i])
         /\ x = <<Kind[t], Collected(M, t, ps, Len(ps))>>
<1>1. PICK n \in Nat : n = Len(ps)
  BY DEF IsSeq
<1>2. /\ \A i \in 1..n :
           /\ Denoted(M, Elem[t], ps[i][2])
           /\ IF Kind[t] = "map" THEN Denoted(M, Key[t], ps[i][1]) ELSE ps[i][1] = <<"integer", i>>
      /\ Kind[t] = "list" => Listed(M, t, x, ps, << >>)
      /\ Kind[t] = "set" => Gotten(M, t, x, ps, << >>)
      /\ Kind[t] = "map" => Mapped(M, t, x, ps, << >>)
  BY <1>1 DEF Written
<1>3. /\ Parts(t, x) \subseteq Values /\ Formed(t, x)
      /\ <<t, x>> \in Registered <=>
           /\ Kind[t] = "enum" => x[2] \in Enumerators[t]
           /\ Container(t) => Parts(t, x) \subseteq Registered
  BY ValuesAssumption
<1>4. <<t, x>> \in Registered <=> Parts(t, x) \subseteq Registered
  BY <1>3 DEF Container
<1>5. Len(<< >>) = 0 /\ \A i \in 1..0 : FALSE
  BY EmptyIs
<1>6. ASSUME Kind[t] = "list"
      PROVE  /\ Len(x[2]) = n /\ \A i \in 1..n : Element(M, t, ps[i]) = x[2][i]
             /\ x = <<"list", x[2]>> /\ IsSeq(x[2])
  <2>1. Len(x[2]) = n + 0
    BY <1>1, <1>2, <1>5, <1>6 DEF Listed
  <2> QED
    BY <1>1, <1>2, <1>3, <1>6, <2>1 DEF Listed, Formed
<1>7. ASSUME Kind[t] = "set"
      PROVE  x = <<"set", {Element(M, t, ps[i]) : i \in 1..n}>>
  <2> DEFINE A == {Element(M, t, ps[i]) : i \in 1..n}  B == {<< >>[i][2] : i \in 1..Len(<< >>)}
  <2>1. x[2] = A \cup B
    BY <1>1, <1>2, <1>7 DEF Gotten
  <2>2. B = {}
    BY <1>5
  <2> HIDE DEF A, B
  <2>3. x[2] = A
    BY <2>1, <2>2
  <2>4. x = <<"set", x[2]>>
    BY <1>3, <1>7 DEF Formed
  <2> QED
    BY <2>3, <2>4 DEF A
<1>8. ASSUME Kind[t] = "map"
      PROVE  /\ x = <<"map", {Element(M, t, ps[i]) : i \in 1..n}>>
             /\ \A i, j \in 1..n : Element(M, t, ps[i])[1] = Element(M, t, ps[j])[1] => i = j
  <2> DEFINE A == {Element(M, t, ps[i]) : i \in 1..n}  B == {<< >>[i] : i \in 1..Len(<< >>)}
  <2>1. x[2] = A \cup B
    BY <1>1, <1>2, <1>8 DEF Mapped
  <2>2. B = {}
    BY <1>5
  <2> HIDE DEF A, B
  <2>3. x[2] = A
    BY <2>1, <2>2
  <2>4. x = <<"map", x[2]>>
    BY <1>3, <1>8 DEF Formed
  <2>5. \A i, j \in 1..n : Element(M, t, ps[i])[1] = Element(M, t, ps[j])[1] => i = j
    BY <1>1, <1>2, <1>8 DEF Mapped
  <2> QED
    BY <2>3, <2>4, <2>5 DEF A
<1>9. ASSUME NEW i \in 1..n
      PROVE  /\ ps[i][1] # <<Nil>> /\ \A j \in 1..n : ps[i][1] = ps[j][1] => i = j
             /\ Has(M, Elem[t], ps[i][2])
             /\ Kind[t] = "map" => Has(M, Key[t], ps[i][1])
  <2>1. Has(M, Elem[t], ps[i][2])
    BY <1>2, StandsSome
  <2>2. CASE Kind[t] = "map"
    <3>1. ps[i][1] # <<Nil>> /\ Has(M, Key[t], ps[i][1])
      BY <1>2, <2>2, StandsSome
    <3>2. \A j \in 1..n : ps[i][1] = ps[j][1] => Element(M, t, ps[i])[1] = Element(M, t, ps[j])[1]
      BY <2>2 DEF Element
    <3> QED
      BY <1>8, <2>1, <2>2, <3>1, <3>2
  <2>3. CASE Kind[t] # "map"
    <3>1. \A j \in 1..n : ps[j][1] = <<"integer", j>> /\ ps[j][1][1] = "integer" /\ ps[j][1][2] = j
      BY <1>2, <2>3
    <3>2. <<Nil>>[1] # "integer"
      BY ConvertAssumption
    <3> QED
      BY <2>1, <2>3, <3>1, <3>2
  <2> QED
    BY <2>2, <2>3
<1>10. x = <<Kind[t], Collected(M, t, ps, n)>>
  <2>1. CASE Kind[t] = "list"
    <3>1. x[2] = [i \in 1..n |-> Element(M, t, ps[i])]
      BY <1>6, <2>1 DEF IsSeq
    <3> QED
      BY <1>6, <2>1, <3>1 DEF Collected
  <2>2. CASE Kind[t] = "set"
    <3>1. Collected(M, t, ps, n) = {Element(M, t, ps[i]) : i \in 1..n}
      BY <2>2 DEF Collected
    <3> QED
      BY <1>7, <2>2, <3>1
  <2>3. CASE Kind[t] = "map"
    <3> DEFINE W == {m \in 1..n :
                       \A k \in 1..(m - 1) : Element(M, t, ps[k])[1] # Element(M, t, ps[m])[1]}
    <3>1. \A m \in 1..n : \A k \in 1..(m - 1) : k \in 1..n /\ k # m
      BY <1>1
    <3>2. W = 1..n
      BY <1>8, <2>3, <3>1
    <3>3. Collected(M, t, ps, n) = {Element(M, t, ps[i]) : i \in W}
      BY <2>3 DEF Collected
    <3> HIDE DEF W
    <3>4. Collected(M, t, ps, n) = {Element(M, t, ps[i]) : i \in 1..n}
      BY <3>2, <3>3
    <3> QED
      BY <1>8, <2>3, <3>4
  <2> QED
    BY <2>1, <2>2, <2>3 DEF Container
<1>11. ASSUME NEW i \in 1..n
       PROVE  /\ <<Elem[t], Meaning(M, Elem[t], ps[i][2])>> \in Parts(t, x)
              /\ Kind[t] = "map" => <<Key[t], Meaning(M, Key[t], ps[i][1])>> \in Parts(t, x)
  <2>1. CASE Kind[t] = "list"
    <3>1. i \in 1..Len(x[2]) /\ x[2][i] = Meaning(M, Elem[t], ps[i][2])
      BY <1>6, <2>1 DEF Element
    <3> QED
      BY <2>1, <3>1 DEF Parts
  <2>2. CASE Kind[t] = "set"
    <3>1. x[2] = {Element(M, t, ps[j]) : j \in 1..n}
      BY <1>7, <2>2
    <3>2. Meaning(M, Elem[t], ps[i][2]) \in x[2]
      BY <2>2, <3>1 DEF Element
    <3> QED
      BY <2>2, <3>2 DEF Parts
  <2>3. CASE Kind[t] = "map"
    <3>1. x[2] = {Element(M, t, ps[j]) : j \in 1..n}
      BY <1>8, <2>3
    <3>2. PICK y \in x[2] : y = <<Meaning(M, Key[t], ps[i][1]), Meaning(M, Elem[t], ps[i][2])>>
      BY <2>3, <3>1 DEF Element
    <3>3. Parts(t, x) = UNION {{<<Key[t], z[1]>>, <<Elem[t], z[2]>>} : z \in x[2]}
      BY <2>3 DEF Parts
    <3>4. <<Key[t], y[1]>> \in Parts(t, x) /\ <<Elem[t], y[2]>> \in Parts(t, x)
      BY <3>3
    <3> QED
      BY <3>2, <3>4
  <2> QED
    BY <2>1, <2>2, <2>3 DEF Container
<1>12. ASSUME NEW vt \in Parts(t, x)
       PROVE  \E i \in 1..n :
                \/ vt = <<Elem[t], Meaning(M, Elem[t], ps[i][2])>>
                \/ Kind[t] = "map" /\ vt = <<Key[t], Meaning(M, Key[t], ps[i][1])>>
  <2>1. CASE Kind[t] = "list"
    <3>1. PICK i \in 1..n : vt = <<Elem[t], x[2][i]>>
      BY <1>6, <1>12, <2>1 DEF Parts
    <3> QED
      BY <1>6, <2>1, <3>1 DEF Element
  <2>2. CASE Kind[t] = "set"
    <3>1. PICK y \in x[2] : vt = <<Elem[t], y>>
      BY <1>12, <2>2 DEF Parts
    <3>2. x[2] = {Element(M, t, ps[j]) : j \in 1..n}
      BY <1>7, <2>2
    <3> QED
      BY <2>2, <3>1, <3>2 DEF Element
  <2>3. CASE Kind[t] = "map"
    <3>1. PICK y \in x[2] : vt = <<Key[t], y[1]>> \/ vt = <<Elem[t], y[2]>>
      BY <1>12, <2>3 DEF Parts
    <3>2. x[2] = {Element(M, t, ps[j]) : j \in 1..n}
      BY <1>8, <2>3
    <3>3. PICK i \in 1..n : y = <<Meaning(M, Key[t], ps[i][1]), Meaning(M, Elem[t], ps[i][2])>>
      BY <2>3, <3>2 DEF Element
    <3> QED
      BY <2>3, <3>1, <3>3
  <2> QED
    BY <2>1, <2>2, <2>3 DEF Container
<1>13. ASSUME NEW i \in 1..n
       PROVE  /\ Ok(M, Elem[t], ps[i][2]) <=>
                   <<Elem[t], Meaning(M, Elem[t], ps[i][2])>> \in Registered
              /\ Kind[t] = "map" =>
                   (Ok(M, Key[t], ps[i][1]) <=>
                      <<Key[t], Meaning(M, Key[t], ps[i][1])>> \in Registered)
  <2>1. /\ <<Elem[t], Meaning(M, Elem[t], ps[i][2])>> \in Values
        /\ Stands(M, Elem[t], ps[i][2], Meaning(M, Elem[t], ps[i][2]))
    BY <1>2, <1>3, <1>11 DEF Stands
  <2>2. Kind[t] = "map" => /\ <<Key[t], Meaning(M, Key[t], ps[i][1])>> \in Values
                           /\ Stands(M, Key[t], ps[i][1], Meaning(M, Key[t], ps[i][1]))
    BY <1>2, <1>3, <1>11 DEF Stands
  <2> QED
    BY <2>1, <2>2, OkStands
<1>14. <<t, x>> \in Registered <=> \A i \in 1..n : Fine(M, t, ps[i])
  <2>1. ASSUME Parts(t, x) \subseteq Registered, NEW i \in 1..n PROVE Fine(M, t, ps[i])
    BY <1>11, <1>13, <2>1 DEF Fine
  <2>2. ASSUME \A i \in 1..n : Fine(M, t, ps[i]), NEW vt \in Parts(t, x) PROVE vt \in Registered
    BY <1>12, <1>13, <2>2 DEF Fine
  <2> QED
    BY <1>4, <2>1, <2>2
<1> QED
  BY <1>1, <1>9, <1>10, <1>14

------------------------------------------------------------------------------

LEMMA WriteFacts ==
  ASSUME Shaped, Writing, ~error, NEW n, n = Len(containers)
  PROVE  /\ Typed /\ IsSeq(stack) /\ IsSeq(heap) /\ IsSeq(containers)
         /\ n \in Nat /\ Len(stack) \in Nat /\ Len(heap) \in Nat
         /\ containers # << >> => n \in 1..n /\ F = containers[n]
         /\ containers = << >> => n = 0
         /\ \A k \in 1..n :
              /\ IsContainer(containers[k]) /\ IsWritten(containers[k])
              /\ containers[k].at \in 1..Len(stack) /\ containers[k].at <= containers[n].at
              /\ stack[containers[k].at][1] = "table" /\ TableOf(k) \in 1..Len(heap)
              /\ k < n => containers[k].at < containers[n].at
              /\ k < n /\ containers[k].stage = "value" => containers[k].at + 1 < containers[n].at
              /\ containers[k].stage = "value" => containers[k].at + 1 \in 1..Len(stack)
<1>1. /\ Typed /\ IsSeq(stack) /\ IsSeq(heap) /\ IsSeq(containers)
      /\ n \in Nat /\ Len(stack) \in Nat /\ Len(heap) \in Nat
      /\ \A k \in 1..n : IsContainer(containers[k]) /\ containers[k].at \in Nat \ {0}
      /\ containers # << >> => n > 0 /\ F = containers[n]
      /\ containers = << >> => n = 0
  <2>1. Typed
    BY DEF Shaped
  <2> QED
    BY <2>1, Facts DEF Typed
<1>2. /\ Stacked
      /\ Len(stack) \in {Wanted - 1, Wanted}
  <2>1. pc[1] \in {"to", "back", "end"}
    BY DEF Shaped, Typed, Tagged, Directed
  <2> QED
    BY <2>1 DEF Shaped, WritePlaced
<1>3. ASSUME NEW k \in 1..n
      PROVE  /\ IsWritten(containers[k])
             /\ containers[k].at \in 1..Len(stack) /\ stack[containers[k].at][1] = "table"
             /\ k < n => /\ containers[k].at < containers[n].at
                         /\ containers[k + 1].at = Height(containers[k])
                         /\ k + 1 \in 1..n
                         /\ containers[k + 1].at <= containers[n].at
  <2>1. /\ IsWritten(containers[k]) /\ containers[k].at <= Len(stack)
        /\ stack[containers[k].at][1] = "table"
        /\ \A j \in (k + 1)..n : containers[k].at < containers[j].at
        /\ k < n => containers[k + 1].at = Height(containers[k])
    BY <1>2 DEF Stacked
  <2>2. containers[k].at \in 1..Len(stack)
    BY <1>1, <2>1
  <2>3. k < n => k + 1 \in 1..n /\ n \in (k + 1)..n
    BY <1>1
  <2>4. k < n => containers[k + 1].at <= containers[n].at
    <3>1. CASE k + 1 = n
      BY <1>1, <2>3, <3>1
    <3>2. CASE k + 1 < n
      <4>1. k + 1 \in 1..n /\ n \in ((k + 1) + 1)..n
        BY <1>1, <3>2
      <4>2. containers[k + 1].at < containers[n].at
        BY <1>2, <4>1 DEF Stacked
      <4> QED
        BY <1>1, <4>1, <4>2
    <3> QED
      BY <1>1, <3>1, <3>2
  <2> QED
    BY <2>1, <2>2, <2>3, <2>4
<1>4. ASSUME NEW k \in 1..n
      PROVE  TableOf(k) \in 1..Len(heap)
  <2>1. Nil # "table"
    BY ConvertAssumption
  <2>2. LuaValueOf(stack[containers[k].at], Len(heap)) /\ stack[containers[k].at][1] = "table"
    BY <1>1, <1>3 DEF Typed, LuaValue
  <2>3. stack[containers[k].at] # <<Nil>>
    BY <2>1, <2>2
  <2> QED
    BY <2>2, <2>3 DEF LuaValueOf, TableOf
<1>5. ASSUME NEW k \in 1..n
      PROVE  containers[k].at <= containers[n].at
  BY <1>1, <1>3
<1>6. ASSUME NEW k \in 1..n, k < n, containers[k].stage = "value"
      PROVE  containers[k].at + 1 < containers[n].at
  <2>1. Height(containers[k]) = containers[k].at + 2
    BY <1>6 DEF Height
  <2>2. k + 1 \in 1..n /\ n \in 1..n
    BY <1>1, <1>3, <1>6
  <2> QED
    BY <1>1, <1>3, <1>6, <2>1, <2>2
<1>7. ASSUME NEW k \in 1..n, containers[k].stage = "value"
      PROVE  containers[k].at + 1 \in 1..Len(stack)
  <2>1. CASE k < n
    <3>1. n \in 1..n
      BY <1>1, <2>1
    <3> QED
      BY <1>1, <1>3, <1>6, <1>7, <2>1, <3>1
  <2>2. CASE k = n
    <3>1. containers # << >>
      BY <1>1, <2>2
    <3>2. Wanted = containers[n].at + 2
      BY <1>1, <1>7, <2>2, <3>1 DEF Wanted, Height
    <3> QED
      BY <1>1, <1>2, <2>2, <3>2
  <2> QED
    BY <1>1, <2>1, <2>2
<1>8. containers # << >> => n \in 1..n
  BY <1>1
<1> QED
  BY <1>1, <1>3, <1>4, <1>5, <1>6, <1>7, <1>8

LEMMA UnderwayKept ==
  ASSUME NEW M, NEW N, Extends(N, M), NEW k, NEW f, NEW h, Underway(M, k, f, h),
         heap'[h] = heap[h],
         f.stage = "value" => stack'[f.at + 1] = stack[f.at + 1],
         \A t, x : Due(M, k, t, x) => Due(N, k, t, x)'
  PROVE  Underway(N, k, f, h)'
<1>1. PICK ps, y : ps = heap[h] /\ y = stack[f.at + 1]
  OBVIOUS
<1>2. heap'[h] = ps /\ (f.stage = "value" => stack'[f.at + 1] = y)
  BY <1>1
<1>3. <<f.type, h>> \in DOMAIN N /\ N[<<f.type, h>>] = M[<<f.type, h>>]
  BY DEF Underway, Extends
<1>4. Written(N, f.type, N[<<f.type, h>>].value, ps, f.items)
  BY <1>1, <1>3, WrittenKept DEF Underway
<1>5. Written(N, f.type, N[<<f.type, h>>].value, heap[h], f.items)'
  <2>1. PICK x, t, r : x = N[<<f.type, h>>].value /\ t = f.type /\ r = f.items
    OBVIOUS
  <2>2. Written(N, t, x, ps, r)
    BY <1>4, <2>1
  <2> QED
    BY <1>2, <2>1, <2>2 
<1>6. f.stage = "key" => Kind[f.type] = "map" /\ Due(N, k, Key[f.type], f.items[1][1])'
  BY DEF Underway
<1>7. f.stage = "value" =>
        /\ IF Kind[f.type] = "map" THEN Stands(N, Key[f.type], y, f.items[1][1])
                                   ELSE y = <<"integer", f.items[1][1]>>
        /\ Due(N, k, Elem[f.type], f.items[1][2])'
  BY <1>1, StandsKept DEF Underway
<1> QED
  BY <1>2, <1>3, <1>5, <1>6, <1>7 DEF Underway

LEMMA DueKept ==
  ASSUME NEW M, NEW N, Extends(N, M), NEW k, k < Len(containers), k < Len(containers'),
         <<containers[k + 1].type, TableOf(k + 1)>> \in DOMAIN M,
         containers'[k + 1].type = containers[k + 1].type, TableOf(k + 1)' = TableOf(k + 1)
  PROVE  \A t, x : Due(M, k, t, x) => Due(N, k, t, x)'
<1> TAKE t, x
<1>1. PICK h, m : h = TableOf(k + 1) /\ m = containers[k + 1].type
  OBVIOUS
<1>2. TableOf(k + 1)' = h /\ containers'[k + 1].type = m
  BY <1>1
<1> SUFFICES ASSUME Due(M, k, t, x) PROVE Due(N, k, t, x)'
  OBVIOUS
<1>3. m = t /\ M[<<t, h>>].value = x
  BY <1>1 DEF Due
<1>4. N[<<t, h>>] = M[<<t, h>>]
  BY <1>1, <1>3 DEF Extends
<1> QED
  BY <1>2, <1>3, <1>4 DEF Due

LEMMA DenotingFacts ==
  ASSUME NEW M, Denoting(M), NEW n, n = Len(containers)
  PROVE  /\ Recorded(M) /\ Due(M, 0, origin.type, origin.value)
         /\ \A u \in DOMAIN M : Whole(M, u) \/ \E k \in 1..n : TableOf(k) = u[2]
         /\ \A k \in 1..n :
              /\ Underway(M, k, containers[k], TableOf(k))
              /\ <<containers[k].type, TableOf(k)>> \in DOMAIN M
              /\ \A j \in 1..n : TableOf(j) = TableOf(k) => j = k
         /\ Extends(M, M)
  BY DEF Denoting, Underway, Extends

\* What is converted for a container but the innermost is another container.
LEMMA OuterDue ==
  ASSUME Shaped, Writing, ~error, NEW M, NEW N, Denoting(M), Extends(N, M),
         NEW n, n = Len(containers), NEW k \in Nat, k < n, k < Len(containers'),
         containers'[k + 1].type = containers[k + 1].type,
         containers'[k + 1].at = containers[k + 1].at,
         \A j \in 1..containers[n].at : stack'[j] = stack[j]
  PROVE  \A t, x : Due(M, k, t, x) => Due(N, k, t, x)'
<1>1. n \in Nat /\ k + 1 \in 1..n
  BY WriteFacts
<1>2. PICK a : a = containers[k + 1].at /\ a = containers'[k + 1].at
  OBVIOUS
<1>3. a \in 1..containers[n].at
  <2>1. a \in 1..Len(stack) /\ a <= containers[n].at /\ containers[n].at \in 1..Len(stack)
    <3>1. n \in 1..n
      BY <1>1
    <3> QED
      BY <1>1, <1>2, <3>1, WriteFacts
  <2> QED
    BY <2>1
<1>4. TableOf(k + 1)' = TableOf(k + 1)
  BY <1>2, <1>3 DEF TableOf
<1>5. <<containers[k + 1].type, TableOf(k + 1)>> \in DOMAIN M
  BY <1>1, DenotingFacts
<1> QED
  BY <1>4, <1>5, DueKept

LEMMA OuterKept ==
  ASSUME Shaped, Writing, ~error, NEW M, NEW N, Denoting(M), Extends(N, M),
         NEW n, n = Len(containers), NEW k \in 1..n, containers'[k] = containers[k],
         k < n \/ \A t, x : Due(M, k, t, x) => Due(N, k, t, x)',
         k < n => /\ k < Len(containers')
                  /\ containers'[k + 1].type = containers[k + 1].type
                  /\ containers'[k + 1].at = containers[k + 1].at,
         \A j \in 1..containers[n].at : stack'[j] = stack[j],
         k = n => \A j \in 1..Len(stack) : stack'[j] = stack[j],
         heap'[TableOf(k)] = heap[TableOf(k)]
  PROVE  Underway(N, k, containers[k], TableOf(k))' /\ TableOf(k)' = TableOf(k)
<1>1. PICK f, h : f = containers[k] /\ f = containers'[k] /\ h = TableOf(k)
  OBVIOUS
<1>2. /\ n \in Nat /\ Len(stack) \in Nat /\ f.at \in 1..Len(stack) /\ f.at <= containers[n].at
      /\ k < n /\ f.stage = "value" => f.at + 1 < containers[n].at
      /\ f.stage = "value" => f.at + 1 \in 1..Len(stack)
  BY <1>1, WriteFacts
<1>3. containers[n].at \in Nat
  <2>1. n \in 1..n
    BY <1>2
  <2> QED
    BY <2>1, WriteFacts
<1>4. f.at \in 1..containers[n].at
  BY <1>2, <1>3
<1>5. TableOf(k)' = h
  BY <1>1, <1>4 DEF TableOf
<1>6. f.stage = "value" => stack'[f.at + 1] = stack[f.at + 1]
  <2>1. CASE k < n
    <3>1. f.stage = "value" => f.at + 1 \in 1..containers[n].at
      BY <1>2, <1>3, <2>1
    <3> QED
      BY <3>1
  <2>2. CASE k = n
    BY <1>2, <2>2
  <2> QED
    BY <1>2, <2>1, <2>2
<1>7. \A t, x : Due(M, k, t, x) => Due(N, k, t, x)'
  BY OuterDue
<1>8. Underway(M, k, f, h)
  BY <1>1, <1>2, DenotingFacts
<1>9. heap'[h] = heap[h]
  BY <1>1
<1>10. Underway(N, k, f, h)'
  BY <1>6, <1>7, <1>8, <1>9, UnderwayKept
<1>11. Underway(N, k, containers[k], TableOf(k))'
  BY <1>1, <1>5, <1>10 DEF Underway
<1> QED
  BY <1>1, <1>5, <1>11

\* When a value without a NUL is written, so is all of which it is made.
Pure == <<origin.type, origin.value>> \in Exact

ExactItems(t, q) ==
  \A i \in 1..Len(q) : /\ <<Elem[t], q[i][2]>> \in Exact
                       /\ Kind[t] = "map" => <<Key[t], q[i][1]>> \in Exact

Exactly ==
  Writing /\ ~error /\ Pure =>
    /\ pc[1] = "to" => <<pc[2], pc[3]>> \in Exact
    /\ \A k \in 1..Len(containers) : ExactItems(containers[k].type, containers[k].items)

LEMMA PartsExact ==
  ASSUME NEW t, NEW x, <<t, x>> \in Values, <<t, x>> \in Exact
  PROVE  Parts(t, x) \subseteq Exact
<1>1. PICK vt : vt = <<t, x>>
  OBVIOUS
<1>2. vt[1] = t /\ vt[2] = x
  BY <1>1
<1>3. vt \in Exact => Parts(vt[1], vt[2]) \subseteq Exact
  BY <1>1, ValuesAssumption
<1> QED
  BY <1>1, <1>2, <1>3

LEMMA ItemsExact ==
  ASSUME NEW t, NEW x, <<t, x>> \in Values, <<t, x>> \in Exact, Container(t), NEW q \in Items(t, x)
  PROVE  ExactItems(t, q)
<1>1. Formed(t, x) /\ Parts(t, x) \subseteq Exact /\ IsSeq(q)
  BY PartsExact, ItemsWritten, ValuesAssumption
<1>2. CASE Kind[t] = "list"
  <2>1. q = [i \in 1..Len(x[2]) |-> <<i, x[2][i]>>]
    BY <1>2 DEF Items
  <2>2. \A i \in 1..Len(x[2]) : <<Elem[t], x[2][i]>> \in Exact
    BY <1>1, <1>2 DEF Parts
  <2>3. 1..Len(q) = 1..Len(x[2])
    <3>1. q = [i \in 1..Len(q) |-> q[i]]
      BY <1>1 DEF IsSeq
    <3> QED
      BY <2>1, <3>1
  <2> QED
    BY <1>2, <2>1, <2>2, <2>3 DEF ExactItems
<1>3. CASE Kind[t] = "map"
  <2>1. q \in [1..Cardinality(x[2]) -> x[2]]
    BY <1>3 DEF Items, SetToSeqs
  <2>2. \A y \in x[2] : <<Key[t], y[1]>> \in Exact /\ <<Elem[t], y[2]>> \in Exact
    BY <1>1, <1>3 DEF Parts
  <2>3. 1..Len(q) = 1..Cardinality(x[2])
    <3>1. q = [i \in 1..Len(q) |-> q[i]]
      BY <1>1 DEF IsSeq
    <3> QED
      BY <2>1, <3>1
  <2>4. \A i \in 1..Len(q) : q[i] \in x[2]
    BY <2>1, <2>3
  <2> QED
    BY <2>2, <2>4 DEF ExactItems
<1>4. CASE Kind[t] = "set"
  <2>1. PICK r \in [1..Cardinality(x[2]) -> x[2]] : q = [i \in 1..Len(r) |-> <<i, r[i]>>]
    BY <1>4 DEF Items, SetToSeqs
  <2>2. \A y \in x[2] : <<Elem[t], y>> \in Exact
    BY <1>1, <1>4 DEF Parts
  <2>3. 1..Len(q) = 1..Len(r) /\ 1..Len(r) = 1..Cardinality(x[2])
    <3>1. q = [i \in 1..Len(q) |-> q[i]]
      BY <1>1 DEF IsSeq
    <3>2. 1..Len(q) = 1..Len(r)
      BY <2>1, <3>1
    <3>3. Cardinality(x[2]) \in Nat
      BY <1>1, <1>4, FS_CardinalityType DEF Formed
    <3>4. Len(r) = Cardinality(x[2])
      BY <2>1, <3>3
    <3> QED
      BY <3>2, <3>4
  <2>4. \A i \in 1..Len(q) : q[i][2] = r[i] /\ r[i] \in x[2]
    BY <2>1, <2>3
  <2> QED
    BY <1>4, <2>2, <2>4 DEF ExactItems
<1> QED
  BY <1>2, <1>3, <1>4 DEF Container

LEMMA ExactlyInit == ConvertInit => Exactly
<1> SUFFICES ASSUME ConvertInit PROVE Exactly
  OBVIOUS
<1>1. \A k \in 1..Len(containers) : FALSE
  BY EmptyIs DEF ConvertInit
<1>2. ASSUME NEW vt \in Values, pc = <<"to", vt[1], vt[2]>>,
             origin = [type |-> vt[1], value |-> vt[2], by |-> "cpp"]
      PROVE  Exactly
  BY <1>1, <1>2 DEF Exactly, Pure
<1>3. ASSUME NEW s, pc = <<"from", s[3], 1>>
      PROVE  Exactly
  BY <1>1, <1>3 DEF Exactly
<1> QED
  BY <1>2, <1>3 DEF ConvertInit

\* The innermost container goes on with some of its items.
LEMMA ExactlyBecame ==
  ASSUME Exactly, Writing, ~error, Pure, NEW g, Became(g),
         ExactItems(g.type, g.items)
  PROVE  \A k \in 1..Len(containers') : ExactItems(containers'[k].type, containers'[k].items)
<1>1. PICK n : n = Len(containers)
  OBVIOUS
<1>2. /\ n \in Nat \ {0} /\ n = Len(containers') /\ containers'[n] = g
      /\ \A k \in 1..(n - 1) : containers'[k] = containers[k]
  BY <1>1 DEF Became
<1> TAKE k \in 1..Len(containers')
<1>3. k \in 1..(n - 1) \/ k = n
  BY <1>2
<1>4. \A j \in 1..(n - 1) : j \in 1..n
  BY <1>2
<1> QED
  BY <1>1, <1>2, <1>3, <1>4 DEF Exactly

LEMMA ExactlyStep ==
  ASSUME Shaped, Original, Exactly, [ConvertNext]_convertVars
  PROVE  Exactly'
<1> SUFFICES ASSUME Writing', ~error', Pure'
             PROVE  /\ pc'[1] = "to" => <<pc'[2], pc'[3]>> \in Exact
                    /\ \A k \in 1..Len(containers') :
                         ExactItems(containers'[k].type, containers'[k].items)
  BY DEF Exactly, ExactItems
<1>1. CASE UNCHANGED convertVars
  BY <1>1 DEF convertVars, Exactly, Writing, Pure, ExactItems
<1>2. ASSUME NEW above, ReadBack(above)
      PROVE  FALSE
  <2>1. origin = [type |-> origin.type, value |-> origin.value, by |-> origin.by]
    BY DEF Shaped, Typed, Tagged
  <2>2. origin' = [type |-> origin.type, value |-> origin.value, by |-> "back"]
    BY <1>2, <2>1 DEF ReadBack
  <2> QED
    BY <2>2 DEF Writing
<1>3. ASSUME Step
      PROVE  UNCHANGED origin /\ Writing /\ Pure /\ ~error
  <2>1. UNCHANGED origin
    BY <1>3 DEF Step, ToBasic, ToEnum, ToUnknown, ToOpen, ToNext, ToValue, ToSettled, ToClose,
       FromBasic, FromEnum, FromOpen, FromNext, FromClose, FromRaise, FromElement, FromKey,
       FromPair, Finish
  <2>2. ~error
    BY <1>3 DEF Step, ToBasic, ToEnum, ToUnknown, ToOpen, ToNext, ToValue, ToSettled, ToClose,
       FromBasic, FromEnum, FromOpen, FromNext, FromClose, FromRaise, FromElement, FromKey,
       FromPair, Finish
  <2> QED
    BY <2>1, <2>2 DEF Writing, Pure
<1>4. ASSUME Writing, ~error, Pure
      PROVE  /\ pc[1] = "to" => <<pc[2], pc[3]>> \in Exact
             /\ \A k \in 1..Len(containers) : ExactItems(containers[k].type, containers[k].items)
             /\ pc[1] = "to" => <<pc[2], pc[3]>> \in Values
  BY <1>4 DEF Exactly, Shaped, Directed
<1>5. CASE ToBasic \/ Finish
  <2>1. Step
    BY <1>5 DEF Step
  <2>2. pc'[1] # "to" /\ UNCHANGED containers
    BY <1>5 DEF ToBasic, Finish, Back
  <2> QED
    BY <1>3, <1>4, <2>1, <2>2
<1>6. CASE ToEnum
  <2>1. Step
    BY <1>6 DEF Step
  <2>2. /\ pc[1] = "to" /\ Kind[pc[2]] = "enum" /\ UNCHANGED containers
        /\ pc' = <<"to", Elem[pc[2]], <<Kind[Elem[pc[2]]], pc[3][2]>> >>
    BY <1>6 DEF ToEnum
  <2>3. <<Elem[pc[2]], <<Kind[Elem[pc[2]]], pc[3][2]>> >> \in Exact
    <3>1. Parts(pc[2], pc[3]) \subseteq Exact
      BY <1>3, <1>4, <2>1, <2>2, PartsExact
    <3> QED
      BY <2>2, <3>1 DEF Parts
  <2>4. pc'[2] = Elem[pc[2]] /\ pc'[3] = <<Kind[Elem[pc[2]]], pc[3][2]>>
    BY <2>2
  <2> QED
    BY <1>3, <1>4, <2>1, <2>2, <2>3, <2>4
<1>7. CASE ToUnknown
  BY <1>7 DEF ToUnknown
<1>8. CASE ToOpen
  <2>1. Step
    BY <1>8 DEF Step
  <2>2. pc[1] = "to" /\ Container(pc[2]) /\ pc'[1] # "to"
    BY <1>8 DEF ToOpen, Back
  <2>3. PICK q \in Items(pc[2], pc[3]) :
          containers' = Append(containers, [to |-> TRUE, type |-> pc[2], at |-> Len(stack) + 1,
                                            items |-> q, held |-> None, stage |-> "next"])
    BY <1>8 DEF ToOpen
  <2>4. PICK g : g = [to |-> TRUE, type |-> pc[2], at |-> Len(stack) + 1,
                      items |-> q, held |-> None, stage |-> "next"]
    OBVIOUS
  <2>5. g.type = pc[2] /\ g.items = q
    BY <2>4
  <2>6. ExactItems(g.type, g.items)
    BY <1>3, <1>4, <2>1, <2>2, <2>5, ItemsExact
  <2>7. IsSeq(containers)
    BY DEF Shaped, Typed
  <2>8. /\ Len(containers') = Len(containers) + 1 /\ containers'[Len(containers) + 1] = g
        /\ \A k \in 1..Len(containers) : containers'[k] = containers[k]
    BY <2>3, <2>4, <2>7, AppendSeq
  <2>9. ASSUME NEW k \in 1..Len(containers')
        PROVE  ExactItems(containers'[k].type, containers'[k].items)
    <3>1. k \in 1..Len(containers) \/ k = Len(containers) + 1
      BY <2>7, <2>8 DEF IsSeq
    <3> QED
      BY <1>3, <1>4, <2>1, <2>6, <2>8, <3>1
  <2> QED
    BY <2>2, <2>9
<1>9. ASSUME Step, IsBack, containers # << >>, F.to
      PROVE  /\ IsContainer(F) /\ IsWritten(F) /\ IsSeq(containers) /\ IsSeq(F.items)
             /\ ExactItems(F.type, F.items)
             /\ F.items # << >> => 1 \in 1..Len(F.items)
  <2>1. /\ IsContainer(F) /\ IsWritten(F) /\ IsSeq(containers) /\ IsSeq(F.items)
        /\ Len(containers) \in Nat \ {0} /\ F = containers[Len(containers)]
    BY <1>9, ToFacts DEF IsContainer
  <2>2. Len(containers) \in 1..Len(containers)
    BY <2>1
  <2>3. ExactItems(F.type, F.items)
    BY <1>3, <1>4, <1>9, <2>1, <2>2
  <2>4. F.items # << >> => 1 \in 1..Len(F.items)
    BY <2>1, TailIs
  <2> QED
    BY <2>1, <2>3, <2>4
<1>10. CASE ToNext
  <2>1. /\ Step /\ IsBack /\ containers # << >> /\ F.to /\ F.items # << >>
        /\ \/ /\ Kind[F.type] = "map" /\ Stay("key", F)
              /\ pc' = <<"to", Key[F.type], F.items[1][1]>>
           \/ /\ Kind[F.type] # "map" /\ Stay("value", F)
              /\ pc' = <<"to", Elem[F.type], F.items[1][2]>>
    BY <1>10 DEF Step, ToNext, ToFrame
  <2>2. <<pc'[2], pc'[3]>> \in Exact
    <3>1. /\ <<Elem[F.type], F.items[1][2]>> \in Exact
          /\ Kind[F.type] = "map" => <<Key[F.type], F.items[1][1]>> \in Exact
      BY <1>9, <2>1 DEF ExactItems
    <3>2. \A t, x : pc' = <<"to", t, x>> => pc'[2] = t /\ pc'[3] = x
      OBVIOUS
    <3> QED
      BY <2>1, <3>1, <3>2, Zenon
  <2>3. PICK s \in Stages : Stay(s, F)
    BY <2>1 DEF Stages
  <2>4. Became(At(F, s, F.items, F.held))
    BY <1>9, <2>1, <2>3, StaySame DEF Shaped
  <2>5. PICK g : g = At(F, s, F.items, F.held)
    OBVIOUS
  <2>6. g.type = F.type /\ g.items = F.items
    BY <1>9, <2>1, <2>5, AtLemma
  <2> QED
    BY <1>3, <1>9, <2>1, <2>2, <2>4, <2>5, <2>6, ExactlyBecame
<1>11. CASE ToValue
  <2>1. /\ Step /\ IsBack /\ containers # << >> /\ F.to /\ F.stage = "key"
        /\ Stay("value", F) /\ pc' = <<"to", Elem[F.type], F.items[1][2]>>
    BY <1>11 DEF Step, ToValue, ToFrame
  <2>2. F.items # << >>
    BY <1>9, <2>1 DEF IsWritten
  <2>3. <<pc'[2], pc'[3]>> \in Exact
    BY <1>9, <2>1, <2>2 DEF ExactItems
  <2>4. "value" \in Stages
    BY DEF Stages
  <2>5. Became(At(F, "value", F.items, F.held))
    BY <1>9, <2>1, <2>4, StaySame DEF Shaped
  <2>6. PICK g : g = At(F, "value", F.items, F.held)
    OBVIOUS
  <2>7. g.type = F.type /\ g.items = F.items
    BY <1>9, <2>1, <2>4, <2>6, AtLemma
  <2> QED
    BY <1>3, <1>9, <2>1, <2>3, <2>5, <2>6, <2>7, ExactlyBecame
<1>12. CASE ToSettled
  <2>1. /\ Step /\ IsBack /\ containers # << >> /\ F.to /\ F.items # << >>
        /\ pc' = <<"back", None>> /\ Became(At(F, "next", Tail(F.items), F.held))
    BY <1>12, ToSettledFacts DEF Step
  <2>2. pc'[1] # "to"
    BY <2>1
  <2>3. PICK g : g = At(F, "next", Tail(F.items), F.held)
    OBVIOUS
  <2>4. /\ IsSeq(Tail(F.items)) /\ Len(F.items) \in Nat \ {0}
        /\ Len(Tail(F.items)) = Len(F.items) - 1
        /\ \A i \in 1..(Len(F.items) - 1) : Tail(F.items)[i] = F.items[i + 1]
    BY <1>9, <2>1, TailIs
  <2>5. g.type = F.type /\ g.items = Tail(F.items)
    BY <1>9, <2>1, <2>3, <2>4, AtLemma DEF Stages
  <2>6. ExactItems(g.type, g.items)
    <3>1. ASSUME NEW i \in 1..(Len(F.items) - 1)
          PROVE  /\ <<Elem[F.type], Tail(F.items)[i][2]>> \in Exact
                 /\ Kind[F.type] = "map" => <<Key[F.type], Tail(F.items)[i][1]>> \in Exact
      <4>1. i + 1 \in 1..Len(F.items) /\ Tail(F.items)[i] = F.items[i + 1]
        BY <2>4
      <4> QED
        BY <1>9, <2>1, <4>1 DEF ExactItems
    <3> QED
      BY <2>4, <2>5, <3>1 DEF ExactItems
  <2> QED
    BY <1>3, <2>1, <2>2, <2>3, <2>6, ExactlyBecame
<1>13. CASE ToClose
  <2>1. Step /\ containers # << >> /\ containers' = Outer /\ pc'[1] # "to"
    BY <1>13 DEF Step, ToClose, Back
  <2>2. IsSeq(containers)
    BY DEF Shaped, Typed
  <2>3. /\ Len(containers) \in Nat \ {0} /\ Len(Outer) = Len(containers) - 1
        /\ \A k \in 1..(Len(containers) - 1) : Outer[k] = containers[k]
    BY <2>1, <2>2, OuterSeq, Innermost
  <2>4. ASSUME NEW k \in 1..Len(containers')
        PROVE  ExactItems(containers'[k].type, containers'[k].items)
    <3>1. k \in 1..(Len(containers) - 1) /\ k \in 1..Len(containers)
      BY <2>1, <2>3
    <3>2. containers'[k] = containers[k]
      BY <2>1, <2>3, <3>1
    <3> QED
      BY <1>3, <1>4, <2>1, <3>1, <3>2
  <2> QED
    BY <2>1, <2>4
<1>14. CASE FromBasic \/ FromEnum \/ FromOpen
  <2>1. Step /\ pc[1] = "from"
    BY <1>14 DEF Step, FromBasic, FromEnum, FromOpen
  <2> QED
    BY <1>3, <2>1 DEF Shaped, Directed
<1>15. CASE FromNext \/ FromRaise \/ FromElement \/ FromKey \/ FromPair
  <2>1. Step /\ containers # << >> /\ ~F.to
    BY <1>15 DEF Step, FromNext, FromRaise, FromElement, FromKey, FromPair, FromFrame
  <2> QED
    BY <1>3, <2>1, ToOrFrom
<1> QED
  BY <1>1, <1>2, <1>5, <1>6, <1>7, <1>8, <1>10, <1>11, <1>12, <1>13, <1>14, <1>15
     DEF ConvertNext, Step

\* A value has been pushed, or another conversion takes over.
LEMMA DenotingKept ==
  ASSUME Shaped, Writing, ~error, NEW M, Denoting(M), NEW n, n = Len(containers),
         UNCHANGED <<containers, heap, origin>>,
         \A j \in 1..Len(stack) : stack'[j] = stack[j],
         \A t, x : Due(M, n, t, x) => Due(M, n, t, x)'
  PROVE  Denoting(M)'
<1>1. n \in Nat /\ Len(stack) \in Nat /\ n = Len(containers')
  BY WriteFacts
<1>2. /\ Recorded(M) /\ Due(M, 0, origin.type, origin.value)
      /\ \A u \in DOMAIN M : Whole(M, u) \/ \E k \in 1..n : TableOf(k) = u[2]
      /\ \A k \in 1..n : \A j \in 1..n : TableOf(j) = TableOf(k) => j = k
      /\ Extends(M, M)
  BY <1>1, DenotingFacts
<1>3. n > 0 => \A j \in 1..containers[n].at : stack'[j] = stack[j]
  <2>1. n > 0 => n \in 1..n
    BY <1>1
  <2>2. n > 0 => containers[n].at \in 1..Len(stack)
    BY <2>1, WriteFacts
  <2> QED
    BY <1>1, <2>2
<1>4. ASSUME NEW k \in 1..n
      PROVE  Underway(M, k, containers[k], TableOf(k))' /\ TableOf(k)' = TableOf(k)
  <2>1. n > 0 /\ (k = n \/ k < n)
    BY <1>1
  <2> QED
    BY <1>1, <1>2, <1>3, <2>1, OuterKept
<1>5. Recorded(M)'
  BY <1>2 DEF Recorded
<1>6. \A u \in DOMAIN M : Whole(M, u)' \/ \E k \in 1..n : TableOf(k)' = u[2]
  BY <1>2, <1>4 DEF Whole
<1>7. Due(M, 0, origin.type, origin.value)'
  <2>1. PICK t, x : t = origin.type /\ t = origin'.type /\ x = origin.value /\ x = origin'.value
    OBVIOUS
  <2>2. Due(M, 0, t, x)
    BY <1>2, <2>1
  <2>3. Due(M, 0, t, x)'
    <3>1. CASE n = 0
      BY <2>2, <3>1
    <3>2. CASE n > 0
      <4>1. 0 \in Nat /\ 0 < n /\ 0 < Len(containers') /\ 0 + 1 = 1
        BY <1>1, <3>2
      <4> QED
        BY <1>2, <1>3, <2>2, <4>1, OuterDue
    <3> QED
      BY <1>1, <3>1, <3>2
  <2> QED
    BY <2>1, <2>3
<1>8. \A k \in 1..n : \A j \in 1..n : TableOf(j)' = TableOf(k)' => j = k
  BY <1>2, <1>4
<1> QED
  BY <1>1, <1>4, <1>5, <1>6, <1>7, <1>8 DEF Denoting

\* The innermost container goes on.
LEMMA DenotingBecame ==
  ASSUME Shaped, Writing, ~error, NEW M, Denoting(M), NEW n, n = Len(containers),
         containers # << >>, NEW g, Became(g), g.type = F.type, g.at = F.at,
         UNCHANGED origin, \A j \in 1..F.at : stack'[j] = stack[j],
         NEW w, w = TableOf(n), Len(heap') = Len(heap),
         \A h \in 1..Len(heap) : h # w => heap'[h] = heap[h],
         Underway(M, n, g, w)'
  PROVE  Denoting(M)'
<1>1. /\ n \in Nat \ {0} /\ n = Len(containers') /\ F = containers[n] /\ containers'[n] = g
      /\ \A k \in 1..(n - 1) : containers'[k] = containers[k]
  BY DEF Became
<1>2. /\ Recorded(M) /\ Due(M, 0, origin.type, origin.value)
      /\ \A u \in DOMAIN M : Whole(M, u) \/ \E k \in 1..n : TableOf(k) = u[2]
      /\ \A k \in 1..n : \A j \in 1..n : TableOf(j) = TableOf(k) => j = k
      /\ Extends(M, M)
  <2>1. Denoting(M) /\ n = Len(containers)
    OBVIOUS
  <2> QED
    BY ONLY <2>1, DenotingFacts
<1>3. /\ containers[n].at = F.at /\ F.at \in 1..F.at
      /\ \A k \in 1..n : TableOf(k) \in 1..Len(heap)
  <2>1. n \in 1..n
    BY <1>1
  <2>2. Len(stack) \in Nat /\ containers[n].at \in 1..Len(stack)
    BY <2>1, WriteFacts
  <2>3. F.at \in 1..F.at
    BY <1>1, <2>2
  <2> QED
    BY <1>1, <2>3, WriteFacts
<1>4. ASSUME NEW k \in 0..(n - 1)
      PROVE  /\ k < n /\ k < Len(containers') /\ k \in Nat
             /\ containers'[k + 1].type = containers[k + 1].type
             /\ containers'[k + 1].at = containers[k + 1].at
  <2>1. k + 1 \in 1..(n - 1) \/ k + 1 = n
    BY <1>1
  <2> QED
    BY <1>1, <2>1
<1>5. ASSUME NEW k \in 1..(n - 1)
      PROVE  Underway(M, k, containers[k], TableOf(k))' /\ TableOf(k)' = TableOf(k)
  <2>1. k \in 0..(n - 1) /\ k \in 1..n /\ n \in 1..n /\ k # n
    BY <1>1
  <2>2. TableOf(k) \in 1..Len(heap) /\ TableOf(k) # w
    BY <1>2, <1>3, <2>1
  <2>3. heap'[TableOf(k)] = heap[TableOf(k)] /\ containers'[k] = containers[k]
    BY <1>1, <2>2
  <2> QED
    BY <1>2, <1>3, <1>4, <2>1, <2>3, OuterKept
<1>6. TableOf(n)' = w
  <2>1. PICK a : a = F.at
    OBVIOUS
  <2>2. containers'[n].at = a /\ stack'[a] = stack[a] /\ w = stack[a][2]
    BY <1>1, <1>3, <2>1 DEF TableOf
  <2> QED
    BY <2>2 DEF TableOf
<1>7. Underway(M, n, containers[n], TableOf(n))'
  BY <1>1, <1>6 DEF Underway
<1>8. ASSUME NEW k \in 1..n
      PROVE  Underway(M, k, containers[k], TableOf(k))' /\ TableOf(k)' = TableOf(k)
  <2>1. k \in 1..(n - 1) \/ k = n
    BY <1>1
  <2> QED
    BY <1>5, <1>6, <1>7, <2>1
<1>9. Recorded(M)'
  BY <1>2 DEF Recorded
<1>10. \A u \in DOMAIN M : Whole(M, u)' \/ \E k \in 1..n : TableOf(k)' = u[2]
  <2> TAKE u \in DOMAIN M
  <2> SUFFICES ASSUME \A k \in 1..n : TableOf(k)' # u[2] PROVE Whole(M, u)'
    OBVIOUS
  <2>1. \A k \in 1..n : TableOf(k) # u[2]
    BY <1>8
  <2>2. Whole(M, u) /\ u[2] \in 1..Len(heap)
    BY <1>2, <2>1 DEF Recorded
  <2>3. heap'[u[2]] = heap[u[2]]
    <3>1. n \in 1..n
      BY <1>1
    <3> QED
      BY <2>1, <2>2, <3>1
  <2> QED
    BY <2>2, <2>3 DEF Whole
<1>11. Due(M, 0, origin.type, origin.value)'
  <2>1. PICK t, x : t = origin.type /\ t = origin'.type /\ x = origin.value /\ x = origin'.value
    OBVIOUS
  <2>2. Due(M, 0, t, x)
    BY <1>2, <2>1
  <2>3. 0 \in 0..(n - 1) /\ 0 \in Nat
    BY <1>1
  <2>4. Due(M, 0, t, x)'
    BY <1>2, <1>3, <1>4, <2>2, <2>3, OuterDue
  <2> QED
    BY <2>1, <2>4
<1>12. \A k \in 1..n : \A j \in 1..n : TableOf(j)' = TableOf(k)' => j = k
  BY <1>2, <1>8
<1> QED
  BY <1>1, <1>8, <1>9, <1>10, <1>11, <1>12 DEF Denoting

\* The innermost container has been written, and stands for its value.
LEMMA ToCloseDenotes ==
  ASSUME Shaped, Writing, ~error, NEW M, Denoting(M), ToClose
  PROVE  Denoting(M)'
<1>1. PICK n : n = Len(containers)
  OBVIOUS
<1>2. /\ IsBack /\ containers # << >> /\ F.to /\ F.stage = "next" /\ F.items = << >>
      /\ containers' = Outer /\ pc' = <<"back", None>>
      /\ UNCHANGED <<stack, heap, error, rest, origin>>
  BY DEF ToClose, Back
<1>3. /\ IsSeq(containers) /\ Len(stack) \in Nat /\ F = containers[n] /\ n \in 1..n
      /\ \A k \in 1..n : TableOf(k) \in 1..Len(heap)
  BY <1>1, <1>2, WriteFacts
<1>4. Closed
  BY <1>2, <1>3, ClosedLemma
<1>5. /\ n \in Nat \ {0} /\ Len(containers') = n - 1
      /\ \A k \in 1..(n - 1) : containers'[k] = containers[k]
  BY <1>1, <1>4 DEF Closed
<1>6. /\ Recorded(M) /\ Due(M, 0, origin.type, origin.value)
      /\ \A u \in DOMAIN M : Whole(M, u) \/ \E k \in 1..n : TableOf(k) = u[2]
      /\ \A k \in 1..n : \A j \in 1..n : TableOf(j) = TableOf(k) => j = k
      /\ Extends(M, M)
      /\ Underway(M, n, containers[n], TableOf(n))
      /\ <<containers[n].type, TableOf(n)>> \in DOMAIN M
  <2>1. n = Len(containers) /\ n \in 1..n
    BY <1>1, <1>3
  <2> QED
    BY <2>1, DenotingFacts
<1>7. Len(stack) = F.at /\ stack[F.at][1] = "table" /\ IsContainer(F)
  BY <1>2, ToFacts DEF Height
<1>8. \A t, x : Due(M, n - 1, t, x) => Due(M, n - 1, t, x)'
  <2> TAKE t, x
  <2> SUFFICES ASSUME Due(M, n - 1, t, x) PROVE Due(M, n - 1, t, x)'
    OBVIOUS
  <2>1. PICK v : v = stack[F.at]
    OBVIOUS
  <2>2. TableOf(n) = v[2] /\ v[1] = "table" /\ v = stack[Len(stack)] /\ v = stack'[Len(stack')]
    BY <1>2, <1>3, <1>7, <2>1 DEF TableOf
  <2>3. n - 1 < n /\ (n - 1) + 1 = n
    BY <1>5
  <2>4. containers[n].type = t /\ M[<<t, v[2]>>].value = x
    BY <1>1, <2>2, <2>3 DEF Due
  <2>5. Container(t) /\ <<t, v[2]>> \in DOMAIN M
    BY <1>3, <1>6, <1>7, <2>2, <2>4 DEF IsContainer
  <2>6. Stands(M, t, v, x)
    BY <2>2, <2>4, <2>5 DEF Stands, Denoted, Meaning
  <2>7. ~(n - 1 < Len(containers')) /\ pc'[1] = "back"
    BY <1>2, <1>5
  <2>8. Stands(M, t, stack[Len(stack)], x)'
    BY <2>2, <2>6 DEF Stands, Denoted, Meaning
  <2> QED
    BY <2>7, <2>8 DEF Due
<1>9. \A j \in 1..Len(stack) : stack'[j] = stack[j]
  BY <1>2
<1>10. \A j \in 1..containers[n].at : stack'[j] = stack[j]
  BY <1>2
<1>11. ASSUME NEW k \in 0..(n - 2)
       PROVE  \A t, x : Due(M, k, t, x) => Due(M, k, t, x)'
  <2>1. /\ k \in Nat /\ k < n /\ k < Len(containers') /\ k + 1 \in 1..(n - 1)
    BY <1>5
  <2>2. containers'[k + 1] = containers[k + 1]
    BY <1>5, <2>1
  <2> QED
    BY <1>1, <1>6, <1>10, <2>1, <2>2, OuterDue
<1>12. ASSUME NEW k \in 0..(n - 1)
       PROVE  \A t, x : Due(M, k, t, x) => Due(M, k, t, x)'
  <2>1. k \in 0..(n - 2) \/ k = n - 1
    BY <1>5
  <2> QED
    BY <1>8, <1>11, <2>1
<1>13. ASSUME NEW k \in 1..(n - 1)
       PROVE  Underway(M, k, containers[k], TableOf(k))' /\ TableOf(k)' = TableOf(k)
  <2>1. PICK f, h : f = containers[k] /\ f = containers'[k] /\ h = TableOf(k)
    BY <1>5
  <2>2. TableOf(k)' = h
    BY <1>2, <2>1 DEF TableOf
  <2>3. k \in 1..n /\ k \in 0..(n - 1) /\ n \in Nat
    BY <1>5
  <2>4. Underway(M, k, f, h)
    BY <2>1, <2>3, <1>1 DEF Denoting
  <2>5. \A t, x : Due(M, k, t, x) => Due(M, k, t, x)'
    BY <1>12, <2>3
  <2>6. heap'[h] = heap[h] /\ stack'[f.at + 1] = stack[f.at + 1]
    BY <1>2
  <2>7. Underway(M, k, f, h)'
    BY <1>6, <2>4, <2>5, <2>6, UnderwayKept
  <2> QED
    BY <2>1, <2>2, <2>7 DEF Underway
<1>14. Recorded(M)'
  BY <1>2, <1>6 DEF Recorded
<1>15. ASSUME NEW u \in DOMAIN M
       PROVE  Whole(M, u)' \/ \E k \in 1..(n - 1) : TableOf(k)' = u[2]
  <2>1. CASE Whole(M, u)
    BY <1>2, <2>1 DEF Whole
  <2>2. CASE u[2] = TableOf(n)
    <3>1. PICK t, h : t = containers[n].type /\ h = TableOf(n)
      OBVIOUS
    <3>2. PICK z \in DOMAIN M : z = <<t, h>>
      BY <1>6, <3>1
    <3>3. u = z
      BY <1>6, <2>2, <3>1, <3>2 DEF Recorded
    <3>4. Written(M, t, M[<<t, h>>].value, heap[h], << >>)
      BY <1>2, <1>3, <1>6, <3>1 DEF Underway
    <3>5. Whole(M, u)
      BY <3>2, <3>3, <3>4 DEF Whole
    <3> QED
      BY <1>2, <3>5 DEF Whole
  <2>3. CASE ~Whole(M, u) /\ u[2] # TableOf(n)
    <3>1. PICK k \in 1..n : TableOf(k) = u[2]
      BY <1>6, <2>3
    <3>2. k \in 1..(n - 1)
      BY <1>5, <2>3, <3>1
    <3> QED
      BY <1>13, <3>1, <3>2
  <2> QED
    BY <2>1, <2>2, <2>3
<1>16. Due(M, 0, origin.type, origin.value)'
  <2>1. PICK t, x : t = origin.type /\ t = origin'.type /\ x = origin.value /\ x = origin'.value
    BY <1>2
  <2>2. Due(M, 0, t, x) /\ 0 \in 0..(n - 1)
    BY <1>5, <1>6, <2>1
  <2>3. Due(M, 0, t, x)'
    BY <1>12, <2>2
  <2> QED
    BY <2>1, <2>3
<1>17. \A k \in 1..(n - 1) : \A j \in 1..(n - 1) : TableOf(j)' = TableOf(k)' => j = k
  <2>1. \A k \in 1..(n - 1) : k \in 1..n
    BY <1>5
  <2> QED
    BY <1>6, <1>13, <2>1
<1> QED
  BY <1>5, <1>13, <1>14, <1>15, <1>16, <1>17 DEF Denoting

LEMMA ToBasicDenotes ==
  ASSUME Shaped, Writing, ~error, NEW M, Denoting(M), ToBasic, <<pc[2], pc[3]>> \in Exact
  PROVE  Denoting(M)'
<1>1. PICK n, s, y : n = Len(containers) /\ s = pc[2] /\ y = pc[3]
  OBVIOUS
<1>2. PICK v : v = Pushed(s, y)
  OBVIOUS
<1>3. /\ pc[1] = "to" /\ Kind[s] \in {"integer", "string", "object"}
      /\ stack' = Append(stack, v) /\ pc' = <<"back", None>>
      /\ UNCHANGED <<containers, heap, error, rest, origin>>
  BY <1>1, <1>2 DEF ToBasic, Back
<1>4. s \in Types /\ <<s, y>> \in Values /\ IsSeq(stack)
  BY <1>1, <1>3 DEF Shaped, Directed, Typed
<1>5. Formed(s, y)
  BY <1>4, ValuesAssumption
<1>6. /\ Len(stack') = Len(stack) + 1 /\ stack'[Len(stack) + 1] = v
      /\ \A j \in 1..Len(stack) : stack'[j] = stack[j]
  BY <1>3, <1>4, AppendSeq
<1>7. Fits(s, v) /\ v # <<Nil>> /\ Cast(s, v) = y /\ y = <<Kind[s], y[2]>>
  <2>0. \A z : z = <<Nil>> => z[1] = Nil
    OBVIOUS
  <2>1. CASE Kind[s] = "integer"
    <3>1. y = <<"integer", y[2]>> /\ y[2] \in Least[s]..(Least[s] + Size[s] - 1)
      BY <1>5, <2>1 DEF Formed
    <3>2. Narrow(s, ToInteger(y[2])) = y[2]
      BY <1>4, <2>1, <3>1, Narrowed
    <3>3. v = <<"integer", ToInteger(y[2])>>
      BY <1>2, <2>1 DEF Pushed
    <3>4. v[1] = "integer" /\ v[2] = ToInteger(y[2])
      BY <3>3
    <3>5. v # <<Nil>>
      BY <2>0, <3>4, ConvertAssumption
    <3> QED
      BY <2>1, <3>1, <3>2, <3>4, <3>5 DEF Fits, Cast
  <2>2. CASE Kind[s] = "string"
    <3>1. y = <<"string", y[2]>>
      BY <1>5, <2>2 DEF Formed
    <3>2. UpToNul[y[2]] = y[2]
      <4>1. PICK vt : vt = <<s, y>>
        OBVIOUS
      <4>2. vt[1] = s /\ vt[2] = y
        BY <4>1
      <4>3. vt \in Exact /\ vt \in Values
        BY <1>1, <1>4, <4>1
      <4>4. vt \in Exact => (Kind[vt[1]] = "string" => UpToNul[vt[2][2]] = vt[2][2])
        BY <4>3, ValuesAssumption
      <4> QED
        BY <2>2, <4>2, <4>3, <4>4
    <3>3. v = <<"string", y[2]>>
      BY <1>2, <2>2, <3>2 DEF Pushed
    <3>4. v[1] = "string" /\ v[2] = y[2]
      BY <3>3
    <3>5. v # <<Nil>>
      BY <2>0, <3>4, ConvertAssumption
    <3> QED
      BY <2>2, <3>1, <3>2, <3>4, <3>5 DEF Fits, Cast
  <2>3. CASE Kind[s] = "object"
    <3>1. y = <<"object", y[2]>> /\ v = y
      BY <1>2, <1>5, <2>3 DEF Formed, Pushed
    <3>2. v[1] = "object"
      BY <3>1
    <3>3. v # <<Nil>>
      BY <2>0, <3>2, ConvertAssumption
    <3> QED
      BY <2>3, <3>1, <3>2, <3>3 DEF Fits, Cast
  <2> QED
    BY <1>3, <2>1, <2>2, <2>3
<1>8. ASSUME NEW t, NEW x, Due(M, n, t, x)
      PROVE  Due(M, n, t, x)'
  <2>1. \/ s = t /\ y = x
        \/ /\ Kind[t] = "enum" /\ x = <<"enum", x[2]>>
           /\ s = Elem[t] /\ y = <<Kind[Elem[t]], x[2]>>
    <3>1. ~(n < Len(containers))
      <4>1. n \in Nat
        BY <1>1, WriteFacts
      <4> QED
        BY <1>1, <4>1
    <3> QED
      BY <1>1, <1>3, <1>8, <3>1 DEF Due
  <2>2. ~Container(t) /\ Under(t) = s /\ Read(t, v) = x
    <3>1. CASE s = t /\ y = x
      BY <1>3, <1>7, <3>1 DEF Container, Under, Read
    <3>2. CASE /\ Kind[t] = "enum" /\ x = <<"enum", x[2]>>
               /\ s = Elem[t] /\ y = <<Kind[Elem[t]], x[2]>>
      <4>1. Cast(Elem[t], v)[2] = x[2]
        BY <1>7, <3>2
      <4> QED
        BY <3>2, <4>1 DEF Container, Under, Read
    <3> QED
      BY <2>1, <3>1, <3>2
  <2>3. Stands(M, t, v, x)
    BY <1>7, <2>2 DEF Stands, Denoted, Meaning
  <2>4. stack'[Len(stack')] = v
    BY <1>6
  <2>5. Stands(M, t, stack[Len(stack)], x)'
    BY <2>3, <2>4 DEF Stands, Denoted, Meaning
  <2>6. ~(n < Len(containers')) /\ pc'[1] = "back"
    <3>1. n \in Nat
      BY <1>1, WriteFacts
    <3> QED
      BY <1>1, <1>3, <3>1
  <2> QED
    BY <2>5, <2>6 DEF Due
<1> QED
  BY <1>1, <1>3, <1>6, <1>8, DenotingKept

LEMMA ToEnumDenotes ==
  ASSUME Shaped, Writing, ~error, NEW M, Denoting(M), ToEnum
  PROVE  Denoting(M)'
<1>1. PICK n, s, y : n = Len(containers) /\ s = pc[2] /\ y = pc[3]
  OBVIOUS
<1>2. /\ pc[1] = "to" /\ Kind[s] = "enum" /\ pc' = <<"to", Elem[s], <<Kind[Elem[s]], y[2]>> >>
      /\ UNCHANGED <<containers, stack, heap, error, rest, origin>>
  BY <1>1 DEF ToEnum
<1>3. s \in Types /\ <<s, y>> \in Values
  BY <1>1, <1>2 DEF Shaped, Directed
<1>4. y = <<"enum", y[2]>>
  BY <1>2, <1>3, ValuesAssumption DEF Formed
<1>5. n \in Nat
  BY <1>1, WriteFacts
<1>6. ASSUME NEW t, NEW x, Due(M, n, t, x)
      PROVE  Due(M, n, t, x)'
  <2>1. ~(n < Len(containers)) /\ ~(n < Len(containers'))
    BY <1>1, <1>2, <1>5
  <2>2. \/ s = t /\ y = x
        \/ t \in Types /\ Kind[t] = "enum" /\ s = Elem[t]
    BY <1>1, <1>2, <1>6, <2>1 DEF Due
  <2>3. s = t /\ y = x
    <3>1. t \in Types /\ Kind[t] = "enum" => Kind[Elem[t]] # "enum"
      BY ConvertAssumption
    <3> QED
      BY <1>2, <2>2, <3>1
  <2>4. /\ pc'[1] = "to" /\ pc'[2] = Elem[t] /\ pc'[3] = <<Kind[Elem[t]], x[2]>>
        /\ t \in Types /\ Kind[t] = "enum" /\ x = <<"enum", x[2]>>
    BY <1>2, <1>3, <1>4, <2>3
  <2> QED
    BY <2>1, <2>4 DEF Due
<1> QED
  BY <1>1, <1>2, <1>6, DenotingKept

LEMMA InnerFacts ==
  ASSUME Shaped, IsBack, containers # << >>, F.to, ~error, NEW M, Denoting(M),
         NEW n, n = Len(containers), NEW f, f = F, NEW w, w = TableOf(n)
  PROVE  /\ Writing /\ n \in Nat \ {0} /\ IsSeq(containers) /\ IsSeq(stack) /\ Typed
         /\ IsContainer(f) /\ IsWritten(f)
         /\ Underway(M, n, f, w)
         /\ Len(stack) = Height(f) /\ f.at \in 1..Len(stack) /\ f.at \in Nat \ {0}
         /\ w = stack[f.at][2] /\ w \in 1..Len(heap) /\ IsSeq(heap[w])
<1>1. /\ Writing /\ n \in Nat \ {0} /\ IsSeq(containers) /\ IsSeq(stack) /\ Typed
      /\ IsContainer(f) /\ IsWritten(f) /\ f = containers[n]
      /\ Len(stack) = Height(f) /\ f.at \in 1..Len(stack)
      /\ stack[f.at][2] \in 1..Len(heap)
  BY ToFacts
<1>2. Underway(M, n, f, w)
  <2>1. n \in 1..n
    BY <1>1
  <2> QED
    BY <1>1, <2>1 DEF Denoting
<1>3. f.at \in Nat \ {0} /\ w = stack[f.at][2]
  BY <1>1 DEF IsContainer, TableOf
<1>4. IsSeq(heap[w])
  BY <1>1, <1>3 DEF Typed, IsTable
<1> QED
  BY <1>1, <1>2, <1>3, <1>4

LEMMA ToNextDenotes ==
  ASSUME Shaped, Writing, ~error, NEW M, Denoting(M), ToNext
  PROVE  Denoting(M)'
<1>1. PICK n, f, w, r : n = Len(containers) /\ f = F /\ w = TableOf(n) /\ r = f.items
  OBVIOUS
<1>2. /\ IsBack /\ containers # << >> /\ F.to /\ f.stage = "next"
      /\ UNCHANGED <<heap, error, rest, origin>>
      /\ IF Kind[f.type] = "map"
         THEN Stay("key", F) /\ pc' = <<"to", Key[f.type], r[1][1]>> /\ UNCHANGED stack
         ELSE /\ Stay("value", F) /\ pc' = <<"to", Elem[f.type], r[1][2]>>
              /\ stack' = Append(stack, <<"integer", r[1][1]>>)
  BY <1>1 DEF ToNext, ToFrame
<1>3. /\ n \in Nat \ {0} /\ IsSeq(containers) /\ IsSeq(stack) /\ Typed
      /\ IsContainer(f) /\ Underway(M, n, f, w)
      /\ Len(stack) = f.at /\ f.at \in Nat \ {0} /\ IsSeq(r)
  BY <1>1, <1>2, InnerFacts DEF Height, IsContainer
<1>4. PICK s, g : s = (IF Kind[f.type] = "map" THEN "key" ELSE "value") /\ g = At(F, s, F.items, F.held)
  OBVIOUS
<1>5. Became(g)
  <2>1. s \in Stages /\ Stay(s, F)
    BY <1>2, <1>4 DEF Stages
  <2> QED
    BY <1>2, <1>3, <1>4, <2>1, StaySame
<1>6. g.type = f.type /\ g.at = f.at /\ g.items = r /\ g.stage = s
  <2>1. s \in Stages
    BY <1>4 DEF Stages
  <2> QED
    BY <1>1, <1>3, <1>4, <2>1, AtLemma
<1>7. n = Len(containers') /\ ~(n < Len(containers'))
  BY <1>1, <1>3, <1>5 DEF Became
<1>8. \A j \in 1..f.at : stack'[j] = stack[j]
  <2>1. CASE Kind[f.type] = "map"
    BY <1>2, <2>1
  <2>2. CASE Kind[f.type] # "map"
    BY <1>2, <1>3, <2>2, AppendSeq
  <2> QED
    BY <2>1, <2>2
<1>9. s = "value" => Kind[f.type] # "map" /\ stack'[f.at + 1] = <<"integer", r[1][1]>>
  BY <1>2, <1>3, <1>4, AppendSeq
<1>10. \A t, x : pc' = <<"to", t, x>> => Due(M, n, t, x)'
  <2> TAKE t, x
  <2>1. pc' = <<"to", t, x>> => pc'[1] = "to" /\ pc'[2] = t /\ pc'[3] = x
    OBVIOUS
  <2> QED
    BY <1>7, <2>1 DEF Due
<1>11. Written(M, f.type, M[<<f.type, w>>].value, heap[w], r)
  BY <1>1, <1>3 DEF Underway
<1>12. <<f.type, w>> \in DOMAIN M
  BY <1>3 DEF Underway
<1>13. Underway(M, n, g, w)'
  <2>1. <<g.type, w>> \in DOMAIN M /\ Written(M, g.type, M[<<g.type, w>>].value, heap[w], g.items)'
    <3>1. PICK ps : ps = heap[w] /\ ps = heap'[w]
      BY <1>2
    <3>2. Written(M, g.type, M[<<g.type, w>>].value, ps, g.items)
      BY <1>6, <1>11, <3>1
    <3> QED
      BY <1>6, <1>12, <3>1, <3>2
  <2>2. g.stage = "key" => Kind[g.type] = "map" /\ Due(M, n, Key[g.type], g.items[1][1])'
    BY <1>2, <1>4, <1>6, <1>10
  <2>3. g.stage = "value" =>
          /\ Kind[g.type] # "map" /\ stack'[g.at + 1] = <<"integer", g.items[1][1]>>
          /\ Due(M, n, Elem[g.type], g.items[1][2])'
    BY <1>2, <1>4, <1>6, <1>9, <1>10
  <2> QED
    BY <2>1, <2>2, <2>3 DEF Underway
<1> QED
  BY <1>1, <1>2, <1>5, <1>6, <1>8, <1>13, DenotingBecame

LEMMA ToValueDenotes ==
  ASSUME Shaped, Writing, ~error, NEW M, Denoting(M), ToValue
  PROVE  Denoting(M)'
<1>1. PICK n, f, w, r : n = Len(containers) /\ f = F /\ w = TableOf(n) /\ r = f.items
  OBVIOUS
<1>2. /\ IsBack /\ containers # << >> /\ F.to /\ f.stage = "key"
      /\ Stay("value", F) /\ pc' = <<"to", Elem[f.type], r[1][2]>>
      /\ UNCHANGED <<stack, heap, error, rest, origin>>
  BY <1>1 DEF ToValue, ToFrame
<1>3. /\ n \in Nat \ {0} /\ IsSeq(containers) /\ IsSeq(stack) /\ Typed
      /\ IsContainer(f) /\ Underway(M, n, f, w)
      /\ Len(stack) = f.at + 1 /\ f.at \in Nat \ {0} /\ IsSeq(r)
  BY <1>1, <1>2, InnerFacts DEF Height, IsContainer
<1>4. PICK g : g = At(F, "value", F.items, F.held)
  OBVIOUS
<1>5. Became(g)
  BY <1>2, <1>3, <1>4, StaySame DEF Stages
<1>6. g.type = f.type /\ g.at = f.at /\ g.items = r /\ g.stage = "value"
  BY <1>1, <1>3, <1>4, AtLemma DEF Stages
<1>7. n = Len(containers') /\ ~(n < Len(containers')) /\ ~(n < Len(containers))
  BY <1>1, <1>3, <1>5 DEF Became
<1>8. Due(M, n, Elem[f.type], r[1][2])'
  BY <1>2, <1>7 DEF Due
<1>9. Kind[f.type] = "map" /\ Stands(M, Key[f.type], stack[f.at + 1], r[1][1])
  <2>1. Kind[f.type] = "map" /\ Due(M, n, Key[f.type], r[1][1])
    BY <1>1, <1>2, <1>3 DEF Underway
  <2> QED
    BY <1>2, <1>3, <1>7, <2>1 DEF Due, IsBack
<1>10. Underway(M, n, g, w)'
  <2>1. PICK ps, y : ps = heap[w] /\ ps = heap'[w] /\ y = stack[f.at + 1] /\ y = stack'[f.at + 1]
    BY <1>2
  <2>2. <<g.type, w>> \in DOMAIN M /\ Written(M, g.type, M[<<g.type, w>>].value, ps, g.items)
    BY <1>1, <1>3, <1>6, <2>1 DEF Underway
  <2>3. Kind[g.type] = "map" /\ Stands(M, Key[g.type], y, g.items[1][1]) /\ g.stage # "key"
    BY <1>6, <1>9, <2>1
  <2>4. Written(M, g.type, M[<<g.type, w>>].value, heap[w], g.items)'
    BY <2>1, <2>2
  <2>5. Stands(M, Key[g.type], stack[g.at + 1], g.items[1][1])'
    BY <1>6, <2>1, <2>3 DEF Stands, Denoted, Meaning
  <2>6. Due(M, n, Elem[g.type], g.items[1][2])'
    BY <1>6, <1>8
  <2> QED
    BY <2>2, <2>3, <2>4, <2>5, <2>6 DEF Underway
<1> QED
  BY <1>1, <1>2, <1>5, <1>6, <1>10, DenotingBecame

LEMMA ToSettledDenotes ==
  ASSUME Shaped, Writing, ~error, NEW M, Denoting(M), ToSettled
  PROVE  Denoting(M)'
<1>1. PICK n, f, w, r : n = Len(containers) /\ f = F /\ w = TableOf(n) /\ r = f.items
  OBVIOUS
<1>2. PICK a, b : a = stack[f.at + 1] /\ b = stack[f.at + 2]
  OBVIOUS
<1>3. /\ IsBack /\ containers # << >> /\ F.to /\ f.stage = "value" /\ r # << >>
      /\ UNCHANGED origin /\ \A j \in 1..f.at : stack'[j] = stack[j]
      /\ Len(heap') = Len(heap)
      /\ Became(At(F, "next", Tail(F.items), F.held))
  BY <1>1, ToSettledFacts
<1>4. /\ n \in Nat \ {0} /\ IsSeq(containers) /\ IsSeq(stack) /\ Typed
      /\ IsContainer(f) /\ IsWritten(f) /\ Underway(M, n, f, w)
      /\ Len(stack) = f.at + 2 /\ f.at \in Nat \ {0} /\ IsSeq(r)
      /\ w = stack[f.at][2] /\ w \in 1..Len(heap) /\ IsSeq(heap[w])
  BY <1>1, <1>3, InnerFacts DEF Height, IsContainer
<1>5. PICK ps : ps = heap[w]
  OBVIOUS
<1>6. PICK qs \in Settled(f.type, ps, <<a, b>>) :
        \A h \in 1..Len(heap) : heap'[h] = IF h = w THEN qs ELSE heap[h]
  <2>1. \E z \in Settled(F.type, heap[stack[F.at][2]],
                         <<stack[F.at + 1], stack[F.at + 2]>>) :
          \A h \in 1..Len(heap) : heap'[h] = IF h = stack[F.at][2] THEN z ELSE heap[h]
    BY ToSettledFacts
  <2>2. stack[F.at][2] = w /\ F = f /\ stack[F.at + 1] = a /\ stack[F.at + 2] = b
    BY <1>1, <1>2, <1>4
  <2>3. \E z \in Settled(f.type, heap[w], <<a, b>>) :
          \A h \in 1..Len(heap) : heap'[h] = IF h = w THEN z ELSE heap[h]
    BY ONLY <2>1, <2>2
  <2> QED
    BY <1>5, <2>3
<1>7. PICK g : g = At(F, "next", Tail(F.items), F.held)
  OBVIOUS
<1>8. Became(g) /\ IsSeq(Tail(r))
  BY <1>3, <1>4, <1>7, TailIs
<1>9. g.type = f.type /\ g.at = f.at /\ g.items = Tail(r) /\ g.stage = "next"
  BY <1>1, <1>4, <1>7, <1>8, AtLemma DEF Stages
<1>10. PICK x : x = M[<<f.type, w>>].value
  OBVIOUS
<1>11. /\ <<f.type, w>> \in DOMAIN M /\ Written(M, f.type, x, ps, r)
       /\ IF Kind[f.type] = "map" THEN Stands(M, Key[f.type], a, r[1][1])
                                  ELSE a = <<"integer", r[1][1]>>
       /\ Due(M, n, Elem[f.type], r[1][2])
  BY <1>1, <1>2, <1>3, <1>4, <1>5, <1>10 DEF Underway
<1>12. Stands(M, Elem[f.type], b, r[1][2])
  <2>1. ~(n < Len(containers))
    BY <1>1, <1>4
  <2> QED
    BY <1>2, <1>3, <1>4, <1>11, <2>1 DEF Due, IsBack
<1>13. r[1] = <<r[1][1], r[1][2]>>
  BY <1>1, <1>3, <1>4, FirstItem
<1>14. \A i \in 1..Len(ps) : ps[i][1] # a
  <2>1. 1 \in 1..Len(r)
    BY <1>3, <1>4, TailIs
  <2>2. CASE Kind[f.type] = "map"
    <3>1. \A i \in 1..Len(ps) : Element(M, f.type, ps[i])[1] # r[1][1]
      BY <1>11, <2>1, <2>2 DEF Written, Mapped
    <3>2. \A i \in 1..Len(ps) : Element(M, f.type, ps[i])[1] = Meaning(M, Key[f.type], ps[i][1])
      BY <2>2 DEF Element
    <3>3. Meaning(M, Key[f.type], a) = r[1][1]
      BY <1>11, <2>2 DEF Stands
    <3> QED
      BY <3>1, <3>2, <3>3
  <2>3. CASE Kind[f.type] # "map"
    <3>1. PICK e : e = r[1][1] /\ a = <<"integer", e>> /\ e = Len(ps) + 1
      BY <1>11, <2>1, <2>3 DEF Written
    <3>2. Len(ps) \in Nat
      BY <1>4, <1>5 DEF IsSeq
    <3>3. ASSUME NEW i \in 1..Len(ps) PROVE ps[i][1] # a
      <4>1. ps[i][1] = <<"integer", i>> /\ i # e
        BY <1>11, <2>3, <3>1, <3>2 DEF Written
      <4> QED
        BY <3>1, <4>1
    <3> QED
      BY <3>3
  <2> QED
    BY <2>2, <2>3
<1>15. Written(M, f.type, x, qs, Tail(r))
  <2>1. IsSeq(ps)
    BY <1>4, <1>5
  <2>2. PICK k \in 1..(Len(ps) + 1) :
          (Kind[f.type] # "map" => k = Len(ps) + 1) /\ qs = InsertAt(ps, k, <<a, b>>)
    <3>1. PICK p : p = <<a, b>>
      OBVIOUS
    <3>2. p[1] = a
      BY <3>1
    <3>3. /\ qs \in Settled(f.type, ps, p)
          /\ \A i \in 1..Len(ps) : ps[i][1] # p[1]
      BY <1>6, <1>14, <3>1, <3>2
    <3>4. \E i \in 1..(Len(ps) + 1) :
            (Kind[f.type] # "map" => i = Len(ps) + 1) /\ qs = InsertAt(ps, i, p)
      BY <2>1, <3>3, SettledNew
    <3> QED
      BY <3>1, <3>4
  <2> QED
    BY <1>3, <1>4, <1>11, <1>12, <1>13, <2>1, <2>2, WrittenMore
<1>16. heap'[w] = qs
  BY <1>4, <1>6
<1>17. Underway(M, n, g, w)'
  <2>1. <<g.type, w>> \in DOMAIN M /\ Written(M, g.type, M[<<g.type, w>>].value, qs, g.items)
    BY <1>9, <1>10, <1>11, <1>15
  <2>2. Written(M, g.type, M[<<g.type, w>>].value, heap[w], g.items)'
    BY <1>16, <2>1
  <2> QED
    BY <1>9, <2>1, <2>2 DEF Underway
<1>18. \A h \in 1..Len(heap) : h # w => heap'[h] = heap[h]
  BY <1>6
<1> QED
  BY <1>1, <1>3, <1>8, <1>9, <1>17, <1>18, DenotingBecame

\* A new table is for the value that is written.
LEMMA ToOpenDenotes ==
  ASSUME Shaped, Writing, ~error, NEW M, Denoting(M), ToOpen
  PROVE  \E N : Denoting(N)'
<1>1. PICK n, s, y, w : n = Len(containers) /\ s = pc[2] /\ y = pc[3] /\ w = Len(heap) + 1
  OBVIOUS
<1>2. PICK q, e :
        /\ q \in Items(s, y)
        /\ e = [to |-> TRUE, type |-> s, at |-> Len(stack) + 1,
                items |-> q, held |-> None, stage |-> "next"]
        /\ containers' = Append(containers, e)
  BY <1>1 DEF ToOpen
<1>3. /\ pc[1] = "to" /\ Container(s) /\ heap' = Append(heap, << >>)
      /\ stack' = Append(stack, <<"table", w>>) /\ pc' = <<"back", None>>
      /\ UNCHANGED <<error, rest, origin>>
  BY <1>1 DEF ToOpen, Back
<1>4. s \in Types /\ <<s, y>> \in Values
  BY <1>1, <1>3 DEF Shaped, Directed
<1>5. /\ n \in Nat /\ IsSeq(stack) /\ IsSeq(heap) /\ IsSeq(containers)
      /\ Len(stack) \in Nat /\ Len(heap) \in Nat
      /\ \A k \in 1..n : containers[k].at \in 1..Len(stack) /\ TableOf(k) \in 1..Len(heap)
  BY <1>1, WriteFacts
<1>6. /\ Len(stack') = Len(stack) + 1 /\ stack'[Len(stack) + 1] = <<"table", w>>
      /\ \A j \in 1..Len(stack) : stack'[j] = stack[j]
      /\ Len(heap') = w /\ heap'[w] = << >>
      /\ \A h \in 1..Len(heap) : heap'[h] = heap[h]
  BY <1>1, <1>3, <1>5, AppendSeq
<1>7. /\ Len(containers') = n + 1 /\ containers'[n + 1] = e
      /\ \A k \in 1..n : containers'[k] = containers[k]
  BY <1>1, <1>2, <1>5, AppendSeq
<1>8. e.type = s /\ e.at = Len(stack) + 1 /\ e.items = q /\ e.stage = "next"
  BY <1>2
<1>9. /\ Recorded(M) /\ Due(M, 0, origin.type, origin.value)
      /\ \A u \in DOMAIN M : Whole(M, u) \/ \E k \in 1..n : TableOf(k) = u[2]
      /\ \A k \in 1..n : \A j \in 1..n : TableOf(j) = TableOf(k) => j = k
  BY <1>1, <1>5, DenotingFacts
<1>10. PICK N, m : /\ m = <<s, w>>
                  /\ N = [u \in DOMAIN M \cup {m} |->
                            IF u \in DOMAIN M THEN M[u]
                            ELSE [ok |-> <<s, y>> \in Registered, value |-> y]]
  OBVIOUS
<1>11. m \notin DOMAIN M /\ m[1] = s /\ m[2] = w
  <2>1. m = <<s, w>>
    BY <1>10
  <2>2. m[1] = s /\ m[2] = w
    BY ONLY <2>1
  <2>3. \A u \in DOMAIN M : u[2] \in 1..Len(heap)
    BY <1>9 DEF Recorded
  <2>4. w \notin 1..Len(heap)
    BY <1>1, <1>5
  <2> QED
    BY <2>2, <2>3, <2>4
<1>12. /\ DOMAIN N = DOMAIN M \cup {m} /\ \A u \in DOMAIN M : N[u] = M[u]
       /\ N[m].value = y /\ (N[m].ok <=> <<s, y>> \in Registered)
  BY <1>10, <1>11
<1>13. Extends(N, M)
  BY <1>12 DEF Extends
<1>14. TableOf(n + 1)' = w
  BY <1>6, <1>7, <1>8 DEF TableOf
<1>15. Written(N, s, y, << >>, q)
  BY <1>2, <1>3, <1>4, ItemsLeft, EmptyIs
<1>16. Underway(N, n + 1, e, w)'
  <2>1. <<e.type, w>> \in DOMAIN N /\ Written(N, e.type, N[<<e.type, w>>].value, << >>, e.items)
    BY <1>8, <1>10, <1>12, <1>15
  <2>2. Written(N, e.type, N[<<e.type, w>>].value, heap[w], e.items)'
    BY <1>6, <2>1
  <2> QED
    BY <1>8, <2>1, <2>2 DEF Underway
<1>17. \A t, x : Due(M, n, t, x) => Due(N, n, t, x)'
  <2> TAKE t, x
  <2> SUFFICES ASSUME Due(M, n, t, x) PROVE Due(N, n, t, x)'
    OBVIOUS
  <2>1. ~(n < Len(containers)) /\ n < Len(containers')
    BY <1>1, <1>5, <1>7
  <2>2. \/ s = t /\ y = x
        \/ t \in Types /\ Kind[t] = "enum" /\ s = Elem[t]
    BY <1>1, <1>3, <2>1 DEF Due
  <2>3. s = t /\ y = x
    <3>1. t \in Types /\ Kind[t] = "enum" => ~Container(Elem[t])
      BY ConvertAssumption DEF Container
    <3> QED
      BY <1>3, <2>2, <3>1
  <2>4. containers'[n + 1].type = t /\ N[<<t, w>>].value = x
    BY <1>7, <1>8, <1>10, <1>12, <2>3
  <2> QED
    BY <1>14, <2>1, <2>4 DEF Due
<1>18. \A j \in 1..containers[n].at : n > 0 => stack'[j] = stack[j]
  <2>1. n > 0 => containers[n].at \in 1..Len(stack)
    BY <1>5
  <2> QED
    BY <1>5, <1>6, <2>1
<1>19. ASSUME NEW k \in 1..n
       PROVE  Underway(N, k, containers[k], TableOf(k))' /\ TableOf(k)' = TableOf(k)
  <2>1. n > 0 /\ n \in 1..n /\ (k = n \/ k < n) /\ k < Len(containers')
    BY <1>5, <1>7
  <2>2. \A j \in 1..containers[n].at : stack'[j] = stack[j]
    BY <1>18, <2>1
  <2>3. k < n => k + 1 \in 1..n
    BY <1>5
  <2>4. containers'[k] = containers[k] /\ (k < n => containers'[k + 1] = containers[k + 1])
    BY <1>7, <2>3
  <2>5. heap'[TableOf(k)] = heap[TableOf(k)]
    BY <1>5, <1>6
  <2> QED
    BY <1>1, <1>6, <1>13, <1>17, <2>1, <2>2, <2>4, <2>5, OuterKept
<1>20. ASSUME NEW k \in 1..(n + 1)
       PROVE  /\ Underway(N, k, containers[k], TableOf(k))'
              /\ TableOf(k)' = IF k \in 1..n THEN TableOf(k) ELSE w
  <2>1. CASE k \in 1..n
    BY <1>19, <2>1
  <2>2. CASE k = n + 1
    <3>1. k \notin 1..n
      BY <1>5, <2>2
    <3>2. Underway(N, n + 1, containers[n + 1], TableOf(n + 1))'
      BY <1>7, <1>14, <1>16 DEF Underway
    <3> QED
      BY <1>14, <2>2, <3>1, <3>2
  <2> QED
    BY <1>5, <2>1, <2>2
<1>21. Recorded(N)'
  <2>1. ASSUME NEW u \in DOMAIN M
        PROVE  /\ u = <<u[1], u[2]>> /\ Container(u[1]) /\ u[2] \in 1..w /\ u[2] # w
               /\ <<u[1], N[u].value>> \in Values
               /\ N[u].ok <=> <<u[1], N[u].value>> \in Registered
               /\ \A z \in DOMAIN M : u[2] = z[2] => u = z
    <3>1. /\ u = <<u[1], u[2]>> /\ Container(u[1]) /\ u[2] \in 1..Len(heap)
          /\ <<u[1], M[u].value>> \in Values
          /\ M[u].ok <=> <<u[1], M[u].value>> \in Registered
          /\ \A z \in DOMAIN M : u[2] = z[2] => u = z
      BY <1>9 DEF Recorded
    <3>2. u[2] \in 1..w /\ u[2] # w
      BY <1>1, <1>5, <3>1
    <3>3. N[u] = M[u]
      BY <1>12
    <3> QED
      BY <3>1, <3>2, <3>3
  <2>2. /\ m = <<m[1], m[2]>> /\ Container(m[1]) /\ m[2] = w /\ w \in 1..w
        /\ <<m[1], N[m].value>> \in Values
        /\ N[m].ok <=> <<m[1], N[m].value>> \in Registered
    <3>1. m = <<s, w>> /\ w \in 1..w
      BY <1>1, <1>5, <1>10
    <3>2. Container(s) /\ <<s, N[m].value>> \in Values
      BY <1>3, <1>4, <1>12
    <3>3. N[m].ok <=> <<s, N[m].value>> \in Registered
      BY <1>12
    <3> QED
      BY <1>11, <3>1, <3>2, <3>3
  <2>3. \A u, z \in DOMAIN N : u[2] = z[2] => u = z
    BY <1>12, <2>1, <2>2
  <2>4. \A u \in DOMAIN N : u \in DOMAIN M \/ u = m
    BY <1>12
  <2>5. \A u \in DOMAIN N :
          /\ u = <<u[1], u[2]>> /\ Container(u[1]) /\ u[2] \in 1..w
          /\ <<u[1], N[u].value>> \in Values
          /\ N[u].ok <=> <<u[1], N[u].value>> \in Registered
    BY <2>1, <2>2, <2>4
  <2> QED
    BY <1>6, <2>3, <2>5 DEF Recorded
<1>22. ASSUME NEW u \in DOMAIN N
       PROVE  Whole(N, u)' \/ \E k \in 1..(n + 1) : TableOf(k)' = u[2]
  <2>1. CASE u = m
    <3>1. n + 1 \in 1..(n + 1)
      BY <1>5
    <3> QED
      BY <1>11, <1>14, <2>1, <3>1
  <2>2. CASE u \in DOMAIN M /\ Whole(M, u)
    <3>1. u[2] \in 1..Len(heap) /\ N[u] = M[u]
      BY <1>9, <1>12, <2>2 DEF Recorded
    <3>2. Written(N, u[1], N[u].value, heap[u[2]], << >>)
      BY <1>13, <2>2, <3>1, WrittenKept DEF Whole
    <3> QED
      BY <1>6, <3>1, <3>2 DEF Whole
  <2>3. CASE u \in DOMAIN M /\ ~Whole(M, u)
    <3>1. PICK k \in 1..n : TableOf(k) = u[2]
      BY <1>9, <2>3
    <3>2. k \in 1..(n + 1)
      BY <1>5
    <3> QED
      BY <1>19, <3>1, <3>2
  <2> QED
    BY <1>12, <2>1, <2>2, <2>3
<1>23. Due(N, 0, origin.type, origin.value)'
  <2>1. PICK t, x : t = origin.type /\ t = origin'.type /\ x = origin.value /\ x = origin'.value
    BY <1>3
  <2>2. Due(M, 0, t, x)
    BY <1>9, <2>1
  <2>3. Due(N, 0, t, x)'
    <3>1. CASE n = 0
      BY <1>17, <2>2, <3>1
    <3>2. CASE n > 0
      <4>1. 0 \in Nat /\ 0 < n /\ 0 < Len(containers') /\ 0 + 1 \in 1..n
        BY <1>5, <1>7, <3>2
      <4>2. \A j \in 1..containers[n].at : stack'[j] = stack[j]
        BY <1>18, <3>2
      <4>3. containers'[0 + 1] = containers[0 + 1]
        BY <1>7, <4>1
      <4> QED
        BY <1>1, <1>13, <2>2, <4>1, <4>2, <4>3, OuterDue
    <3> QED
      BY <1>5, <3>1, <3>2
  <2> QED
    BY <2>1, <2>3
<1>24. \A k \in 1..(n + 1) : \A j \in 1..(n + 1) : TableOf(j)' = TableOf(k)' => j = k
  <2>1. \A k \in 1..(n + 1) : k \in 1..n \/ k = n + 1
    BY <1>5
  <2>2. \A k \in 1..n : TableOf(k) # w
    BY <1>1, <1>5
  <2>3. n + 1 \notin 1..n
    BY <1>5
  <2> QED
    BY <1>9, <1>20, <2>1, <2>2, <2>3
<1>25. Denoting(N)'
  BY <1>7, <1>20, <1>21, <1>22, <1>23, <1>24 DEF Denoting
<1> QED
  BY <1>25

LEMMA FinishDenotes ==
  ASSUME Shaped, Writing, ~error, NEW M, Denoting(M), Finish
  PROVE  Denoting(M)'
<1>1. PICK n : n = Len(containers)
  OBVIOUS
<1>2. /\ IsBack /\ pc'[1] = "end"
      /\ UNCHANGED <<containers, stack, heap, error, rest, origin>>
  BY DEF Finish
<1>3. n \in Nat
  BY <1>1, WriteFacts
<1>4. ASSUME NEW t, NEW x, Due(M, n, t, x)
      PROVE  Due(M, n, t, x)'
  <2>1. ~(n < Len(containers)) /\ ~(n < Len(containers'))
    BY <1>1, <1>2, <1>3
  <2>2. PICK v : v = stack[Len(stack)] /\ v = stack'[Len(stack')]
    BY <1>2
  <2>3. Stands(M, t, v, x)
    BY <1>2, <1>4, <2>1, <2>2 DEF Due, IsBack
  <2>4. Stands(M, t, stack[Len(stack)], x)'
    BY <2>2, <2>3 DEF Stands, Denoted, Meaning
  <2> QED
    BY <1>2, <2>1, <2>4 DEF Due
<1> QED
  BY <1>1, <1>2, <1>4, DenotingKept

\* What is written, when Lua has it all.
LEMMA DenotingRead ==
  ASSUME Shaped, Writing, ~error, containers = << >>, NEW M, Denoting(M)
  PROVE  Consistent(M)
<1>1. \A k \in 1..Len(containers) : FALSE
  BY EmptyIs
<1>2. Recorded(M) /\ \A u \in DOMAIN M : Whole(M, u)
  BY <1>1 DEF Denoting
<1>3. ASSUME NEW u \in DOMAIN M, NEW ps, ps = heap[u[2]]
      PROVE  /\ Container(u[1]) /\ u[2] \in 1..Len(heap)
             /\ \A i \in 1..Len(ps) :
                  /\ ps[i][1] # <<Nil>> /\ \A j \in 1..Len(ps) : ps[i][1] = ps[j][1] => i = j
                  /\ Has(M, Elem[u[1]], ps[i][2])
                  /\ Kind[u[1]] = "map" => Has(M, Key[u[1]], ps[i][1])
             /\ M[u].ok <=> \A i \in 1..Len(ps) : Fine(M, u[1], ps[i])
             /\ M[u].ok => M[u].value = <<Kind[u[1]], Collected(M, u[1], ps, Len(ps))>>
  <2>1. PICK t, x : t = u[1] /\ x = M[u].value
    OBVIOUS
  <2>2. /\ Container(t) /\ u[2] \in 1..Len(heap) /\ <<t, x>> \in Values
        /\ M[u].ok <=> <<t, x>> \in Registered
    BY <1>2, <2>1 DEF Recorded
  <2>3. IsSeq(ps)
    BY <1>3, <2>2 DEF Shaped, Typed, IsTable
  <2>4. Written(M, t, x, ps, << >>)
    BY <1>2, <1>3, <2>1 DEF Whole
  <2>5. /\ \A i \in 1..Len(ps) :
             /\ ps[i][1] # <<Nil>> /\ \A j \in 1..Len(ps) : ps[i][1] = ps[j][1] => i = j
             /\ Has(M, Elem[t], ps[i][2])
             /\ Kind[t] = "map" => Has(M, Key[t], ps[i][1])
        /\ <<t, x>> \in Registered <=> \A i \in 1..Len(ps) : Fine(M, t, ps[i])
        /\ x = <<Kind[t], Collected(M, t, ps, Len(ps))>>
    BY <1>2, <2>2, <2>3, <2>4, WholeRead
  <2> QED
    BY <2>1, <2>2, <2>5
<1> QED
  BY <1>3 DEF Consistent

\* What is read back is read as the value that was written.
Expected(M, v) ==
  /\ Ok(M, origin.type, v) <=> <<origin.type, origin.value>> \in Registered
  /\ Meaning(M, origin.type, v) = origin.value

LEMMA ReadBackMeans ==
  ASSUME Shaped, Original, NEW M, Denoting(M), NEW above \in {<< >>, << <<"integer", 0>> >>},
         ReadBack(above)
  PROVE  \E v : Meaningful(M, v)' /\ Expected(M, v)'
<1>1. PICK t, x, v : t = origin.type /\ x = origin.value /\ v = stack[1]
  OBVIOUS
<1>2. /\ pc[1] = "end" /\ ~error /\ Writing /\ pc' = <<"from", t, 1>>
      /\ stack' = stack \o above /\ UNCHANGED <<containers, heap, error>>
  BY <1>1 DEF ReadBack, Writing
<1>3. t = origin'.type /\ x = origin'.value
  <2>1. origin = [type |-> origin.type, value |-> origin.value, by |-> origin.by]
    BY DEF Shaped, Typed, Tagged
  <2>2. origin' = [origin EXCEPT !.by = "back"]
    BY DEF ReadBack
  <2>3. origin' = [type |-> origin.type, value |-> origin.value, by |-> "back"]
    BY <2>1, <2>2
  <2> QED
    BY <1>1, <2>3
<1>4. containers = << >> /\ Len(containers) = 0 /\ Len(containers') = 0
  BY <1>2, EmptyIs DEF Shaped, Directed
<1>5. Len(stack) = 1 /\ IsSeq(stack)
  BY <1>2, <1>4 DEF Shaped, WritePlaced, Wanted, Typed
<1>6. stack'[1] = v
  <2>1. IsSeq(above)
    <3>1. CASE above = << >>
      BY <3>1, EmptyIs
    <3>2. CASE above = << <<"integer", 0>> >>
      <4>1. \A e : <<e>> \in Seq({e})
        OBVIOUS
      <4>2. above \in Seq({<<"integer", 0>>})
        BY <3>2, <4>1
      <4> QED
        BY <4>2, SeqIs
    <3> QED
      BY <3>1, <3>2
  <2>2. 1 \in 1..Len(stack)
    BY <1>5
  <2>3. (stack \o above)[1] = stack[1]
    BY <1>5, <2>1, <2>2, JoinSeq
  <2> QED
    BY <1>1, <1>2, <2>3
<1>7. <<t, x>> \in Values
  BY <1>1, <1>2 DEF Original, Writing
<1>8. Recorded(M) /\ Stands(M, t, v, x)
  <2>1. Due(M, 0, t, x) /\ ~(0 < Len(containers))
    BY <1>1, <1>4 DEF Denoting
  <2> QED
    BY <1>1, <1>2, <1>5, <2>1 DEF Denoting, Due
<1>9. Ok(M, t, v) <=> <<t, x>> \in Registered
  BY <1>7, <1>8, OkStands
<1>10. Meaning(M, t, v) = x
  BY <1>8 DEF Stands
<1>11. Consistent(M)'
  BY <1>2, <1>4, DenotingRead, ConsistentKept
<1>12. Has(M, t, v)
  BY <1>8, StandsSome DEF Stands
<1>13. Child(M, 0, t, v)'
  <2>1. pc'[1] = "from" /\ pc'[2] = t /\ pc'[3] = 1
    BY <1>2
  <2> QED
    BY <1>4, <1>6, <2>1 DEF Child
<1>14. Meaningful(M, v)'
  <2>1. pc'[1] = "from" /\ pc'[2] = t /\ pc'[3] = 1 /\ ~error'
    BY <1>2
  <2>2. \A k \in 1..Len(containers') : FALSE
    BY <1>4
  <2>3. Has(M, origin.type, v)'
    BY <1>3, <1>12 DEF Has
  <2>4. Child(M, 0, origin.type, v)'
    BY <1>3, <1>13 DEF Child
  <2>5. Ok(M, origin.type, v)' => Ok(M, pc[2], stack[pc[3]])'
    BY <1>3, <1>6, <2>1 DEF Ok
  <2> QED
    BY <1>11, <2>1, <2>2, <2>3, <2>4, <2>5 DEF Meaningful
<1>15. Expected(M, v)'
  BY <1>3, <1>9, <1>10 DEF Expected, Ok, Meaning
<1> QED
  BY <1>14, <1>15

\* What is written is known, and then what it is read as.
Remembered ==
  /\ Writing /\ ~error /\ Pure => \E M : Denoting(M)
  /\ origin.by = "back" /\ origin.type \in Plain /\ Pure =>
       \E M, v : Meaningful(M, v) /\ Expected(M, v)

LEMMA RememberedInit == ConvertInit => Remembered
<1> SUFFICES ASSUME ConvertInit PROVE Remembered
  OBVIOUS
<1>1. ASSUME NEW s, origin = [type |-> s[3], value |-> s[2], by |-> "lua"]
      PROVE  Remembered
  BY <1>1 DEF Remembered, Writing
<1>2. ASSUME NEW vt \in Values, pc = <<"to", vt[1], vt[2]>>,
             origin = [type |-> vt[1], value |-> vt[2], by |-> "cpp"]
      PROVE  Remembered
  <2>1. PICK M : M = [u \in {} |-> u]
    OBVIOUS
  <2>2. DOMAIN M = {}
    BY <2>1
  <2>3. Len(containers) = 0 /\ \A k \in 1..Len(containers) : FALSE
    BY EmptyIs DEF ConvertInit
  <2>4. Due(M, 0, origin.type, origin.value)
    BY <1>2, <2>3 DEF Due
  <2>5. Denoting(M)
    BY <2>2, <2>3, <2>4 DEF Denoting, Recorded
  <2>6. origin.by # "back"
    BY <1>2
  <2> QED
    BY <2>5, <2>6 DEF Remembered
<1> QED
  BY <1>1, <1>2 DEF ConvertInit

LEMMA DenotingStep ==
  ASSUME Shaped, Exactly, Writing, Pure, ~error, ~error', NEW M, Denoting(M), Step
  PROVE  \E N : Denoting(N)'
<1>1. CASE ToBasic
  <2>1. <<pc[2], pc[3]>> \in Exact
    BY <1>1 DEF Exactly, ToBasic
  <2> QED
    BY <1>1, <2>1, ToBasicDenotes
<1>2. CASE ToEnum
  BY <1>2, ToEnumDenotes
<1>3. CASE ToUnknown
  BY <1>3 DEF ToUnknown
<1>4. CASE ToOpen
  BY <1>4, ToOpenDenotes
<1>5. CASE ToNext
  BY <1>5, ToNextDenotes
<1>6. CASE ToValue
  BY <1>6, ToValueDenotes
<1>7. CASE ToSettled
  BY <1>7, ToSettledDenotes
<1>8. CASE ToClose
  BY <1>8, ToCloseDenotes
<1>9. CASE Finish
  BY <1>9, FinishDenotes
<1>10. CASE FromBasic \/ FromEnum \/ FromOpen
  <2>1. pc[1] = "from"
    BY <1>10 DEF FromBasic, FromEnum, FromOpen
  <2> QED
    BY <2>1 DEF Shaped, Directed
<1>11. CASE FromNext \/ FromRaise \/ FromElement \/ FromKey \/ FromPair
  <2>1. containers # << >> /\ ~F.to
    BY <1>11 DEF FromNext, FromRaise, FromElement, FromKey, FromPair, FromFrame
  <2> QED
    BY <2>1, ToOrFrom
<1> QED
  BY <1>1, <1>2, <1>3, <1>4, <1>5, <1>6, <1>7, <1>8, <1>9, <1>10, <1>11 DEF Step

LEMMA RememberedStep ==
  ASSUME Shaped, Original, LaidOut, Exactly, Remembered, [ConvertNext]_convertVars
  PROVE  Remembered'
<1>1. CASE UNCHANGED convertVars
  <2>1. /\ pc' = pc /\ containers' = containers /\ stack' = stack /\ heap' = heap
        /\ error' = error /\ rest' = rest /\ origin' = origin
    BY <1>1 DEF convertVars
  <2>2. ASSUME Writing, ~error, Pure PROVE (\E M : Denoting(M))'
    <3>1. PICK M : Denoting(M)
      BY <2>2 DEF Remembered
    <3>2. PICK n : n = Len(containers)
      OBVIOUS
    <3>3. \A t, x : Due(M, n, t, x)' <=> Due(M, n, t, x)
      BY <2>1 DEF Due, TableOf, Stands, Denoted, Meaning
    <3>4. \A j \in 1..Len(stack) : stack'[j] = stack[j]
      BY <2>1
    <3> QED
      BY <2>1, <2>2, <3>1, <3>2, <3>3, <3>4, DenotingKept
  <2>3. ASSUME origin.by = "back", origin.type \in Plain, Pure
        PROVE  (\E M, v : Meaningful(M, v) /\ Expected(M, v))'
    <3>1. PICK M, v : Meaningful(M, v) /\ Expected(M, v)
      BY <2>3 DEF Remembered
    <3>2. Meaningful(M, v)'
      BY <2>3, <3>1, MeaningStep DEF Reading, Writing
    <3>3. Expected(M, v)'
      BY <2>1, <3>1 DEF Expected, Ok, Meaning
    <3> QED
      BY <3>2, <3>3
  <2> QED
    BY <2>1, <2>2, <2>3 DEF Remembered, Writing, Pure
<1>2. ASSUME NEW above \in {<< >>, << <<"integer", 0>> >>}, ReadBack(above)
      PROVE  Remembered'
  <2> SUFFICES ASSUME Pure' PROVE Remembered'
    BY DEF Remembered
  <2>1. Writing /\ ~error
    BY <1>2 DEF ReadBack, Writing
  <2>0. Pure
    <3>1. origin = [type |-> origin.type, value |-> origin.value, by |-> origin.by]
      BY DEF Shaped, Typed, Tagged
    <3>2. origin' = [type |-> origin.type, value |-> origin.value, by |-> "back"]
      BY <1>2, <3>1 DEF ReadBack
    <3> QED
      BY <3>2 DEF Pure
  <2>2. PICK M : Denoting(M)
    BY <2>0, <2>1 DEF Remembered
  <2>3. \E v : Meaningful(M, v)' /\ Expected(M, v)'
    BY <1>2, <2>2, ReadBackMeans
  <2>4. ~Writing'
    <3>1. origin = [type |-> origin.type, value |-> origin.value, by |-> origin.by]
      BY DEF Shaped, Typed, Tagged
    <3>2. origin' = [origin EXCEPT !.by = "back"]
      BY <1>2 DEF ReadBack
    <3>3. origin' = [type |-> origin.type, value |-> origin.value, by |-> "back"]
      BY <3>1, <3>2
    <3> QED
      BY <3>3 DEF Writing
  <2> QED
    BY <2>3, <2>4 DEF Remembered
<1>3. CASE Step
  <2>1. UNCHANGED origin
    BY <1>3 DEF Step, ToBasic, ToEnum, ToUnknown, ToOpen, ToNext, ToValue, ToSettled, ToClose,
       FromBasic, FromEnum, FromOpen, FromNext, FromClose, FromRaise, FromElement, FromKey,
       FromPair, Finish
  <2>2. ~error' => ~error
    BY <1>3 DEF Step, ToBasic, ToEnum, ToUnknown, ToOpen, ToNext, ToValue, ToSettled, ToClose,
       FromBasic, FromEnum, FromOpen, FromNext, FromClose, FromRaise, FromElement, FromKey,
       FromPair, Finish
  <2>3. ASSUME Writing, ~error', Pure PROVE (\E M : Denoting(M))'
    <3>1. PICK M : Denoting(M)
      BY <2>2, <2>3 DEF Remembered
    <3> QED
      BY <1>3, <2>2, <2>3, <3>1, DenotingStep
  <2>4. ASSUME origin.by = "back", origin.type \in Plain, Pure
        PROVE  (\E M, v : Meaningful(M, v) /\ Expected(M, v))'
    <3>1. PICK M, v : Meaningful(M, v) /\ Expected(M, v)
      BY <2>4 DEF Remembered
    <3>2. Meaningful(M, v)'
      BY <2>4, <3>1, MeaningStep DEF Reading, Writing
    <3>3. Expected(M, v)'
      BY <2>1, <3>1 DEF Expected, Ok, Meaning
    <3> QED
      BY <3>2, <3>3
  <2> QED
    BY <2>1, <2>3, <2>4 DEF Remembered, Writing, Pure
<1> QED
  BY <1>1, <1>2, <1>3 DEF ConvertNext

(***************************************************************************)
(* What C++ writes, with no NUL in a string, is read back by the same type *)
(* as the same value, however containers are nested and in whatever order  *)
(* Lua finds their elements: no two of its keys become one.  A value with  *)
(* an enumerator that is not registered is refused with an error, and      *)
(* never read as another.                                                  *)
(***************************************************************************)
THEOREM WrittenIsReadBack == ConvertSpec => []RoundTrip
<1>1. ASSUME Shaped, LaidOut, Remembered, EndNamed
      PROVE  RoundTrip
  <2> SUFFICES ASSUME Ended, origin.by = "back", origin.type \in Plain, Pure
               PROVE  IF <<origin.type, origin.value>> \in Registered
                      THEN pc = <<"end", origin.value>> /\ ~error
                      ELSE error
    BY DEF RoundTrip, Pure
  <2>1. Reading
    BY DEF Reading, Writing
  <2>2. PICK M, v : Meaningful(M, v) /\ Expected(M, v)
    BY <1>1 DEF Remembered
  <2>3. /\ Ok(M, origin.type, v) <=> <<origin.type, origin.value>> \in Registered
        /\ Meaning(M, origin.type, v) = origin.value
    BY <2>2 DEF Expected
  <2>4. Len(containers) = 0
    BY <1>1, EmptyIs DEF Ended, Shaped, Directed
  <2>5. ~error => pc[1] = "end"
    BY <1>1, <2>1 DEF Ended, LaidOut
  <2>6. ~error => Ok(M, origin.type, v) /\ pc[2] = Meaning(M, origin.type, v)
    <3> SUFFICES ASSUME ~error PROVE Ok(M, origin.type, v) /\ pc[2] = Meaning(M, origin.type, v)
      OBVIOUS
    <3>1. Child(M, 0, origin.type, v)
      BY <2>2 DEF Meaningful
    <3> QED
      BY <2>4, <2>5, <3>1 DEF Child
  <2>7. Ok(M, origin.type, v) => ~error
    BY <2>2 DEF Meaningful
  <2>8. ~error => pc = <<"end", pc[2]>>
    BY <1>1, <2>5 DEF EndNamed
  <2> QED
    BY <2>3, <2>6, <2>7, <2>8
<1>2. ConvertSpec => []Remembered
  <2>1. /\ Shaped /\ Original /\ LaidOut /\ Exactly /\ Remembered
        /\ [ConvertNext]_convertVars
        => Remembered'
    BY RememberedStep
  <2>2. Shaped /\ Original /\ Exactly /\ [ConvertNext]_convertVars => Exactly'
    BY ExactlyStep
  <2>3. ConvertSpec => []Exactly
    BY <2>2, ExactlyInit, LaidOutAlways, PTL DEF ConvertSpec
  <2> QED
    BY <2>1, <2>3, RememberedInit, LaidOutAlways, PTL DEF ConvertSpec
<1> QED
  BY <1>1, <1>2, EndNamedAlways, LaidOutAlways, PTL
================================================================================
