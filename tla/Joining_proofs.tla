---------------------------- MODULE Joining_proofs ----------------------------
(***************************************************************************)
(* Lemmas about Joined, with which the properties collect the application  *)
(* data of a sequence of records.                                          *)
(*                                                                         *)
(* Induction is by the least counterexample: the natural numbers are well  *)
(* founded, so a set of them that holds 0 and every successor is Nat.      *)
(***************************************************************************)
EXTENDS Joining, Integers, WellFoundedInduction, TLAPS

-----------------------------------------------------------------------------
(* What the arguments need of the operators on sequences.                  *)

\* A sequence over a set is one over every larger set.
LEMMA SeqMonotonic ==
    ASSUME NEW S, NEW T, S \subseteq T, NEW q \in Seq(S)
    PROVE  q \in Seq(T)
OBVIOUS

\* The empty sequence, and that only it has no element.
LEMMA EmptySeq ==
    ASSUME NEW S
    PROVE  <<>> \in Seq(S) /\ Len(<<>>) = 0 /\ \A q \in Seq(S) : q # <<>> => Len(q) \in Nat \ {0}
OBVIOUS

\* Two sequences with the same elements in the same places are one.
LEMMA SeqEqual ==
    ASSUME NEW S, NEW p \in Seq(S), NEW q \in Seq(S), Len(p) = Len(q),
           \A i \in 1..Len(p) : p[i] = q[i]
    PROVE  p = q
OBVIOUS

\* A concatenation holds the elements of its parts, one part behind the other.
LEMMA ConcatProperties ==
    ASSUME NEW S, NEW p \in Seq(S), NEW q \in Seq(S)
    PROVE  /\ p \o q \in Seq(S) /\ Len(p \o q) = Len(p) + Len(q)
           /\ \A i \in 1..(Len(p) + Len(q)) :
                (p \o q)[i] = IF i <= Len(p) THEN p[i] ELSE q[i - Len(p)]
OBVIOUS

\* The empty sequence adds nothing on either side.
LEMMA ConcatEmptySeq ==
    ASSUME NEW S, NEW q \in Seq(S)
    PROVE  q \o <<>> = q /\ <<>> \o q = q
OBVIOUS

\* Three sequences in a row can be joined from either end.
LEMMA ConcatAssociative ==
    ASSUME NEW S, NEW p \in Seq(S), NEW q \in Seq(S), NEW r \in Seq(S)
    PROVE  (p \o q) \o r = p \o (q \o r)
OBVIOUS

\* The first element and the others.
LEMMA HeadTailProperties ==
    ASSUME NEW S, NEW q \in Seq(S), q # <<>>
    PROVE  /\ Head(q) \in S /\ Tail(q) \in Seq(S) /\ Len(Tail(q)) = Len(q) - 1
           /\ \A i \in 1..Len(Tail(q)) : Tail(q)[i] = q[i + 1]
OBVIOUS

\* A part, and the part that starts where it ends.
LEMMA ConcatAdjacentSubSeq ==
    ASSUME NEW S, NEW q \in Seq(S), NEW i \in 1..(Len(q) + 1), NEW j \in (i - 1)..Len(q),
           NEW k \in j..Len(q)
    PROVE  SubSeq(q, i, j) \o SubSeq(q, j + 1, k) = SubSeq(q, i, k)
OBVIOUS

\* One more element at the end.
LEMMA AppendProperties ==
    ASSUME NEW S, NEW q \in Seq(S), NEW e \in S
    PROVE  /\ Append(q, e) \in Seq(S) /\ Append(q, e) # <<>> /\ Len(Append(q, e)) = Len(q) + 1
           /\ \A i \in 1..Len(q) : Append(q, e)[i] = q[i]
           /\ Append(q, e)[Len(q) + 1] = e
OBVIOUS

LEMMA AppendIsConcat ==
    ASSUME NEW S, NEW q \in Seq(S), NEW e \in S
    PROVE  Append(q, e) = q \o <<e>>
OBVIOUS

-----------------------------------------------------------------------------
(* Induction.                                                              *)

\* A non-empty set of naturals has a least member.
LEMMA LeastNumber ==
    ASSUME NEW S \in SUBSET Nat, S # {}
    PROVE  \E m \in S : \A n \in S : m <= n
<1>1. IsWellFoundedOn(OpToRel(<, Nat), Nat)
  BY NatLessThanWellFounded
<1>2. PICK m \in S : \A n \in S : <<n, m>> \notin OpToRel(<, Nat)
  BY <1>1, WFMin
<1>3. \A n \in S : ~(n < m)
  BY <1>2 DEF OpToRel
<1> QED BY <1>3

\* Induction, with a set of numbers in the place of a predicate.
LEMMA Induction ==
    ASSUME NEW P \in SUBSET Nat, 0 \in P, \A n \in P : n + 1 \in P
    PROVE  P = Nat
<1>1. SUFFICES ASSUME Nat \ P # {} PROVE FALSE
  OBVIOUS
<1>2. PICK m \in Nat \ P : \A n \in Nat \ P : m <= n
  BY <1>1, LeastNumber
<1>3. m - 1 \in Nat /\ m - 1 \notin Nat \ P
  BY <1>2
<1> QED BY <1>2, <1>3

-----------------------------------------------------------------------------
(* The recursive function inside Joined.                                   *)

\* g joins the first k members of ss, one by one.
JoinStep(g, ss, i) == IF i = 0 THEN <<>> ELSE g[i - 1] \o ss[i]
JoinTo(g, ss, k) == g = [i \in 0..k |-> JoinStep(g, ss, i)]

\* Such a function has the value its equation gives at every step.
LEMMA JoinAt ==
    ASSUME NEW ss, NEW n, NEW g, JoinTo(g, ss, n), NEW k \in 0..n
    PROVE  g[k] = JoinStep(g, ss, k)
BY DEF JoinTo

\* Joined takes some function with the recursion's equation, once there is one.
LEMMA JoinedDef ==
    ASSUME NEW ss, NEW g, JoinTo(g, ss, Len(ss))
    PROVE  \E h : JoinTo(h, ss, Len(ss)) /\ Joined(ss) = h[Len(ss)]
<1> DEFINE h == CHOOSE h : JoinTo(h, ss, Len(ss))
<1>1. JoinTo(h, ss, Len(ss))
  OBVIOUS
<1>2. Joined(ss) = h[Len(ss)]
  BY DEF Joined, JoinTo, JoinStep
<1> QED BY <1>1, <1>2

\* There is one, by induction on how far it goes, and its values are sequences.
LEMMA JoinExists ==
    ASSUME NEW S, NEW ss \in Seq(Seq(S))
    PROVE  \A k \in 0..Len(ss) : \E g : JoinTo(g, ss, k) /\ \A i \in 0..k : g[i] \in Seq(S)
<1> DEFINE Typed(g, k) == JoinTo(g, ss, k) /\ \A i \in 0..k : g[i] \in Seq(S)
           P == {k \in Nat : k <= Len(ss) => \E g : Typed(g, k)}
<1>0. Len(ss) \in Nat /\ \A i \in 1..Len(ss) : ss[i] \in Seq(S)
  OBVIOUS
<1>1. 0 \in P
  <2> DEFINE g == [i \in 0..0 |-> <<>>]
  <2>1. \A i \in 0..0 : i = 0 /\ g[i] \in Seq(S) /\ JoinStep(g, ss, i) = <<>>
    BY DEF JoinStep
  <2>2. Typed(g, 0)
    BY <2>1 DEF JoinTo
  <2> QED BY <2>2
<1>2. ASSUME NEW k \in Nat, k + 1 <= Len(ss), NEW g, Typed(g, k)
      PROVE  \E h : Typed(h, k + 1)
  <2> DEFINE last == g[k] \o ss[k + 1]
             h == [i \in 0..(k + 1) |-> IF i = k + 1 THEN last ELSE g[i]]
  <2> HIDE DEF last
  <2>1. /\ DOMAIN h = 0..(k + 1) /\ h[k + 1] = last
        /\ \A i \in 0..k : h[i] = g[i]
    OBVIOUS
  <2>2. last \in Seq(S)
    <3>1. ss[k + 1] \in Seq(S)
      BY <1>0, <1>2
    <3>2. g[k] \in Seq(S)
      BY <1>2
    <3> QED BY <3>1, <3>2 DEF last
  <2>3. \A i \in 0..(k + 1) : h[i] \in Seq(S)
    BY <1>2, <2>1, <2>2
  <2>4. ASSUME NEW i \in 0..(k + 1)
        PROVE  h[i] = JoinStep(h, ss, i)
    <3>1. CASE i = k + 1
      <4>1. k \in 0..k /\ i - 1 = k /\ i # 0
        BY <3>1
      <4> HIDE DEF h
      <4> QED BY <2>1, <3>1, <4>1 DEF last, JoinStep
    <3>2. CASE i # k + 1
      <4>1. i \in 0..k /\ (i # 0 => i - 1 \in 0..k)
        BY <3>2
      <4>0. JoinTo(g, ss, k)
        BY <1>2
      <4>2. g[i] = JoinStep(g, ss, i)
        BY <4>0, <4>1, JoinAt
      <4>3. JoinStep(g, ss, i) = JoinStep(h, ss, i)
        BY <2>1, <4>1 DEF JoinStep
      <4> HIDE DEF h
      <4> QED BY <2>1, <4>1, <4>2, <4>3
    <3> QED BY <3>1, <3>2
  <2>5. h = [i \in 0..(k + 1) |-> h[i]]
    BY <2>1
  <2> HIDE DEF h
  <2>6. JoinTo(h, ss, k + 1)
    BY <2>4, <2>5 DEF JoinTo
  <2>7. Typed(h, k + 1)
    BY <2>3, <2>6
  <2> QED BY <2>7
<1>3. ASSUME NEW k \in P
      PROVE  k + 1 \in P
  <2>1. k \in Nat
    OBVIOUS
  <2>2. k + 1 <= Len(ss) => \E g : Typed(g, k)
    BY <1>0, <2>1
  <2> HIDE DEF Typed
  <2>3. k + 1 <= Len(ss) => \E g : Typed(g, k + 1)
    BY <1>2, <2>1, <2>2
  <2> QED BY <2>1, <2>3
<1>4. P = Nat
  <2>1. P \in SUBSET Nat
    OBVIOUS
  <2> HIDE DEF P
  <2> QED BY <1>1, <1>3, <2>1, Induction
<1> HIDE DEF Typed
<1>5. \A k \in 0..Len(ss) : \E g : Typed(g, k)
  BY <1>0, <1>4
<1> QED BY <1>5 DEF Typed

\* f and g have the same first k values.
Agree(f, g, k) == \A i \in 1..k : f[i] = g[i]

\* The function is determined by the sequences it joins.
LEMMA JoinUnique ==
    ASSUME NEW ss, NEW tt, NEW g, NEW h, NEW m \in Nat, NEW n \in Nat,
           JoinTo(g, ss, m), JoinTo(h, tt, n), m <= n,
           Agree(ss, tt, m)
    PROVE  \A i \in 0..m : g[i] = h[i]
<1> DEFINE P == {k \in Nat : k \in 0..m => g[k] = h[k]}
<1>1. 0 \in P
  <2>1. 0 \in 0..m /\ 0 \in 0..n
    OBVIOUS
  <2> QED BY <2>1, JoinAt DEF JoinStep
<1>2. ASSUME NEW k \in P, k + 1 \in 0..m
      PROVE  g[k + 1] = h[k + 1]
  <2>1. k \in Nat /\ k + 1 \in 0..n /\ k + 1 # 0
    BY <1>2
  <2>2. g[k + 1] = JoinStep(g, ss, k + 1)
    BY <1>2, JoinAt
  <2>3. h[k + 1] = JoinStep(h, tt, k + 1)
    BY <2>1, JoinAt
  <2>4. g[k] = h[k]
    BY <1>2
  <2>5. (k + 1) - 1 = k /\ ss[k + 1] = tt[k + 1]
    BY <1>2 DEF Agree
  <2> QED BY <2>1, <2>2, <2>3, <2>4, <2>5 DEF JoinStep
<1>3. P = Nat
  <2>1. P \in SUBSET Nat /\ \A k \in P : k + 1 \in P
    BY <1>2
  <2> HIDE DEF P
  <2> QED BY <1>1, <2>1, Induction
<1> QED BY <1>3

-----------------------------------------------------------------------------
(* Joined.                                                                 *)

\* What Joined returns is the last value of the function, whichever function
\* with the recursion's equation is taken.
LEMMA JoinedIs ==
    ASSUME NEW S, NEW ss \in Seq(Seq(S)), NEW g, JoinTo(g, ss, Len(ss))
    PROVE  Joined(ss) = g[Len(ss)]
<1>1. Len(ss) \in Nat
  OBVIOUS
<1>2. PICK h : JoinTo(h, ss, Len(ss)) /\ Joined(ss) = h[Len(ss)]
  BY JoinedDef
<1>3. Agree(ss, ss, Len(ss))
  BY DEF Agree
<1>4. \A i \in 0..Len(ss) : h[i] = g[i]
  BY <1>1, <1>2, <1>3, JoinUnique
<1> QED BY <1>1, <1>2, <1>4

\* Sequences over S join to a sequence over S.
LEMMA JoinedType ==
    ASSUME NEW S, NEW ss \in Seq(Seq(S))
    PROVE  Joined(ss) \in Seq(S)
<1>1. Len(ss) \in Nat /\ Len(ss) \in 0..Len(ss)
  OBVIOUS
<1>2. PICK g : JoinTo(g, ss, Len(ss)) /\ \A i \in 0..Len(ss) : g[i] \in Seq(S)
  BY <1>1, JoinExists
<1> QED BY <1>1, <1>2, JoinedIs

\* No sequence at all joins to the empty one.
LEMMA JoinedEmpty == Joined(<<>>) = <<>>
<1>0. <<>> \in Seq(Seq({})) /\ Len(<<>>) = 0
  OBVIOUS
<1>1. PICK none \in Seq(Seq({})) : none = <<>> /\ Len(none) = 0
  BY <1>0
<1>2. 0 \in 0..Len(none) /\ 0 \in 0..0
  BY <1>1
<1>3. PICK g : JoinTo(g, none, 0)
  BY <1>2, JoinExists
<1>4. Joined(none) = g[0]
  <2>1. JoinTo(g, none, Len(none))
    BY <1>1, <1>3
  <2> QED BY <1>1, <2>1, JoinedIs
<1>5. g[0] = JoinStep(g, none, 0)
  BY <1>2, <1>3, JoinAt
<1> QED BY <1>1, <1>4, <1>5 DEF JoinStep

\* One more sequence adds its members at the end.
LEMMA JoinedAppend ==
    ASSUME NEW S, NEW ss \in Seq(Seq(S)), NEW s \in Seq(S)
    PROVE  Joined(Append(ss, s)) = Joined(ss) \o s
<1> DEFINE tt == Append(ss, s)
           n == Len(ss)
<1>1. /\ tt \in Seq(Seq(S)) /\ n \in Nat /\ Len(tt) = n + 1 /\ tt[n + 1] = s
      /\ \A i \in 1..n : ss[i] = tt[i]
  BY AppendProperties
<1>0. /\ n \in 0..Len(ss) /\ n + 1 \in 0..Len(tt) /\ n + 1 \in 0..(n + 1) /\ n \in 0..n
      /\ n + 1 \in Nat /\ n <= n + 1 /\ (n + 1) - 1 = n /\ n + 1 # 0
  BY <1>1
<1> HIDE DEF tt, n
<1>2. PICK h : JoinTo(h, tt, n + 1)
  BY <1>0, <1>1, JoinExists
<1>3. h[n + 1] = JoinStep(h, tt, n + 1)
  BY <1>0, <1>2, JoinAt
<1>4. Joined(tt) = h[n + 1]
  BY <1>1, <1>2, JoinedIs
<1>5. PICK e : JoinTo(e, ss, n)
  BY <1>0, JoinExists
<1>6. Joined(ss) = e[n]
  BY <1>5, JoinedIs DEF n
<1>7. \A i \in 0..n : e[i] = h[i]
  <2> DEFINE m == n + 1
  <2>1. /\ n \in Nat /\ m \in Nat /\ n <= m /\ JoinTo(e, ss, n) /\ JoinTo(h, tt, m)
        /\ Agree(ss, tt, n)
    BY <1>0, <1>1, <1>2, <1>5 DEF Agree
  <2> HIDE DEF m
  <2> QED BY <2>1, JoinUnique
<1>8. h[n] = e[n]
  BY <1>0, <1>7
<1> QED BY <1>0, <1>1, <1>3, <1>4, <1>6, <1>8 DEF tt, JoinStep

\* Joining distributes over concatenation, by induction on the second part.
LEMMA JoinedConcat ==
    ASSUME NEW S, NEW ss \in Seq(Seq(S)), NEW tt \in Seq(Seq(S))
    PROVE  Joined(ss \o tt) = Joined(ss) \o Joined(tt)
<1> DEFINE Adds(u) == Joined(ss \o u) = Joined(ss) \o Joined(u)
           P == {n \in Nat : \A u \in Seq(Seq(S)) : Len(u) = n => Adds(u)}
<1>1. ASSUME NEW u \in Seq(Seq(S)), Len(u) = 0
      PROVE  Adds(u)
  <2>1. u = <<>> /\ ss \o u = ss
    BY <1>1, ConcatEmptySeq
  <2>2. Joined(ss) \in Seq(S)
    BY JoinedType
  <2> QED BY <2>1, <2>2, JoinedEmpty, ConcatEmptySeq
<1>2. ASSUME NEW n \in Nat, NEW u \in Seq(Seq(S)), Len(u) = n + 1,
             \A v \in Seq(Seq(S)) : Len(v) = n => Adds(v)
      PROVE  Adds(u)
  <2> DEFINE v == SubSeq(u, 1, n)
             s == u[n + 1]
  <2>1. v \in Seq(Seq(S)) /\ Len(v) = n /\ s \in Seq(S) /\ u = Append(v, s)
    BY <1>2
  <2> HIDE DEF v, s
  <2>2. ss \o v \in Seq(Seq(S)) /\ ss \o u = Append(ss \o v, s)
    <3>1. ss \o v \in Seq(Seq(S))
      BY <2>1
    <3>2. /\ Append(ss \o v, s) = (ss \o v) \o <<s>> /\ u = v \o <<s>>
          /\ <<s>> \in Seq(Seq(S))
      BY <2>1, <3>1, AppendIsConcat
    <3>3. ss \o (v \o <<s>>) = (ss \o v) \o <<s>>
      BY <2>1, <3>2, ConcatAssociative
    <3> QED BY <3>1, <3>2, <3>3
  <2>3. /\ Joined(ss \o u) = Joined(ss \o v) \o s
        /\ Joined(u) = Joined(v) \o s
        /\ Joined(ss \o v) = Joined(ss) \o Joined(v)
    BY <1>2, <2>1, <2>2, JoinedAppend
  <2>4. Joined(ss) \in Seq(S) /\ Joined(v) \in Seq(S)
    BY <2>1, JoinedType
  <2>5. \A a, b, c \in Seq(S) : a \o (b \o c) = (a \o b) \o c
    BY ConcatAssociative
  <2>6. Joined(ss) \o (Joined(v) \o s) = (Joined(ss) \o Joined(v)) \o s
    BY <2>1, <2>4, <2>5
  <2> QED BY <2>3, <2>6
<1> HIDE DEF Adds
<1>3. P = Nat
  <2>1. 0 \in P /\ P \in SUBSET Nat
    BY <1>1
  <2>2. \A n \in P : n + 1 \in P
    BY <1>2
  <2> HIDE DEF P
  <2> QED BY <2>1, <2>2, Induction
<1>4. Len(tt) \in P
  BY <1>3
<1> QED BY <1>4 DEF Adds
===============================================================================
