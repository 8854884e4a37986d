------------------------ MODULE DtlsReassembly_proofs ------------------------
(***************************************************************************)
(* What holds of the reassembler for every arena, every capacity and every *)
(* flight: a byte that has arrived is never lost again, the ranges say to  *)
(* the byte what has arrived, a flight is complete when all of it is there *)
(* and not before, and its transcript is the flight as it was sent.        *)
(*                                                                         *)
(* The inductive invariant, Good, says how the arena is laid out (the      *)
(* regions of the slots follow each other in the order in which the slots  *)
(* were taken, none reaches past `used`, which never exceeds the arena, no *)
(* message has two slots), that each byte that arrived belongs to a slot   *)
(* and is in its region, and that the ranges of a slot are sorted, apart,  *)
(* and cover exactly the bytes that arrived.  Under the fragments of a     *)
(* flight each slot is also one of a message of the flight (Strict).       *)
(***************************************************************************)
EXTENDS DtlsReassembly, FiniteSetTheorems, Joining_proofs, TLAPS
-----------------------------------------------------------------------------
(* The ranges of a slot.                                                   *)

Starts(rs, i) == rs[i][1]
Ends(rs, i) == rs[i][2]

\* Sorted, none empty, and none touches the next.
Tidy(rs) ==
    /\ rs \in Seq(Nat \X Nat)
    /\ \A i \in 1..Len(rs) : Starts(rs, i) < Ends(rs, i)
    /\ \A i, j \in 1..Len(rs) : i < j => Ends(rs, i) < Starts(rs, j)

In(b, lo, hi) == lo <= b /\ b < hi
Covers(rs, b) == \E i \in 1..Len(rs) : In(b, Starts(rs, i), Ends(rs, i))

\* All of them end in front of x.
Below(rs, x) == \A i \in 1..Len(rs) : Ends(rs, i) < x

\* What is known of a sequence of ranges when another one is put behind it.
LEMMA RangeAppended ==
    ASSUME NEW rs, Tidy(rs), NEW lo \in Nat, NEW hi \in Nat, lo < hi, Below(rs, lo),
           NEW t, t = Append(rs, <<lo, hi>>)
    PROVE  /\ Tidy(t)
           /\ \A b : Covers(t, b) <=> Covers(rs, b) \/ In(b, lo, hi)
           /\ \A x \in Nat : Below(t, x) <=> Below(rs, x) /\ hi < x
<1>1. PICK n \in Nat : n = Len(rs)
  BY DEF Tidy
<1>2. <<lo, hi>> \in Nat \X Nat /\ rs \in Seq(Nat \X Nat)
  BY DEF Tidy
<1>3. /\ t \in Seq(Nat \X Nat) /\ Len(t) = n + 1 /\ t[n + 1] = <<lo, hi>>
      /\ \A i \in 1..n : t[i] = rs[i]
  BY <1>1, <1>2, AppendProperties
<1>4. /\ Starts(t, n + 1) = lo /\ Ends(t, n + 1) = hi
      /\ \A i \in 1..n : Starts(t, i) = Starts(rs, i) /\ Ends(t, i) = Ends(rs, i)
  BY <1>3 DEF Starts, Ends
<1>5. n + 1 \in 1..(n + 1) /\ \A i \in 1..(n + 1) : i = n + 1 \/ i \in 1..n
  BY <1>1
<1>6. \A i \in 1..n : i \in 1..(n + 1)
  BY <1>1
<1>7. Tidy(t)
  <2>1. ASSUME NEW i \in 1..(n + 1) PROVE Starts(t, i) < Ends(t, i)
    <3>1. CASE i = n + 1
      BY <1>4, <3>1
    <3>2. CASE i \in 1..n
      BY <1>1, <1>4, <3>2, Zenon DEF Tidy
    <3> QED BY <1>5, <3>1, <3>2
  <2>2. ASSUME NEW i \in 1..(n + 1), NEW j \in 1..(n + 1), i < j PROVE Ends(t, i) < Starts(t, j)
    <3>0. i \in 1..n
      BY <1>1, <2>2
    <3>1. CASE j = n + 1
      BY <1>1, <1>4, <3>0, <3>1 DEF Below
    <3>2. CASE j \in 1..n
      BY <1>1, <1>4, <2>2, <3>0, <3>2, Zenon DEF Tidy
    <3> QED BY <1>5, <3>1, <3>2
  <2> QED BY <1>3, <2>1, <2>2, Zenon DEF Tidy
<1>8. ASSUME NEW b PROVE Covers(t, b) <=> Covers(rs, b) \/ In(b, lo, hi)
  <2>1. ASSUME Covers(t, b) PROVE Covers(rs, b) \/ In(b, lo, hi)
    <3>1. PICK i \in 1..(n + 1) : In(b, Starts(t, i), Ends(t, i))
      BY <1>3, <2>1 DEF Covers
    <3>2. CASE i = n + 1
      BY <1>4, <3>1, <3>2
    <3>3. CASE i \in 1..n
      BY <1>1, <1>4, <3>1, <3>3 DEF Covers
    <3> QED BY <1>5, <3>2, <3>3
  <2>2. ASSUME Covers(rs, b) PROVE Covers(t, b)
    <3>1. PICK i \in 1..n : In(b, Starts(rs, i), Ends(rs, i))
      BY <1>1, <2>2 DEF Covers
    <3> QED BY <1>3, <1>4, <1>6, <3>1, Zenon DEF Covers
  <2>3. ASSUME In(b, lo, hi) PROVE Covers(t, b)
    BY <1>3, <1>4, <1>5, <2>3, Zenon DEF Covers
  <2> QED BY <2>1, <2>2, <2>3
<1>9. \A x \in Nat : Below(t, x) <=> Below(rs, x) /\ hi < x
  BY <1>1, <1>3, <1>4, <1>5, <1>6, Zenon DEF Below
<1> QED BY <1>7, <1>8, <1>9

\* The lesser and the greater of two numbers.
LEMMA OfTwo ==
    ASSUME NEW a \in Nat, NEW b \in Nat
    PROVE  /\ Min({a, b}) = IF a <= b THEN a ELSE b
           /\ Max({a, b}) = IF a <= b THEN b ELSE a
<1>1. \E x \in {a, b} : \A y \in {a, b} : x <= y
  <2>1. CASE a <= b
    BY <2>1
  <2>2. CASE ~(a <= b)
    BY <2>2
  <2> QED BY <2>1, <2>2
<1>2. PICK m : m = Min({a, b})
  OBVIOUS
<1>3. m \in {a, b} /\ \A y \in {a, b} : m <= y
  BY <1>1, <1>2, Zenon DEF Min
<1>4. \E x \in {a, b} : \A y \in {a, b} : x >= y
  <2>1. CASE a <= b
    BY <2>1
  <2>2. CASE ~(a <= b)
    BY <2>2
  <2> QED BY <2>1, <2>2
<1>5. PICK n : n = Max({a, b})
  OBVIOUS
<1>6. n \in {a, b} /\ \A y \in {a, b} : n >= y
  BY <1>4, <1>5, Zenon DEF Max
<1> QED BY <1>2, <1>3, <1>5, <1>6

\* One of the first k ranges holds b.
Upto(rs, k, b) == \E i \in 1..k : In(b, Starts(rs, i), Ends(rs, i))

\* What the walk knows after k ranges: those it has put down and, until its own
\* range is among them, that range hold what the first k and [s, e) hold.
Walked(acc, rs, k, s, e) ==
    /\ acc = [lo |-> acc.lo, hi |-> acc.hi, merged |-> acc.merged, placed |-> acc.placed]
    /\ acc.lo \in Nat /\ acc.hi \in Nat /\ acc.lo < acc.hi /\ acc.placed \in BOOLEAN
    /\ Tidy(acc.merged)
    /\ \A j \in (k + 1)..Len(rs) : Below(acc.merged, Starts(rs, j))
    /\ ~acc.placed => Below(acc.merged, acc.lo)
    /\ acc.placed => \A j \in (k + 1)..Len(rs) : acc.hi < Starts(rs, j)
    /\ \A b \in Nat : (Covers(acc.merged, b) \/ (~acc.placed /\ In(b, acc.lo, acc.hi)))
                      <=> (Upto(rs, k, b) \/ In(b, s, e))

\* One more range.
LEMMA AbsorbStep ==
    ASSUME NEW rs, Tidy(rs), NEW k \in Nat, k < Len(rs), NEW s, NEW e,
           NEW acc, Walked(acc, rs, k, s, e), NEW to, to = Absorb(acc, rs[k + 1])
    PROVE  Walked(to, rs, k + 1, s, e)
<1>1. PICK n \in Nat : n = Len(rs)
  BY DEF Tidy
<1>2. PICK r1, r2 : rs[k + 1] = <<r1, r2>> /\ r1 = Starts(rs, k + 1) /\ r2 = Ends(rs, k + 1)
      /\ r1 \in Nat /\ r2 \in Nat
  <2>1. rs \in Seq(Nat \X Nat) /\ k + 1 \in 1..Len(rs)
    BY <1>1 DEF Tidy
  <2>2. rs[k + 1] \in Nat \X Nat
    BY <2>1
  <2> QED BY <2>2 DEF Starts, Ends
<1>0. r1 \in Nat /\ r2 \in Nat
  BY <1>2
<1>3. r1 < r2
  <2>1. k + 1 \in 1..Len(rs)
    BY <1>1
  <2> QED BY <1>2, <2>1 DEF Tidy
<1>4. PICK lo, hi, m, p : /\ acc = [lo |-> lo, hi |-> hi, merged |-> m, placed |-> p]
                          /\ lo = acc.lo /\ hi = acc.hi /\ m = acc.merged /\ p = acc.placed
  BY DEF Walked
<1>5. lo \in Nat /\ hi \in Nat /\ lo < hi /\ p \in BOOLEAN /\ Tidy(m)
  BY <1>4 DEF Walked
<1>6. /\ \A j \in (k + 1)..n : Below(m, Starts(rs, j))
      /\ ~p => Below(m, lo)
      /\ p => \A j \in (k + 1)..n : hi < Starts(rs, j)
  BY <1>1, <1>4 DEF Walked
<1>7. \A b \in Nat : (Covers(m, b) \/ (~p /\ In(b, lo, hi))) <=> (Upto(rs, k, b) \/ In(b, s, e))
  BY <1>4 DEF Walked
<1>8. \A j \in (k + 2)..n : Starts(rs, j) \in Nat /\ r2 < Starts(rs, j) /\ j \in (k + 1)..n
  <2> TAKE j \in (k + 2)..n
  <2>1. j \in 1..n /\ k + 1 \in 1..n /\ k + 1 < j /\ j \in (k + 1)..n
    BY <1>1
  <2>2. rs[j] \in Nat \X Nat
    BY <1>1, <2>1 DEF Tidy
  <2> QED BY <1>1, <1>2, <2>1, <2>2 DEF Tidy, Starts
<1>9. Below(m, r1) /\ (p => hi < r1)
  <2>1. k + 1 \in (k + 1)..n
    BY <1>1
  <2> QED BY <1>2, <1>6, <2>1
<1>10. \A b : Upto(rs, k + 1, b) <=> Upto(rs, k, b) \/ In(b, r1, r2)
  <2>1. k + 1 \in 1..(k + 1) /\ \A i : i \in 1..(k + 1) <=> i \in 1..k \/ i = k + 1
    OBVIOUS
  <2> QED BY <1>2, <2>1 DEF Upto
<1>11. (k + 1) + 1 = k + 2
  OBVIOUS
<1>12. CASE r2 < lo
  <2>1. ~p
    BY <1>3, <1>5, <1>2, <1>9, <1>12
  <2>2. PICK t : t = Append(m, <<r1, r2>>)
    BY Zenon
  <2>3. to = [lo |-> lo, hi |-> hi, merged |-> t, placed |-> p]
    <3>1. to = [acc EXCEPT !.merged = t]
      BY <1>2, <1>4, <1>12, <2>2 DEF Absorb
    <3> QED BY <1>4, <3>1
  <2>4. /\ Tidy(t)
        /\ \A b : Covers(t, b) <=> Covers(m, b) \/ In(b, r1, r2)
        /\ \A x \in Nat : Below(t, x) <=> Below(m, x) /\ r2 < x
    BY <1>0, <1>3, <1>5, <1>9, <2>2, RangeAppended, Zenon
  <2>5. Below(t, lo)
    BY <1>5, <1>6, <1>12, <2>1, <2>4
  <2>6. \A j \in (k + 2)..n : Below(t, Starts(rs, j))
    BY <1>6, <1>8, <2>4
  <2>7. \A b \in Nat : (Covers(t, b) \/ (~p /\ In(b, lo, hi))) <=> (Upto(rs, k + 1, b) \/ In(b, s, e))
    BY <1>7, <1>10, <2>4
  <2>8. to.lo = lo /\ to.hi = hi /\ to.merged = t /\ to.placed = p
    BY <2>3
  <2> QED BY <1>1, <1>5, <1>11, <2>1, <2>3, <2>4, <2>5, <2>6, <2>7, <2>8 DEF Walked
<1>13. CASE ~(r2 < lo) /\ hi < r1
  <2>1. PICK t : t = IF p THEN Append(m, <<r1, r2>>) ELSE Append(Append(m, <<lo, hi>>), <<r1, r2>>)
    BY Zenon
  <2>2. to = [lo |-> lo, hi |-> hi, merged |-> t, placed |-> TRUE]
    <3>1. CASE p
      <4>1. to = [[acc EXCEPT !.merged = t] EXCEPT !.placed = TRUE]
        BY <1>2, <1>4, <1>13, <2>1, <3>1 DEF Absorb
      <4> QED BY <1>4, <4>1, Zenon
    <3>2. CASE ~p
      <4>1. to = [[acc EXCEPT !.merged = t] EXCEPT !.placed = TRUE]
        BY <1>2, <1>4, <1>13, <2>1, <3>2 DEF Absorb
      <4> QED BY <1>4, <4>1, Zenon
    <3> QED BY <3>1, <3>2
  <2>3. /\ Tidy(t)
        /\ \A b : Covers(t, b) <=> Covers(m, b) \/ (~p /\ In(b, lo, hi)) \/ In(b, r1, r2)
        /\ \A x \in Nat : Below(t, x) <=> Below(m, x) /\ (~p => hi < x) /\ r2 < x
    <3>1. CASE p
      <4>1. t = Append(m, <<r1, r2>>)
        BY <2>1, <3>1
      <4>2. /\ Tidy(t)
            /\ \A b : Covers(t, b) <=> Covers(m, b) \/ In(b, r1, r2)
            /\ \A x \in Nat : Below(t, x) <=> Below(m, x) /\ r2 < x
        BY <1>0, <1>3, <1>5, <1>9, <4>1, RangeAppended, Zenon
      <4> QED BY <3>1, <4>2
    <3>2. CASE ~p
      <4>1. PICK u : u = Append(m, <<lo, hi>>)
        BY Zenon
      <4>2. t = Append(u, <<r1, r2>>)
        BY <2>1, <3>2, <4>1
      <4>3. /\ Tidy(u)
            /\ \A b : Covers(u, b) <=> Covers(m, b) \/ In(b, lo, hi)
            /\ \A x \in Nat : Below(u, x) <=> Below(m, x) /\ hi < x
        BY <1>5, <1>6, <3>2, <4>1, RangeAppended, Zenon
      <4>4. Below(u, r1)
        BY <1>2, <1>9, <1>13, <4>3
      <4>5. /\ Tidy(t)
            /\ \A b : Covers(t, b) <=> Covers(u, b) \/ In(b, r1, r2)
            /\ \A x \in Nat : Below(t, x) <=> Below(u, x) /\ r2 < x
        BY <1>0, <1>3, <4>2, <4>3, <4>4, RangeAppended, Zenon
      <4> QED BY <3>2, <4>3, <4>5
    <3> QED BY <3>1, <3>2
  <2>4. \A j \in (k + 2)..n : hi < Starts(rs, j)
    BY <1>2, <1>3, <1>5, <1>8, <1>13
  <2>5. \A j \in (k + 2)..n : Below(t, Starts(rs, j))
    BY <1>6, <1>8, <2>3, <2>4
  <2>6. \A b \in Nat : Covers(t, b) <=> (Upto(rs, k + 1, b) \/ In(b, s, e))
    BY <1>7, <1>10, <2>3
  <2>7. to.lo = lo /\ to.hi = hi /\ to.merged = t /\ to.placed = TRUE
    BY <2>2
  <2> QED BY <1>1, <1>5, <1>11, <2>2, <2>3, <2>4, <2>5, <2>6, <2>7 DEF Walked
<1>14. CASE ~(r2 < lo) /\ ~(hi < r1)
  <2>1. ~p
    BY <1>9, <1>14
  <2>2. PICK l : l = Min({lo, r1})
    OBVIOUS
  <2>3. PICK h : h = Max({hi, r2})
    OBVIOUS
  <2>4. l = (IF lo <= r1 THEN lo ELSE r1) /\ h = (IF hi <= r2 THEN r2 ELSE hi)
    BY <1>2, <1>5, <2>2, <2>3, OfTwo, SMTT(30)
  <2>5. l \in Nat /\ h \in Nat /\ l < h
    BY <1>2, <1>3, <1>5, <2>4
  <2>6. to = [lo |-> l, hi |-> h, merged |-> m, placed |-> p]
    <3>1. to = [[acc EXCEPT !.lo = l] EXCEPT !.hi = h]
      BY <1>2, <1>4, <1>14, <2>2, <2>3 DEF Absorb
    <3> QED BY <1>4, <3>1, Zenon
  <2>7. Below(m, l)
    BY <1>6, <1>9, <2>1, <2>4
  <2>8. \A b \in Nat : In(b, l, h) <=> In(b, lo, hi) \/ In(b, r1, r2)
    BY <1>2, <1>3, <1>5, <1>14, <2>4 DEF In
  <2>9. \A b \in Nat : (Covers(m, b) \/ (~p /\ In(b, l, h))) <=> (Upto(rs, k + 1, b) \/ In(b, s, e))
    BY <1>7, <1>10, <2>1, <2>8
  <2>10. \A j \in (k + 2)..n : Below(m, Starts(rs, j))
    BY <1>6, <1>8
  <2>11. to.lo = l /\ to.hi = h /\ to.merged = m /\ to.placed = p
    BY <2>6
  <2> QED BY <1>1, <1>5, <1>11, <2>1, <2>5, <2>6, <2>7, <2>9, <2>10, <2>11 DEF Walked
<1> QED BY <1>12, <1>13, <1>14

\* The recursive function inside add_range.
WalkStep(g, rs, s, e, k) ==
    IF k = 0 THEN [lo |-> s, hi |-> e, merged |-> <<>>, placed |-> FALSE] ELSE Absorb(g[k - 1], rs[k])
WalkTo(g, rs, s, e, n) == g = [k \in 0..n |-> WalkStep(g, rs, s, e, k)]

LEMMA WalkExists ==
    ASSUME NEW rs, NEW s, NEW e
    PROVE  \A n \in Nat : \E g : WalkTo(g, rs, s, e, n)
<1> DEFINE P == {n \in Nat : \E g : WalkTo(g, rs, s, e, n)}
<1>1. 0 \in P
  <2> DEFINE g == [i \in 0..0 |-> [lo |-> s, hi |-> e, merged |-> <<>>, placed |-> FALSE]]
  <2>1. \A i \in 0..0 : WalkStep(g, rs, s, e, i) = [lo |-> s, hi |-> e, merged |-> <<>>, placed |-> FALSE]
    BY DEF WalkStep
  <2>2. WalkTo(g, rs, s, e, 0)
    BY <2>1 DEF WalkTo
  <2> QED BY <2>2
<1>2. ASSUME NEW n \in P PROVE n + 1 \in P
  <2>1. PICK g : WalkTo(g, rs, s, e, n)
    OBVIOUS
  <2>2. n \in Nat
    OBVIOUS
  <2>3. PICK last : last = Absorb(g[n], rs[n + 1])
    OBVIOUS
  <2> DEFINE h == [i \in 0..(n + 1) |-> IF i = n + 1 THEN last ELSE g[i]]
  <2>4. h[n + 1] = last /\ \A i \in 0..n : h[i] = g[i]
    BY <2>2
  <2>5. h = [i \in 0..(n + 1) |-> h[i]]
    OBVIOUS
  <2> HIDE DEF h
  <2>6. ASSUME NEW i \in 0..(n + 1) PROVE h[i] = WalkStep(h, rs, s, e, i)
    <3>1. CASE i = n + 1
      <4>1. i - 1 = n /\ i # 0 /\ n \in 0..n
        BY <2>2, <3>1
      <4> QED BY <2>3, <2>4, <3>1, <4>1 DEF WalkStep
    <3>2. CASE i # n + 1
      <4>1. i \in 0..n /\ (i # 0 => i - 1 \in 0..n)
        BY <2>2, <3>2
      <4>2. g[i] = WalkStep(g, rs, s, e, i)
        BY <2>1, <4>1 DEF WalkTo
      <4>3. WalkStep(g, rs, s, e, i) = WalkStep(h, rs, s, e, i)
        BY <2>4, <4>1 DEF WalkStep
      <4> QED BY <2>4, <4>1, <4>2, <4>3
    <3> QED BY <3>1, <3>2
  <2>7. WalkTo(h, rs, s, e, n + 1)
    BY <2>5, <2>6 DEF WalkTo
  <2> QED BY <2>2, <2>7
<1>3. P = Nat
  <2>1. P \in SUBSET Nat
    OBVIOUS
  <2> HIDE DEF P
  <2> QED BY <1>1, <1>2, <2>1, Induction
<1> QED BY <1>3

\* The ranges stay sorted and apart, and hold what they held and [s, e).
LEMMA RangeAdded ==
    ASSUME NEW rs, Tidy(rs), NEW s \in Nat, NEW e \in Nat, NEW t, t = add_range(rs, s, e)
    PROVE  Tidy(t) /\ \A b \in Nat : Covers(t, b) <=> Covers(rs, b) \/ In(b, s, e)
<1>1. CASE s >= e
  <2>1. t = rs
    BY <1>1 DEF add_range
  <2>2. \A b \in Nat : ~In(b, s, e)
    BY <1>1 DEF In
  <2> QED BY <2>1, <2>2, SMTT(30)
<1>2. CASE s < e
  <2>1. PICK n \in Nat : n = Len(rs)
    BY DEF Tidy
  <2> DEFINE w == CHOOSE g : WalkTo(g, rs, s, e, Len(rs))
  <2>2. WalkTo(w, rs, s, e, n)
    BY <2>1, WalkExists, SMTT(30)
  <2>3. t = IF w[n].placed THEN w[n].merged ELSE Append(w[n].merged, <<w[n].lo, w[n].hi>>)
    <3>1. ~(s >= e)
      BY <1>2
    <3> QED BY <2>1, <3>1 DEF add_range, WalkTo, WalkStep
  <2> HIDE DEF w
  <2>4. \A k \in 0..n : w[k] = WalkStep(w, rs, s, e, k)
    BY <2>2 DEF WalkTo
  <2> DEFINE P == {k \in Nat : k <= n => Walked(w[k], rs, k, s, e)}
  <2>5. 0 \in P
    <3>1. PICK z : z = w[0]
      OBVIOUS
    <3>2. z = [lo |-> s, hi |-> e, merged |-> <<>>, placed |-> FALSE]
      <4>1. w[0] = WalkStep(w, rs, s, e, 0)
        BY <2>1, <2>4
      <4>2. WalkStep(w, rs, s, e, 0) = [lo |-> s, hi |-> e, merged |-> <<>>, placed |-> FALSE]
        BY Zenon DEF WalkStep
      <4> QED BY <3>1, <4>1, <4>2
    <3>3. Tidy(<<>>) /\ (\A x : Below(<<>>, x)) /\ \A b : ~Covers(<<>>, b) /\ ~Upto(rs, 0, b)
      BY DEF Tidy, Below, Covers, Upto
    <3>4. z.lo = s /\ z.hi = e /\ z.merged = <<>> /\ z.placed = FALSE
      BY <3>2
    <3>5. Walked(z, rs, 0, s, e)
      BY <1>2, <3>2, <3>3, <3>4 DEF Walked
    <3> QED BY <3>1, <3>5
  <2>6. ASSUME NEW k \in P PROVE k + 1 \in P
    <3>1. k \in Nat
      OBVIOUS
    <3>2. ASSUME k + 1 <= n PROVE Walked(w[k + 1], rs, k + 1, s, e)
      <4>1. Walked(w[k], rs, k, s, e) /\ k < Len(rs) /\ k + 1 \in 0..n /\ k + 1 # 0 /\ (k + 1) - 1 = k
        BY <2>1, <3>1, <3>2
      <4>2. w[k + 1] = Absorb(w[k], rs[k + 1])
        BY <2>4, <4>1 DEF WalkStep
      <4> HIDE DEF P
      <4> QED BY <3>1, <4>1, <4>2, AbsorbStep
    <3> QED BY <3>1, <3>2
  <2>7. P = Nat
    <3>1. P \in SUBSET Nat
      OBVIOUS
    <3> HIDE DEF P
    <3> QED BY <2>5, <2>6, <3>1, Induction
  <2>8. Walked(w[n], rs, n, s, e)
    BY <2>1, <2>7
  <2> HIDE DEF P
  <2>9. PICK acc : acc = w[n]
    OBVIOUS
  <2>10. /\ acc.lo \in Nat /\ acc.hi \in Nat /\ acc.lo < acc.hi /\ acc.placed \in BOOLEAN
         /\ Tidy(acc.merged) /\ (~acc.placed => Below(acc.merged, acc.lo))
    BY <2>8, <2>9 DEF Walked
  <2>11. \A b \in Nat : (Covers(acc.merged, b) \/ (~acc.placed /\ In(b, acc.lo, acc.hi)))
                        <=> (Upto(rs, n, b) \/ In(b, s, e))
    BY <2>8, <2>9 DEF Walked
  <2>12. \A b : Upto(rs, n, b) <=> Covers(rs, b)
    BY <2>1 DEF Upto, Covers
  <2>13. CASE acc.placed
    BY <2>3, <2>9, <2>10, <2>11, <2>12, <2>13
  <2>14. CASE ~acc.placed
    <3>1. t = Append(acc.merged, <<acc.lo, acc.hi>>)
      BY <2>3, <2>9, <2>14
    <3>2. Tidy(t) /\ \A b : Covers(t, b) <=> Covers(acc.merged, b) \/ In(b, acc.lo, acc.hi)
      BY <2>10, <2>14, <3>1, RangeAppended, Zenon
    <3> QED BY <2>11, <2>12, <2>14, <3>2, SMTT(30)
  <2> QED BY <2>13, <2>14
<1> QED BY <1>1, <1>2

\* A slot of `len` bytes has one range [0, len) exactly when its ranges hold
\* every byte of the message, given that they hold no other.
LEMMA OneRange ==
    ASSUME NEW rs, Tidy(rs), NEW len \in Nat, \A b \in Nat : Covers(rs, b) => b < len
    PROVE  (Len(rs) = 1 /\ rs[1] = <<0, len>>) <=> (len > 0 /\ \A b \in 0..(len - 1) : Covers(rs, b))
<1>0. /\ \A i \in 1..Len(rs) : Starts(rs, i) \in Nat /\ Ends(rs, i) \in Nat /\ rs[i] = <<Starts(rs, i), Ends(rs, i)>>
      /\ Len(rs) \in Nat
  BY DEF Tidy, Starts, Ends
<1>1. ASSUME Len(rs) = 1, rs[1] = <<0, len>> PROVE len > 0 /\ \A b \in 0..(len - 1) : Covers(rs, b)
  <2>1. Starts(rs, 1) = 0 /\ Ends(rs, 1) = len /\ 1 \in 1..Len(rs)
    BY <1>1 DEF Starts, Ends
  <2>2. len > 0
    BY <2>1 DEF Tidy
  <2>3. \A b \in 0..(len - 1) : In(b, 0, len)
    BY DEF In
  <2> QED BY <2>1, <2>2, <2>3 DEF Covers
<1>2. ASSUME len > 0, \A b \in 0..(len - 1) : Covers(rs, b) PROVE Len(rs) = 1 /\ rs[1] = <<0, len>>
  <2>1. Covers(rs, 0)
    BY <1>2
  <2>2. PICK i \in 1..Len(rs) : In(0, Starts(rs, i), Ends(rs, i))
    BY <2>1 DEF Covers
  <2>3. PICK a \in Nat : a = Starts(rs, i)
    BY <1>0
  <2>4. PICK z \in Nat : z = Ends(rs, i)
    BY <1>0
  <2>5. a = 0 /\ 0 < z
    BY <2>2, <2>3, <2>4 DEF In
  <2>6. \A j \in 1..Len(rs) : j < i => FALSE
    <3> SUFFICES ASSUME NEW j \in 1..Len(rs), j < i PROVE FALSE
      OBVIOUS
    <3>1. Ends(rs, j) < a
      BY <2>3 DEF Tidy
    <3> QED BY <1>0, <2>5, <3>1
  <2>7. i = 1
    BY <1>0, <2>6
  <2>8. z <= len
    <3>1. In(z - 1, a, z) /\ z - 1 \in Nat
      BY <2>5 DEF In
    <3>2. Covers(rs, z - 1)
      BY <2>3, <2>4, <3>1 DEF Covers
    <3>3. z - 1 < len
      BY <3>1, <3>2
    <3> QED BY <3>3
  <2>9. ~(z < len)
    <3> SUFFICES ASSUME z < len PROVE FALSE
      OBVIOUS
    <3>1. Covers(rs, z)
      BY <1>2
    <3>2. PICK j \in 1..Len(rs) : In(z, Starts(rs, j), Ends(rs, j))
      BY <3>1 DEF Covers
    <3>3. Starts(rs, j) <= z /\ z < Ends(rs, j)
      BY <3>2 DEF In
    <3>4. i < j
      BY <1>0, <2>4, <2>7, <3>3
    <3>5. z < Starts(rs, j)
      BY <2>4, <3>4 DEF Tidy
    <3> QED BY <1>0, <3>3, <3>5
  <2>10. z = len
    BY <2>8, <2>9
  <2>11. ~(Len(rs) > 1)
    <3> SUFFICES ASSUME Len(rs) > 1 PROVE FALSE
      OBVIOUS
    <3>1. 2 \in 1..Len(rs) /\ i < 2
      BY <1>0, <2>7
    <3>2. len < Starts(rs, 2) /\ Starts(rs, 2) < Ends(rs, 2)
      BY <2>4, <2>10, <3>1, Zenon DEF Tidy
    <3>3. In(Starts(rs, 2), Starts(rs, 2), Ends(rs, 2)) /\ Starts(rs, 2) \in Nat
      BY <1>0, <3>1, <3>2 DEF In
    <3>4. Covers(rs, Starts(rs, 2))
      BY <3>1, <3>3 DEF Covers
    <3> QED BY <3>2, <3>3, <3>4
  <2>12. Len(rs) = 1
    <3>1. PICK n \in Nat : n = Len(rs)
      BY <1>0
    <3>2. i \in 1..n /\ ~(n > 1)
      BY <2>11, <3>1
    <3>3. n = 1
      BY <3>2
    <3> QED BY <3>1, <3>3
  <2>13. rs[1] = <<0, len>>
    BY <1>0, <2>3, <2>4, <2>5, <2>7, <2>10, Zenon
  <2> QED BY <2>12, <2>13
<1> QED BY <1>1, <1>2

\* What the header of a fragment says, all of it chosen by the peer.
Header(f) == f.seq \in Nat /\ f.len \in Nat /\ f.off \in Nat /\ f.end \in Nat

\* A step that is given any fragment.
Push == error = "Ok" /\ \E f : Header(f) /\ Becomes(push(state, f))

PushSpec == Init /\ [][Push]_vars

IsSlot(s) ==
    /\ s = [seq |-> s.seq, type |-> s.type, len |-> s.len, off |-> s.off, ranges |-> s.ranges]
    /\ s.len \in Nat /\ s.off \in Nat

\* The layout of the arena.
Laid(ss, u) ==
    /\ \E S : ss \in Seq(S)
    /\ u \in Nat /\ u <= ARENA
    /\ \A i \in 1..Len(ss) : IsSlot(ss[i]) /\ ss[i].off + ss[i].len <= u
    /\ \A i, j \in 1..Len(ss) : i < j => ss[i].off + ss[i].len <= ss[j].off
    /\ \A i, j \in 1..Len(ss) : ss[i].seq = ss[j].seq => i = j

\* Every byte in g is one of a slot, and the arena holds it there.
Kept(ss, a, g) ==
    /\ \A x \in g : \E i \in 1..Len(ss) : x[1] = ss[i].seq
    /\ \A i \in 1..Len(ss) : \A b \in 0..(ss[i].len - 1) :
         <<ss[i].seq, b>> \in g => a[ss[i].off + b] = <<ss[i].seq, b>>

\* The ranges of a slot hold the bytes that arrived, and no message has more
\* bytes than its slot.
Exact(ss, g) ==
    \A i \in 1..Len(ss) :
        /\ Tidy(ss[i].ranges)
        /\ \A b \in Nat : Covers(ss[i].ranges, b) <=> <<ss[i].seq, b>> \in g
        /\ \A b \in Nat : <<ss[i].seq, b>> \in g => b < ss[i].len

State(ss, u, a, e, g) == [slots |-> ss, used |-> u, arena |-> a, error |-> e, got |-> g]

Good(st) ==
    /\ st = State(st.slots, st.used, st.arena, st.error, st.got)
    /\ Laid(st.slots, st.used) /\ Kept(st.slots, st.arena, st.got) /\ Exact(st.slots, st.got)

-----------------------------------------------------------------------------
\* A new value at the end of a sequence leaves it one.
LEMMA SlotAdd ==
    ASSUME NEW ss, \E S : ss \in Seq(S), NEW v, NEW t, t = Append(ss, v), NEW n, n = Len(ss) + 1
    PROVE  /\ Len(ss) \in Nat /\ (\E S : t \in Seq(S)) /\ Len(t) = n /\ t[n] = v
           /\ \A j \in 1..Len(ss) : t[j] = ss[j]
<1>1. PICK S : ss \in Seq(S)
  OBVIOUS
<1>2. PICK U : U = S \cup {v}
  BY Zenon
<1>3. ss \in Seq(U) /\ v \in U
  BY <1>1, <1>2
<1> QED BY <1>3, AppendProperties

FragBytes(f) == {<<f.seq, b>> : b \in f.off..(f.end - 1)}

\* Bytes of a fragment written into the region of its slot.
LEMMA WriteKeeps ==
    ASSUME NEW ss, NEW u, NEW a, NEW g, Laid(ss, u), Kept(ss, a, g),
           NEW i \in 1..Len(ss), NEW f, Header(f), f.seq = ss[i].seq, f.len = ss[i].len, f.end <= f.len,
           NEW w, w = Written(a, ss[i], f), NEW new, new = FragBytes(f)
    PROVE  Kept(ss, w, g) /\ Kept(ss, w, g \cup new)
<1>1. /\ Len(ss) \in Nat /\ u \in Nat /\ u <= ARENA /\ ARENA \in Nat
      /\ \A j \in 1..Len(ss) : ss[j].len \in Nat /\ ss[j].off \in Nat /\ ss[j].off + ss[j].len <= u
      /\ f.off \in Nat /\ f.end \in Nat
  <2>1. Len(ss) \in Nat /\ u \in Nat /\ u <= ARENA
    BY DEF Laid
  <2>2. \A j \in 1..Len(ss) : ss[j].len \in Nat /\ ss[j].off \in Nat /\ ss[j].off + ss[j].len <= u
    BY Zenon DEF Laid, IsSlot
  <2>3. ARENA \in Nat /\ f.off \in Nat /\ f.end \in Nat
    BY ReassemblyAssumption DEF Header
  <2> QED BY <2>1, <2>2, <2>3
<1>2. ASSUME NEW j \in 1..Len(ss), NEW b \in 0..(ss[j].len - 1), <<ss[j].seq, b>> \in g \cup new
      PROVE  w[ss[j].off + b] = <<ss[j].seq, b>>
  <2>1. PICK p : p = ss[j].off + b
    OBVIOUS
  <2>2. p \in 0..(ARENA - 1)
    <3>1. PICK o \in Nat : o = ss[j].off
      BY <1>1, SMTT(30)
    <3>2. PICK l \in Nat : l = ss[j].len
      BY <1>1
    <3>3. o + l <= u /\ b \in 0..(l - 1) /\ p = o + b
      BY <1>1, <2>1, <3>1, <3>2
    <3> QED BY <1>1, <3>3
  <2>3. w[p] = IF p >= ss[i].off + f.off /\ p < ss[i].off + f.end THEN <<ss[i].seq, p - ss[i].off>> ELSE a[p]
    BY <2>2 DEF Written
  <2>4. CASE j = i
    <3>1. p - ss[i].off = b
      BY <1>1, <2>1, <2>4
    <3>2. CASE p >= ss[i].off + f.off /\ p < ss[i].off + f.end
      BY <2>1, <2>3, <2>4, <3>1, <3>2, SMTT(30)
    <3>3. CASE ~(p >= ss[i].off + f.off /\ p < ss[i].off + f.end)
      <4>1. b \notin f.off..(f.end - 1)
        BY <1>1, <2>1, <2>4, <3>3, SMTT(30)
      <4>2. <<ss[j].seq, b>> \notin new
        BY <4>1 DEF FragBytes
      <4>3. a[p] = <<ss[j].seq, b>>
        BY <1>2, <2>1, <4>2 DEF Kept
      <4> QED BY <2>1, <2>3, <3>3, <4>3
    <3> QED BY <3>2, <3>3
  <2>5. CASE j # i
    <3>1. ss[j].seq # f.seq
      BY <2>5 DEF Laid
    <3>2. <<ss[j].seq, b>> \notin new
      BY <3>1 DEF FragBytes
    <3>3. a[p] = <<ss[j].seq, b>>
      BY <1>2, <2>1, <3>2 DEF Kept
    <3>4. ss[j].off + ss[j].len <= ss[i].off \/ ss[i].off + ss[i].len <= ss[j].off
      <4>1. j < i \/ i < j
        BY <1>1, <2>5
      <4> QED BY <4>1 DEF Laid
    <3>5. ~(p >= ss[i].off + f.off /\ p < ss[i].off + f.end)
      <4>1. PICK oi \in Nat : oi = ss[i].off
        BY <1>1
      <4>2. PICK li \in Nat : li = ss[i].len
        BY <1>1
      <4>3. PICK oj \in Nat : oj = ss[j].off
        BY <1>1, SMTT(30)
      <4>4. PICK lj \in Nat : lj = ss[j].len
        BY <1>1
      <4>5. oj + lj <= oi \/ oi + li <= oj
        BY <3>4, <4>1, <4>2, <4>3, <4>4
      <4>6. p = oj + b /\ b \in 0..(lj - 1) /\ f.end <= li
        BY <2>1, <4>2, <4>3, <4>4
      <4>7. ~(p >= oi + f.off /\ p < oi + f.end)
        BY <1>1, <4>5, <4>6, SMTT(30)
      <4> QED BY <4>1, <4>7
    <3> QED BY <2>1, <2>3, <3>3, <3>5
  <2> QED BY <2>4, <2>5
<1>3. \A x \in g : \E j \in 1..Len(ss) : x[1] = ss[j].seq
  BY DEF Kept
<1>4. \A x \in new : x[1] = ss[i].seq
  BY DEF FragBytes
<1>5. Kept(ss, w, g)
  BY <1>2, <1>3, Zenon DEF Kept
<1>6. Kept(ss, w, g \cup new)
  BY <1>2, <1>3, <1>4, Zenon DEF Kept
<1> QED BY <1>5, <1>6

\* Other ranges for the i-th slot.
WithRanges(ss, i, ranges) == [ss EXCEPT ![i].ranges = ranges]

\* t has the messages of ss, and other ranges for the i-th.
SameMessage(s, r) == s.seq = r.seq /\ s.type = r.type /\ s.len = r.len /\ s.off = r.off
NewRanges(t, ss, i, ranges) ==
    /\ Len(t) = Len(ss) /\ t[i].ranges = ranges
    /\ \A j \in 1..Len(ss) : SameMessage(t[j], ss[j]) /\ (j # i => t[j] = ss[j])

\* The ranges of a slot are no part of the layout.
LEMMA RangesFree ==
    ASSUME NEW ss, NEW u, Laid(ss, u), NEW i \in 1..Len(ss), NEW ranges,
           NEW t, t = WithRanges(ss, i, ranges)
    PROVE  /\ Laid(t, u) /\ \A a, g : Kept(ss, a, g) => Kept(t, a, g)
           /\ NewRanges(t, ss, i, ranges)
<1>0. PICK v : v = [ss[i] EXCEPT !.ranges = ranges]
  BY Zenon
<1>1. t = [ss EXCEPT ![i] = v]
  BY <1>0 DEF WithRanges
<1>3. /\ Len(ss) \in Nat /\ (\E S : t \in Seq(S)) /\ Len(t) = Len(ss) /\ t[i] = v
      /\ \A j \in 1..Len(ss) : j # i => t[j] = ss[j]
  <2>1. PICK S : ss \in Seq(S)
    BY DEF Laid
  <2>2. PICK U : U = S \cup {v}
    BY Zenon
  <2>3. PICK n \in Nat : n = Len(ss)
    BY <2>1
  <2>4. ss \in [1..n -> U] /\ v \in U /\ i \in 1..n
    BY <2>1, <2>2, <2>3
  <2>5. t \in [1..n -> U] /\ t[i] = v /\ \A j \in 1..n : j # i => t[j] = ss[j]
    BY <1>1, <2>4
  <2>6. t \in Seq(U) /\ Len(t) = n
    BY <2>5
  <2> QED BY <2>3, <2>5, <2>6
<1>4. ss[i] = [seq |-> ss[i].seq, type |-> ss[i].type, len |-> ss[i].len, off |-> ss[i].off, ranges |-> ss[i].ranges]
      /\ \A j \in 1..Len(ss) : IsSlot(ss[j])
  BY DEF Laid, IsSlot
<1>5. v.seq = ss[i].seq /\ v.type = ss[i].type /\ v.len = ss[i].len /\ v.off = ss[i].off /\ v.ranges = ranges
      /\ v = [seq |-> v.seq, type |-> v.type, len |-> v.len, off |-> v.off, ranges |-> v.ranges]
  BY <1>0, <1>4
<1>6. /\ Len(t) = Len(ss)
      /\ \A j \in 1..Len(ss) : IsSlot(t[j]) /\ SameMessage(t[j], ss[j])
  <2>1. IsSlot(v)
    BY <1>4, <1>5 DEF IsSlot
  <2>2. ASSUME NEW j \in 1..Len(ss)
        PROVE  IsSlot(t[j]) /\ SameMessage(t[j], ss[j])
    <3>1. CASE j = i
      BY <1>3, <1>5, <2>1, <3>1 DEF SameMessage
    <3>2. CASE j # i
      BY <1>3, <1>4, <3>2 DEF SameMessage
    <3> QED BY <3>1, <3>2
  <2> QED BY <1>3, <2>2
<1>7. Laid(t, u)
  BY <1>3, <1>6 DEF Laid, SameMessage
<1>8. \A a, g : Kept(ss, a, g) => Kept(t, a, g)
  <2>1. /\ Len(t) = Len(ss)
        /\ \A j \in 1..Len(ss) : t[j].seq = ss[j].seq /\ t[j].len = ss[j].len /\ t[j].off = ss[j].off
    BY <1>3, <1>6 DEF SameMessage
  <2> SUFFICES ASSUME NEW a, NEW g, Kept(ss, a, g) PROVE Kept(t, a, g)
    OBVIOUS
  <2>2. \A x \in g : \E j \in 1..Len(t) : x[1] = t[j].seq
    BY <2>1 DEF Kept
  <2>3. ASSUME NEW j \in 1..Len(t), NEW b \in 0..(t[j].len - 1), <<t[j].seq, b>> \in g
        PROVE  a[t[j].off + b] = <<t[j].seq, b>>
    <3>1. j \in 1..Len(ss) /\ b \in 0..(ss[j].len - 1) /\ <<ss[j].seq, b>> \in g
      BY <2>1, <2>3
    <3>2. a[ss[j].off + b] = <<ss[j].seq, b>>
      BY <3>1 DEF Kept
    <3> QED BY <2>1, <3>1, <3>2, SMTT(30)
  <2> QED BY <2>2, <2>3 DEF Kept
<1>9. NewRanges(t, ss, i, ranges)
  BY <1>3, <1>5, <1>6, SMTT(30) DEF NewRanges
<1> QED BY <1>7, <1>8, <1>9

\* The range of a fragment and its bytes.
LEMMA ExactStored ==
    ASSUME NEW ss, NEW u, NEW g, Laid(ss, u), Exact(ss, g),
           NEW i \in 1..Len(ss), NEW f, Header(f), f.seq = ss[i].seq, f.len = ss[i].len, f.end <= f.len,
           NEW ranges, ranges = add_range(ss[i].ranges, f.off, f.end),
           NEW t, NewRanges(t, ss, i, ranges),
           NEW new, new = FragBytes(f)
    PROVE  Exact(t, g \cup new)
<1>1. f.off \in Nat /\ f.end \in Nat /\ f.len \in Nat
  BY DEF Header
<1>2. /\ Len(t) = Len(ss) /\ t[i].ranges = ranges
      /\ \A j \in 1..Len(ss) : SameMessage(t[j], ss[j]) /\ (j # i => t[j] = ss[j])
  BY DEF NewRanges
<1>3. Tidy(ranges) /\ \A b \in Nat : Covers(ranges, b) <=> Covers(ss[i].ranges, b) \/ In(b, f.off, f.end)
  BY <1>1, RangeAdded, Zenon DEF Exact
<1>4. \A b \in Nat : <<f.seq, b>> \in new <=> In(b, f.off, f.end)
  BY <1>1 DEF In, FragBytes
<1> SUFFICES ASSUME NEW j \in 1..Len(ss)
             PROVE  /\ Tidy(t[j].ranges)
                    /\ \A b \in Nat : Covers(t[j].ranges, b) <=> <<t[j].seq, b>> \in g \cup new
                    /\ \A b \in Nat : <<t[j].seq, b>> \in g \cup new => b < t[j].len
  BY <1>2 DEF Exact
<1>5. t[j].seq = ss[j].seq /\ t[j].len = ss[j].len
  BY <1>2 DEF SameMessage
<1>6. /\ Tidy(ss[j].ranges)
      /\ \A b \in Nat : Covers(ss[j].ranges, b) <=> <<ss[j].seq, b>> \in g
      /\ \A b \in Nat : <<ss[j].seq, b>> \in g => b < ss[j].len
  BY DEF Exact
<1>7. CASE j = i
  <2>1. \A b \in Nat : Covers(ranges, b) <=> <<f.seq, b>> \in g \cup new
    BY <1>3, <1>4, <1>6, <1>7
  <2>2. \A b \in Nat : In(b, f.off, f.end) => b < f.len
    BY <1>1 DEF In
  <2>3. \A b \in Nat : <<f.seq, b>> \in g \cup new => b < f.len
    BY <1>4, <1>6, <1>7, <2>2, SMTT(30)
  <2> QED BY <1>2, <1>3, <1>5, <1>7, <2>1, <2>3, SMTT(30)
<1>8. CASE j # i
  <2>1. ss[j].seq # f.seq
    BY <1>8 DEF Laid
  <2>2. \A b : <<ss[j].seq, b>> \notin new
    BY <2>1 DEF FragBytes
  <2>3. t[j] = ss[j]
    BY <1>2, <1>8
  <2> QED BY <1>6, <2>2, <2>3
<1> QED BY <1>7, <1>8

\* A fragment is stored.
LEMMA StoreKeeps ==
    ASSUME NEW st, Good(st), NEW i \in 1..Len(st.slots), NEW f, Header(f),
           f.seq = st.slots[i].seq, f.len = st.slots[i].len, f.end <= f.len
    PROVE  Good(Store(st, i, f))
<1>1. PICK ss, u, a, e, g : st = State(ss, u, a, e, g) /\ ss = st.slots /\ u = st.used /\ a = st.arena /\ g = st.got
  BY SMTT(30) DEF Good
<1>2. Laid(ss, u) /\ Kept(ss, a, g) /\ i \in 1..Len(ss) /\ f.seq = ss[i].seq /\ f.len = ss[i].len
  BY <1>1, ZenonT(40) DEF Good
<1>0. Exact(ss, g)
  BY <1>1, Zenon DEF Good
<1>3. PICK ranges : ranges = add_range(ss[i].ranges, f.off, f.end)
  OBVIOUS
<1>4. PICK w : w = Written(a, ss[i], f)
  OBVIOUS
<1>5. PICK new : new = FragBytes(f)
  OBVIOUS
<1>6. PICK t : t = WithRanges(ss, i, ranges)
  OBVIOUS
<1>7. Kept(ss, w, g) /\ Kept(ss, w, g \cup new)
  BY <1>2, <1>4, <1>5, WriteKeeps, ZenonT(60)
<1>8. Laid(t, u) /\ Kept(t, w, g \cup new) /\ Exact(t, g \cup new)
  <2>0. Laid(t, u) /\ (\A a2, g2 : Kept(ss, a2, g2) => Kept(t, a2, g2)) /\ NewRanges(t, ss, i, ranges)
    BY <1>2, <1>6, RangesFree
  <2>1. Laid(t, u) /\ Kept(t, w, g \cup new) /\ NewRanges(t, ss, i, ranges)
    BY <1>7, <2>0, SMTT(30)
  <2>2. Exact(t, g \cup new)
    BY <1>0, <1>2, <1>3, <1>5, <2>1, ExactStored
  <2> QED BY <2>1, <2>2
<1>9. Store(st, i, f) = Ranged(State(ss, u, w, e, g), i, f, ranges)
  BY <1>1, <1>3, <1>4 DEF Store, State
<1>10. CASE Len(ranges) > MAX_FRAGS
  <2>1. Store(st, i, f) = State(ss, u, w, "TooManyFragments", g)
    BY <1>9, <1>10 DEF Ranged, Refused, State
  <2> QED BY <1>0, <1>2, <1>7, <2>1 DEF Good, State
<1>11. CASE ~(Len(ranges) > MAX_FRAGS)
  <2>1. Store(st, i, f) = State(t, u, w, e, g \cup new)
    BY <1>5, <1>6, <1>9, <1>11, ZenonT(40) DEF Ranged, State, WithRanges, FragBytes
  <2> QED BY <1>8, <2>1 DEF Good, State
<1> QED BY <1>10, <1>11

\* The fields of a message, as a slot and as a fragment give them.
SameKind(s, f) == s.seq = f.seq /\ s.type = f.type /\ s.len = f.len

\* There is room for the message of f, which has no slot yet.
Room(ss, u, f) == ~(u + f.len > ARENA) /\ Len(ss) # MAX_MSGS /\ \A i \in 1..Len(ss) : ss[i].seq # f.seq

\* A slot is taken.
LEMMA SlotTaken ==
    ASSUME NEW ss, NEW u, NEW a, NEW e, NEW g, Good(State(ss, u, a, e, g)),
           NEW f, Header(f), Room(ss, u, f)
    PROVE  \E t : /\ Good(State(t, u + f.len, a, e, g))
                  /\ PushNew(State(ss, u, a, e, g), f) = Store(State(t, u + f.len, a, e, g), Len(ss) + 1, f)
                  /\ Len(ss) \in Nat /\ Len(t) = Len(ss) + 1 /\ SameKind(t[Len(ss) + 1], f)
                  /\ \A j \in 1..Len(ss) : t[j] = ss[j]
<1>30. PICK st : st = State(ss, u, a, e, g)
  OBVIOUS
<1>21. st = State(ss, u, a, e, g) /\ ss = st.slots /\ u = st.used /\ a = st.arena /\ g = st.got
  BY <1>30 DEF State
<1>22. Laid(ss, u) /\ Kept(ss, a, g) /\ \A i \in 1..Len(ss) : ss[i].seq # f.seq
  BY <1>21, <1>30, Zenon DEF Good, Room
<1>20. Exact(ss, g)
  BY <1>21, <1>30, Zenon DEF Good
<1>25. ~(u + f.len > ARENA) /\ Len(ss) # MAX_MSGS
  BY DEF Room
<1>1. PICK v : v = Slot(f.seq, f.type, f.len, u)
  OBVIOUS
<1>2. PICK t : t = Append(ss, v)
  BY Zenon
<1>3. PICK n : n = Len(ss) + 1
  OBVIOUS
<1>4. PushNew(st, f) = Store(State(t, u + f.len, a, e, g), n, f)
  <2>1. st.used = u /\ st.slots = ss
    BY <1>21, Zenon
  <2>2. PushNew(st, f) = Store([st EXCEPT !.slots = Append(@, Slot(f.seq, f.type, f.len, st.used)),
                                          !.used = @ + f.len], Len(st.slots) + 1, f)
    BY <1>25, <2>1 DEF PushNew
  <2>3. [st EXCEPT !.slots = Append(@, Slot(f.seq, f.type, f.len, st.used)), !.used = @ + f.len]
        = State(t, u + f.len, a, e, g)
    <3>1. Append(st.slots, Slot(f.seq, f.type, f.len, st.used)) = t /\ st.used + f.len = u + f.len
      BY <1>1, <1>2, <2>1
    <3>2. PICK y : y = u + f.len
      OBVIOUS
    <3>3. [st EXCEPT !.slots = t, !.used = y] = [[st EXCEPT !.slots = t] EXCEPT !.used = y]
      BY ONLY TRUE
    <3>4. [st EXCEPT !.slots = t] = State(t, u, a, e, g)
      BY <1>21 DEF State
    <3>5. [State(t, u, a, e, g) EXCEPT !.used = y] = State(t, y, a, e, g)
      BY DEF State
    <3>6. [st EXCEPT !.slots = t, !.used = y] = State(t, y, a, e, g)
      BY <3>3, <3>4, <3>5, Zenon
    <3> QED BY <3>1, <3>2, <3>6, Zenon
  <2> QED BY <1>3, <2>1, <2>2, <2>3
<1>5. /\ Len(ss) \in Nat /\ (\E S : t \in Seq(S)) /\ Len(t) = n /\ t[n] = v
      /\ \A j \in 1..Len(ss) : t[j] = ss[j]
  <2>1. \E S : ss \in Seq(S)
    BY <1>22 DEF Laid
  <2> QED BY <1>2, <1>3, <2>1, SlotAdd
<1>6. /\ v.seq = f.seq /\ v.len = f.len /\ v.off = u /\ IsSlot(v) /\ u \in Nat /\ f.len \in Nat
      /\ v.ranges = <<>> /\ SameKind(v, f)
  BY <1>22, <1>1 DEF Slot, IsSlot, Laid, Header, SameKind
<1>7. \A j \in 1..n : j = n \/ j \in 1..Len(ss)
  BY <1>3, <1>5, SMTT(30)
<1>8. Laid(t, u + f.len)
  <2>1. u + f.len \in Nat /\ u + f.len <= ARENA
    BY <1>25, <1>6, ReassemblyAssumption
  <2>2. ASSUME NEW j \in 1..n PROVE IsSlot(t[j]) /\ t[j].off + t[j].len <= u + f.len
    <3>1. CASE j = n
      BY <1>5, <1>6, <3>1
    <3>2. CASE j \in 1..Len(ss)
      <4>1. IsSlot(ss[j]) /\ ss[j].off + ss[j].len <= u /\ ss[j].off \in Nat /\ ss[j].len \in Nat
        BY <1>22, <3>2, SMTT(30) DEF Laid, IsSlot
      <4> QED BY <1>5, <1>6, <3>2, <4>1, SMTT(30)
    <3> QED BY <1>7, <3>1, <3>2
  <2>3. ASSUME NEW j \in 1..n, NEW k \in 1..n, j < k PROVE t[j].off + t[j].len <= t[k].off
    <3>1. j \in 1..Len(ss)
      BY <1>3, <1>5, <2>3, SMTT(30)
    <3>2. CASE k = n
      <4>1. ss[j].off + ss[j].len <= u
        BY <1>22, <3>1 DEF Laid
      <4> QED BY <1>5, <1>6, <3>1, <3>2, <4>1, SMTT(30)
    <3>3. CASE k \in 1..Len(ss)
      BY <1>22, <1>5, <2>3, <3>1, <3>3 DEF Laid
    <3> QED BY <1>7, <3>2, <3>3
  <2>4. ASSUME NEW j \in 1..n, NEW k \in 1..n, t[j].seq = t[k].seq PROVE j = k
    <3>1. CASE j = n /\ k = n
      BY <3>1
    <3>2. CASE j = n /\ k \in 1..Len(ss)
      BY <1>22, <1>5, <1>6, <2>4, <3>2, SMTT(30)
    <3>3. CASE k = n /\ j \in 1..Len(ss)
      BY <1>22, <1>5, <1>6, <2>4, <3>3, SMTT(30)
    <3>4. CASE j \in 1..Len(ss) /\ k \in 1..Len(ss)
      BY <1>22, <1>5, <2>4, <3>4, SMTT(30) DEF Laid
    <3> QED BY <1>7, <3>1, <3>2, <3>3, <3>4
  <2> QED BY <1>5, <2>1, <2>2, <2>3, <2>4 DEF Laid
<1>9. Kept(t, a, g)
  <2>1. n \in 1..n /\ 1..Len(ss) \subseteq 1..n
    BY <1>3, <1>5
  <2>2. \A x \in g : \E j \in 1..n : x[1] = t[j].seq
    BY <1>22, <1>5, <2>1, SMTT(30) DEF Kept
  <2>3. ASSUME NEW j \in 1..n, NEW b \in 0..(t[j].len - 1), <<t[j].seq, b>> \in g
        PROVE  a[t[j].off + b] = <<t[j].seq, b>>
    <3>1. CASE j = n
      <4>1. PICK k \in 1..Len(ss) : <<t[j].seq, b>>[1] = ss[k].seq
        BY <1>22, <2>3, SMTT(30) DEF Kept
      <4>2. ss[k].seq = f.seq
        BY <1>5, <1>6, <3>1, <4>1, SMTT(30)
      <4> QED BY <1>22, <4>2, SMTT(30)
    <3>2. CASE j \in 1..Len(ss)
      BY <1>22, <1>5, <2>3, <3>2, Zenon DEF Kept
    <3> QED BY <1>7, <3>1, <3>2
  <2> QED BY <1>5, <2>2, <2>3, Zenon DEF Kept
<1>14. Exact(t, g)
  <2>1. Tidy(<<>>) /\ \A b : ~Covers(<<>>, b)
    BY DEF Tidy, Covers
  <2>2. \A b : <<f.seq, b>> \notin g
    <3> SUFFICES ASSUME NEW b, <<f.seq, b>> \in g PROVE FALSE
      OBVIOUS
    <3>1. PICK k \in 1..Len(ss) : <<f.seq, b>>[1] = ss[k].seq
      BY <1>22, SMTT(30) DEF Kept
    <3> QED BY <1>22, <3>1
  <2> SUFFICES ASSUME NEW j \in 1..n
               PROVE  /\ Tidy(t[j].ranges)
                      /\ \A b \in Nat : Covers(t[j].ranges, b) <=> <<t[j].seq, b>> \in g
                      /\ \A b \in Nat : <<t[j].seq, b>> \in g => b < t[j].len
    BY <1>5, SMTT(30) DEF Exact
  <2>3. CASE j = n
    BY <1>5, <1>6, <2>1, <2>2, <2>3, SMTT(30)
  <2>4. CASE j \in 1..Len(ss)
    BY <1>20, <1>5, <2>4, SMTT(30) DEF Exact
  <2> QED BY <1>7, <2>3, <2>4
<1>10. Good(State(t, u + f.len, a, e, g))
  BY <1>8, <1>9, <1>14, SMTT(30) DEF Good, State
<1>11. Len(t) = Len(ss) + 1 /\ SameKind(t[Len(ss) + 1], f)
  BY <1>3, <1>5, <1>6
<1> QED BY <1>3, <1>4, <1>5, <1>10, <1>11, <1>30

\* A new message is stored.
LEMMA NewKeeps ==
    ASSUME NEW st, Good(st), NEW f, Header(f), f.end <= f.len,
           \A i \in 1..Len(st.slots) : st.slots[i].seq # f.seq
    PROVE  Good(PushNew(st, f))
<1>1. PICK ss, u, a, e, g : st = State(ss, u, a, e, g) /\ ss = st.slots /\ u = st.used /\ a = st.arena /\ g = st.got
  BY SMTT(30) DEF Good
<1>2. Laid(ss, u) /\ Kept(ss, a, g) /\ \A i \in 1..Len(ss) : ss[i].seq # f.seq
  BY <1>1, ZenonT(40) DEF Good
<1>0. Exact(ss, g)
  BY <1>1, Zenon DEF Good
<1>3. CASE u + f.len > ARENA
  <2>1. PushNew(st, f) = State(ss, u, a, "ArenaFull", g)
    BY <1>1, <1>3 DEF PushNew, Refused, State
  <2> QED BY <1>0, <1>2, <2>1 DEF Good, State
<1>4. CASE ~(u + f.len > ARENA) /\ Len(ss) = MAX_MSGS
  <2>1. PushNew(st, f) = State(ss, u, a, "TooManyMessages", g)
    BY <1>1, <1>4, SMTT(30) DEF PushNew, Refused, State
  <2> QED BY <1>0, <1>2, <2>1 DEF Good, State
<1>5. CASE ~(u + f.len > ARENA) /\ Len(ss) # MAX_MSGS
  <2>1. Room(ss, u, f) /\ Good(State(ss, u, a, e, g))
    BY <1>1, <1>2, <1>5, Zenon DEF Room
  <2>2. PICK t : /\ Good(State(t, u + f.len, a, e, g))
                 /\ PushNew(State(ss, u, a, e, g), f) = Store(State(t, u + f.len, a, e, g), Len(ss) + 1, f)
                 /\ Len(ss) \in Nat /\ Len(t) = Len(ss) + 1 /\ SameKind(t[Len(ss) + 1], f)
    BY <2>1, SlotTaken, SMTT(30)
  <2>3. PICK st2 : st2 = State(t, u + f.len, a, e, g)
    OBVIOUS
  <2>4. PICK n : n = Len(ss) + 1
    OBVIOUS
  <2>5. st2.slots = t
    BY <2>3 DEF State
  <2>6. n \in 1..Len(st2.slots) /\ f.seq = st2.slots[n].seq /\ f.len = st2.slots[n].len
    BY <2>2, <2>4, <2>5 DEF SameKind
  <2>7. Good(st2)
    BY <2>2, <2>3
  <2>8. Good(Store(st2, n, f))
    BY <2>6, <2>7, StoreKeeps
  <2> QED BY <1>1, <2>2, <2>3, <2>4, <2>8, ZenonT(40)
<1> QED BY <1>3, <1>4, <1>5

\* No slot has a message that has no position.
LEMMA PositionZero ==
    ASSUME NEW ss, Len(ss) \in Nat, NEW seq, Position(ss, seq) = 0
    PROVE  \A i \in 1..Len(ss) : ss[i].seq # seq
<1> SUFFICES ASSUME NEW i \in 1..Len(ss), ss[i].seq = seq PROVE FALSE
  OBVIOUS
<1>1. Position(ss, seq) \in 1..Len(ss)
  BY DEF Position
<1>2. 0 \notin 1..Len(ss)
  OBVIOUS
<1> QED BY <1>1, <1>2

\* Any fragment at all.
LEMMA PushKeeps ==
    ASSUME NEW st, Good(st), NEW f, Header(f)
    PROVE  Good(push(st, f))
<1>0. \A e : Good(Refused(st, e))
  <2> SUFFICES ASSUME NEW e PROVE Good(Refused(st, e))
    OBVIOUS
  <2>1. Refused(st, e) = State(st.slots, st.used, st.arena, e, st.got)
    BY DEF Good, Refused, State
  <2> QED BY <2>1 DEF Good, State
<1>1. CASE st.error # "Ok" \/ f.end > f.len
  BY <1>0, <1>1 DEF push
<1>2. CASE ~(st.error # "Ok" \/ f.end > f.len) /\ Position(st.slots, f.seq) # 0
  <2>1. PICK i : i = Position(st.slots, f.seq)
    OBVIOUS
  <2>2. i \in 1..Len(st.slots) /\ st.slots[i].seq = f.seq
    BY <1>2, <2>1 DEF Position
  <2>3. push(st, f) = PushKnown(st, i, f)
    BY <1>2, <2>1 DEF push
  <2>4. CASE st.slots[i].type # f.type \/ st.slots[i].len # f.len
    BY <1>0, <2>3, <2>4 DEF PushKnown
  <2>5. CASE ~(st.slots[i].type # f.type \/ st.slots[i].len # f.len)
    <3>1. push(st, f) = Store(st, i, f)
      BY <2>3, <2>5 DEF PushKnown
    <3>2. f.end <= f.len
      <4>1. ~(f.end > f.len)
        BY <1>2
      <4> QED BY <4>1 DEF Header
    <3> QED BY <2>2, <2>5, <3>1, <3>2, StoreKeeps, SMTT(30)
  <2> QED BY <2>4, <2>5
<1>3. CASE ~(st.error # "Ok" \/ f.end > f.len) /\ Position(st.slots, f.seq) = 0
  <2>1. \A i \in 1..Len(st.slots) : st.slots[i].seq # f.seq
    <3>1. Len(st.slots) \in Nat
      BY DEF Good, Laid
    <3> QED BY <1>3, <3>1, PositionZero
  <2>2. push(st, f) = PushNew(st, f)
    BY <1>3 DEF push
  <2>3. f.end <= f.len
    <3>1. ~(f.end > f.len)
      BY <1>3, SMTT(30)
    <3> QED BY <3>1 DEF Header
  <2> QED BY <2>1, <2>2, <2>3, NewKeeps
<1> QED BY <1>1, <1>2, <1>3

-----------------------------------------------------------------------------
(* Any fragments at all.                                                   *)

\* Becoming a good state.
LEMMA GoodBecomes ==
    ASSUME NEW to, Good(to), Becomes(to)
    PROVE  Good(state)' /\ state' = to
<1>1. to = State(to.slots, to.used, to.arena, to.error, to.got)
  BY DEF Good
<1>2. state' = to
  BY <1>1 DEF Becomes, state, State
<1> QED BY <1>2, Zenon DEF Good, Laid, Kept, Exact, IsSlot, Tidy, Covers, Starts, Ends, In, State

\* Nothing has arrived.
LEMMA InitLaid == ASSUME Init PROVE Good(state)
<1>1. slots = <<>> /\ used = 0 /\ got = {} /\ Len(slots) = 0 /\ \E S : slots \in Seq(S)
  <2>1. slots = <<>> /\ used = 0 /\ got = {}
    BY DEF Init
  <2>2. Len(<<>>) = 0 /\ <<>> \in Seq(Nat)
    OBVIOUS
  <2> QED BY <2>1, <2>2
<1>2. \A i \in 1..Len(slots) : FALSE
  BY <1>1
<1>3. Laid(slots, used)
  BY <1>1, <1>2, ReassemblyAssumption DEF Laid
<1>4. Kept(slots, arena, got) /\ Exact(slots, got)
  BY <1>1, <1>2 DEF Kept, Exact
<1> QED BY <1>3, <1>4 DEF Good, state, State

\* The layout, the bytes and the ranges are kept by every step.
THEOREM LayoutInvariance == PushSpec => []Good(state)
<1>1. Init => Good(state)
  BY InitLaid
<1>2. Good(state) /\ [Push]_vars => Good(state)'
  <2> SUFFICES ASSUME Good(state), [Push]_vars PROVE Good(state)'
    OBVIOUS
  <2>1. CASE UNCHANGED vars
    <3>1. Becomes(state)
      BY <2>1 DEF vars, Becomes, state
    <3> QED BY <3>1, GoodBecomes
  <2>2. CASE Push
    <3>1. PICK f : Header(f) /\ Becomes(push(state, f))
      BY <2>2 DEF Push
    <3>2. Good(push(state, f))
      BY <3>1, PushKeeps
    <3> QED BY <3>1, <3>2, GoodBecomes
  <2> QED BY <2>1, <2>2
<1> QED BY <1>1, <1>2, PTL DEF PushSpec

\* Whatever fragments a peer sends, in any order, overlapping, repeated or
\* inconsistent, and also when one of them is refused: each byte that arrived
\* stays where the region of its message says (reassembly.rs 104-150).
THEOREM BytesStay == PushSpec => []ArenaHolds
<1>1. Good(state) => ArenaHolds
  <2> SUFFICES ASSUME Kept(slots, arena, got) PROVE ArenaHolds
    BY DEF Good, state
  <2> QED BY Zenon DEF ArenaHolds, Slots, BytesOf, Kept
<1> QED BY <1>1, LayoutInvariance, PTL

\* A slot counts as complete exactly when all bytes of its message have arrived.
LEMMA CompleteBytes ==
    ASSUME NEW st, Good(st), NEW i \in 1..Len(st.slots), NEW s, s = st.slots[i]
    PROVE  is_complete(s) <=> s.len > 0 /\ \A b \in 0..(s.len - 1) : <<s.seq, b>> \in st.got
<1>1. /\ Tidy(s.ranges)
      /\ \A b \in Nat : Covers(s.ranges, b) <=> <<s.seq, b>> \in st.got
      /\ \A b \in Nat : <<s.seq, b>> \in st.got => b < s.len
  BY DEF Good, Exact
<1>2. s.len \in Nat
  BY Zenon DEF Good, Laid, IsSlot
<1>3. is_complete(s) <=> s.len > 0 /\ \A b \in 0..(s.len - 1) : Covers(s.ranges, b)
  BY <1>1, <1>2, OneRange, Zenon DEF is_complete
<1>4. \A b \in 0..(s.len - 1) : b \in Nat
  BY <1>2
<1> QED BY <1>1, <1>3, <1>4, Zenon

\* No message counts as complete before its last byte is there, and none stays
\* incomplete after it: the merged ranges say what has arrived, to the byte.
CompleteExactly == \A s \in Slots : is_complete(s) <=> s.len > 0 /\ BytesOf(s) = 0..(s.len - 1)

\* For any fragments, in any order (reassembly.rs 41-86).
THEOREM RangesExact == PushSpec => []CompleteExactly
<1>1. Good(state) => CompleteExactly
  <2> SUFFICES ASSUME Good(state), NEW i \in 1..Len(slots), NEW s, s = slots[i]
               PROVE  is_complete(s) <=> s.len > 0 /\ BytesOf(s) = 0..(s.len - 1)
    BY DEF CompleteExactly, Slots
  <2>1. is_complete(s) <=> s.len > 0 /\ \A b \in 0..(s.len - 1) : <<s.seq, b>> \in got
    <3>1. state.slots = slots /\ state.got = got
      BY DEF state
    <3> QED BY <3>1, CompleteBytes
  <2>2. BytesOf(s) = 0..(s.len - 1) <=> \A b \in 0..(s.len - 1) : <<s.seq, b>> \in got
    BY DEF BytesOf
  <2> QED BY <2>1, <2>2
<1> QED BY <1>1, LayoutInvariance, PTL

-----------------------------------------------------------------------------
(* The fragments of a flight.                                              *)

LEMMA FlightFacts ==
    \E last \in Nat :
        /\ base_seq \in Nat /\ base_seq <= last /\ DOMAIN Flight = base_seq..last
        /\ \A q \in DOMAIN Flight :
              /\ q \in Nat /\ base_seq <= q /\ q <= last
              /\ Flight[q].len \in Nat /\ Flight[q].len > 0
              /\ Flight[q].type = FINISHED <=> q = last
<1>1. PICK last \in DOMAIN Flight :
        /\ last \in Nat /\ DOMAIN Flight = base_seq..last
        /\ \A q \in base_seq..last :
              /\ Flight[q].len \in Nat \ {0}
              /\ Flight[q].type = FINISHED <=> q = last
  BY FlightAssumption
<1>2. base_seq \in Nat
  BY ReassemblyAssumption
<1>3. \A q \in base_seq..last : q \in Nat /\ base_seq <= q /\ q <= last
  BY <1>1, <1>2
<1>4. last \in Nat /\ base_seq <= last /\ DOMAIN Flight = base_seq..last
  BY <1>1, <1>3
<1>5. ASSUME NEW q \in DOMAIN Flight
      PROVE  /\ q \in Nat /\ base_seq <= q /\ q <= last
             /\ Flight[q].len \in Nat /\ Flight[q].len > 0
             /\ Flight[q].type = FINISHED <=> q = last
  <2>1. q \in base_seq..last
    BY <1>4
  <2>2. Flight[q].len \in Nat \ {0}
    BY <1>1, <2>1
  <2>3. Flight[q].type = FINISHED <=> q = last
    BY <1>1, <2>1, SMTT(30)
  <2> QED BY <1>3, <2>1, <2>2, <2>3
<1> QED BY <1>2, <1>4, <1>5

\* f went to a slot that was there, or to a new one behind the others.
Lands(ss, tt, f) ==
    /\ \A j \in 1..Len(ss) : SameKind(tt[j], ss[j])
    /\ \/ Len(tt) = Len(ss) /\ \E i \in 1..Len(ss) : SameKind(ss[i], f)
       \/ Len(tt) = Len(ss) + 1 /\ SameKind(tt[Len(tt)], f)

\* What a fragment that is taken leaves behind.
Taken(st, to, f) == Lands(st.slots, to.slots, f) /\ to.got = st.got \cup FragBytes(f)

\* A fragment is stored in its slot or refused.
LEMMA StoreShape ==
    ASSUME NEW ss, NEW u, NEW a, NEW g, Laid(ss, u), NEW i \in 1..Len(ss), NEW f,
           NEW to, to = Store(State(ss, u, a, "Ok", g), i, f), to.error = "Ok"
    PROVE  /\ Len(to.slots) = Len(ss) /\ \A j \in 1..Len(ss) : SameKind(to.slots[j], ss[j])
           /\ to.got = g \cup FragBytes(f)
<1>1. PICK ranges : ranges = add_range(ss[i].ranges, f.off, f.end)
  OBVIOUS
<1>2. PICK w : w = Written(a, ss[i], f)
  OBVIOUS
<1>3. PICK t : t = WithRanges(ss, i, ranges)
  OBVIOUS
<1>4. to = Ranged(State(ss, u, w, "Ok", g), i, f, ranges)
  BY <1>1, <1>2 DEF Store, State
<1>5. ~(Len(ranges) > MAX_FRAGS)
  <2> SUFFICES ASSUME Len(ranges) > MAX_FRAGS PROVE FALSE
    OBVIOUS
  <2>1. to = State(ss, u, w, "TooManyFragments", g)
    BY <1>4 DEF Ranged, Refused, State
  <2> QED BY <2>1 DEF State
<1>6. to = State(t, u, w, "Ok", g \cup FragBytes(f))
  BY <1>3, <1>4, <1>5, Zenon DEF Ranged, State, WithRanges, FragBytes
<1>7. NewRanges(t, ss, i, ranges)
  BY <1>3, RangesFree
<1>8. to.slots = t /\ to.got = g \cup FragBytes(f)
  BY <1>6 DEF State
<1> QED BY <1>7, <1>8 DEF NewRanges, SameMessage, SameKind

LEMMA PushShape ==
    ASSUME NEW st, Good(st), NEW f, Header(f), NEW to, to = push(st, f), to.error = "Ok"
    PROVE  st.error = "Ok" /\ Taken(st, to, f)
<1>1. PICK ss, u, a, e, g : st = State(ss, u, a, e, g) /\ ss = st.slots /\ u = st.used /\ a = st.arena
                            /\ e = st.error /\ g = st.got
  BY DEF Good
<1>2. Laid(ss, u) /\ Len(ss) \in Nat
  <2>1. Laid(ss, u)
    BY <1>1, ZenonT(40) DEF Good
  <2> QED BY <2>1, SMTT(30) DEF Laid
<1>3. e = "Ok"
  BY <1>1, Zenon DEF push
<1>4. \A x : Refused(st, x).error = x
  BY <1>1 DEF Refused, State
<1>5. ~(f.end > f.len)
  <2> SUFFICES ASSUME f.end > f.len PROVE FALSE
    BY SMTT(30)
  <2>1. to = Refused(st, "BadFragment")
    BY <1>1, <1>3, ZenonT(40) DEF push
  <2> QED BY <1>4, <2>1
<1>6. CASE Position(ss, f.seq) # 0
  <2>1. PICK i : i = Position(ss, f.seq)
    OBVIOUS
  <2>2. i \in 1..Len(ss) /\ ss[i].seq = f.seq
    BY <1>6, <2>1, SMTT(30) DEF Position
  <2>3. to = PushKnown(st, i, f)
    BY <1>1, <1>3, <1>5, <1>6, <2>1, Zenon DEF push
  <2>4. ss[i].type = f.type /\ ss[i].len = f.len
    <3> SUFFICES ASSUME ss[i].type # f.type \/ ss[i].len # f.len PROVE FALSE
      BY SMTT(30)
    <3>1. to = Refused(st, "Inconsistent")
      BY <1>1, <2>3, ZenonT(40) DEF PushKnown
    <3> QED BY <1>4, <3>1
  <2>5. to = Store(State(ss, u, a, "Ok", g), i, f)
    BY <1>1, <1>3, <2>3, <2>4, Zenon DEF PushKnown
  <2>6. /\ Len(to.slots) = Len(ss) /\ \A j \in 1..Len(ss) : SameKind(to.slots[j], ss[j])
        /\ to.got = g \cup FragBytes(f)
    BY <1>2, <2>2, <2>5, StoreShape
  <2>7. SameKind(ss[i], f)
    BY <2>2, <2>4, SMTT(30) DEF SameKind
  <2> QED BY <1>1, <1>3, <2>2, <2>6, <2>7, Zenon DEF Taken, Lands
<1>7. CASE Position(ss, f.seq) = 0
  <2>1. to = PushNew(st, f)
    BY <1>1, <1>3, <1>5, <1>7, Zenon DEF push
  <2>2. ~(u + f.len > ARENA)
    <3> SUFFICES ASSUME u + f.len > ARENA PROVE FALSE
      BY SMTT(30)
    <3>1. to = Refused(st, "ArenaFull")
      BY <1>1, <2>1, Zenon DEF PushNew
    <3> QED BY <1>4, <3>1
  <2>3. Len(ss) # MAX_MSGS
    <3> SUFFICES ASSUME Len(ss) = MAX_MSGS PROVE FALSE
      BY SMTT(30)
    <3>1. to = Refused(st, "TooManyMessages")
      BY <1>1, <2>1, <2>2, Zenon DEF PushNew
    <3> QED BY <1>4, <3>1
  <2>4. \A i \in 1..Len(ss) : ss[i].seq # f.seq
    BY <1>2, <1>7, PositionZero
  <2>5. PICK n : n = Len(ss) + 1
    OBVIOUS
  <2>6. PICK y : y = u + f.len
    BY SMTT(30)
  <2>10. Room(ss, u, f) /\ Good(State(ss, u, a, e, g))
    BY <1>1, <2>2, <2>3, <2>4, Zenon DEF Room
  <2>7. PICK t : /\ to = Store(State(t, y, a, e, g), n, f) /\ Good(State(t, y, a, e, g))
                 /\ Len(t) = n /\ SameKind(t[n], f) /\ \A j \in 1..Len(ss) : t[j] = ss[j]
    <3>1. PICK t : /\ Good(State(t, u + f.len, a, e, g))
                   /\ PushNew(State(ss, u, a, e, g), f) = Store(State(t, u + f.len, a, e, g), Len(ss) + 1, f)
                   /\ Len(ss) \in Nat /\ Len(t) = Len(ss) + 1 /\ SameKind(t[Len(ss) + 1], f)
                   /\ \A j \in 1..Len(ss) : t[j] = ss[j]
      BY <2>10, SlotTaken, SMTT(30)
    <3>2. to = Store(State(t, y, a, e, g), n, f)
      BY <1>1, <2>1, <2>5, <2>6, <3>1, Zenon
    <3> QED BY <2>5, <2>6, <3>1, <3>2
  <2>8. Laid(t, y)
    BY <2>7 DEF Good, State
  <2>9. n \in Nat /\ n \in 1..n /\ \A j \in 1..Len(ss) : j \in 1..n
    BY <1>2, <2>5, SMTT(30)
  <2>11. /\ Len(to.slots) = n /\ \A j \in 1..n : SameKind(to.slots[j], t[j])
         /\ to.got = g \cup FragBytes(f)
    BY <1>3, <2>7, <2>8, <2>9, StoreShape, SMTT(30)
  <2>12. Lands(ss, to.slots, f)
    BY <2>5, <2>7, <2>9, <2>11, SMTT(30) DEF Lands, SameKind
  <2> QED BY <1>1, <1>3, <2>11, <2>12, ZenonT(40) DEF Taken
<1> QED BY <1>6, <1>7

\* The fragments that the runs give the reassembler: those of the flight, those
\* of a whole message that is one byte too long, those of an empty one.
OfFlight(f) ==
    /\ f.seq \in DOMAIN Flight /\ f.type = Flight[f.seq].type
    /\ f.len = Flight[f.seq].len
Overlong(f) ==
    /\ f.seq \in DOMAIN Flight /\ f.type = Flight[f.seq].type
    /\ f.len = Flight[f.seq].len + 1 /\ f.off = 0 /\ f.end = f.len
Empty(f) == f.seq = base_seq - 1 /\ f.len = 0

\* The slot of such a message: one that is too long has all its bytes.
SlotFits(s, g) ==
    \/ s.seq = base_seq - 1 /\ s.len = 0
    \/ /\ s.seq \in DOMAIN Flight /\ s.type = Flight[s.seq].type
       /\ \/ s.len = Flight[s.seq].len
          \/ s.len = Flight[s.seq].len + 1 /\ \A b \in 0..(s.len - 1) : <<s.seq, b>> \in g
Fits(ss, g) == \A i \in 1..Len(ss) : SlotFits(ss[i], g)

\* A slot of the flight, nothing else.
Strict(ss) == \A i \in 1..Len(ss) :
    ss[i].seq \in DOMAIN Flight /\ ss[i].type = Flight[ss[i].seq].type /\ ss[i].len = Flight[ss[i].seq].len

LEMMA FitsKept ==
    ASSUME NEW st, NEW to, NEW f, Taken(st, to, f), Len(st.slots) \in Nat, Fits(st.slots, st.got),
           OfFlight(f) \/ Overlong(f) \/ Empty(f)
    PROVE  Fits(to.slots, to.got)
<1>1. PICK n \in Nat : n = Len(st.slots)
  OBVIOUS
<1>2. \A s, r : SameKind(s, r) /\ SlotFits(r, st.got) => SlotFits(s, to.got)
  BY SMTT(30) DEF SameKind, SlotFits, Taken
<1>3. \A j \in 1..n : SlotFits(to.slots[j], to.got)
  BY <1>1, <1>2, Zenon DEF Taken, Lands, Fits
<1>4. CASE Len(to.slots) = n
  BY <1>3, <1>4 DEF Fits
<1>5. CASE Len(to.slots) = n + 1 /\ SameKind(to.slots[n + 1], f)
  <2>1. SlotFits(to.slots[n + 1], to.got)
    <3>1. CASE OfFlight(f)
      BY <1>5, <3>1, SMTT(30) DEF OfFlight, SameKind, SlotFits
    <3>2. CASE Overlong(f)
      <4>1. \A b \in 0..(f.len - 1) : <<f.seq, b>> \in to.got
        BY <3>2, SMTT(30) DEF Overlong, Taken, FragBytes
      <4> QED BY <1>5, <3>2, <4>1, SMTT(30) DEF Overlong, SameKind, SlotFits
    <3>3. CASE Empty(f)
      BY <1>5, <3>3 DEF Empty, SameKind, SlotFits
    <3> QED BY <3>1, <3>2, <3>3, SMTT(30)
  <2>2. \A j \in 1..(n + 1) : j \in 1..n \/ j = n + 1
    OBVIOUS
  <2> QED BY <1>3, <1>5, <2>1, <2>2 DEF Fits
<1>6. Len(to.slots) = n \/ (Len(to.slots) = n + 1 /\ SameKind(to.slots[n + 1], f))
  BY <1>1 DEF Taken, Lands
<1> QED BY <1>4, <1>5, <1>6

LEMMA StrictKept ==
    ASSUME NEW st, NEW to, NEW f, Taken(st, to, f), Len(st.slots) \in Nat, Strict(st.slots), OfFlight(f)
    PROVE  Strict(to.slots)
<1>1. PICK n \in Nat : n = Len(st.slots)
  OBVIOUS
<1>2. \A j \in 1..n : SameKind(to.slots[j], st.slots[j])
  BY <1>1 DEF Taken, Lands
<1>3. Len(to.slots) = n \/ (Len(to.slots) = n + 1 /\ SameKind(to.slots[n + 1], f))
  BY <1>1 DEF Taken, Lands
<1>4. \A j \in 1..(n + 1) : j \in 1..n \/ j = n + 1
  BY SMTT(30)
<1>5. CASE Len(to.slots) = n
  BY <1>1, <1>2, <1>5, SMTT(30) DEF Strict, SameKind
<1>6. CASE Len(to.slots) = n + 1 /\ SameKind(to.slots[n + 1], f)
  BY <1>1, <1>2, <1>4, <1>6, SMTT(30) DEF Strict, SameKind, OfFlight
<1> QED BY <1>3, <1>5, <1>6

\* A slot that fits and belongs to the flight is complete when the bytes of its
\* message have arrived, and only then; one of an empty message never is.
LEMMA CompleteFits ==
    ASSUME Good(state), NEW i \in 1..Len(slots), SlotFits(slots[i], got)
    PROVE  is_complete(slots[i]) <=> slots[i].seq \in DOMAIN Flight /\ Arrived(slots[i].seq)
<1>1. PICK s : s = slots[i]
  OBVIOUS
<1>2. is_complete(s) <=> s.len > 0 /\ \A b \in 0..(s.len - 1) : <<s.seq, b>> \in got
  <2>1. state.slots = slots /\ state.got = got
    BY DEF state
  <2> QED BY <1>1, <2>1, CompleteBytes
<1>3. PICK last \in Nat :
        /\ base_seq \in Nat /\ base_seq <= last /\ DOMAIN Flight = base_seq..last
        /\ \A q \in DOMAIN Flight :
              /\ q \in Nat /\ base_seq <= q /\ q <= last
              /\ Flight[q].len \in Nat /\ Flight[q].len > 0
              /\ Flight[q].type = FINISHED <=> q = last
  BY FlightFacts, SMTT(30)
<1>4. CASE s.seq = base_seq - 1 /\ s.len = 0
  <2>1. s.seq \notin DOMAIN Flight
    BY <1>3, <1>4
  <2>2. ~is_complete(s)
    BY <1>2, <1>4, SMTT(30)
  <2> QED BY <1>1, <2>1, <2>2, SMTT(30)
<1>5. CASE s.seq \in DOMAIN Flight /\ s.len = Flight[s.seq].len
  <2>1. s.len > 0
    BY <1>3, <1>5, SMTT(30)
  <2> QED BY <1>1, <1>2, <1>5, <2>1, SMTT(30) DEF Arrived
<1>6. CASE /\ s.seq \in DOMAIN Flight /\ s.len = Flight[s.seq].len + 1
           /\ \A b \in 0..(s.len - 1) : <<s.seq, b>> \in got
  <2>1. Flight[s.seq].len \in Nat
    BY <1>3, <1>6
  <2>2. s.len > 0 /\ \A b \in 0..(Flight[s.seq].len - 1) : b \in 0..(s.len - 1)
    BY <1>6, <2>1
  <2>3. Arrived(s.seq)
    BY <1>6, <2>2 DEF Arrived
  <2> QED BY <1>1, <1>2, <1>6, <2>2, <2>3, SMTT(30)
<1> QED BY <1>1, <1>4, <1>5, <1>6 DEF SlotFits

\* The least member of a set of indices is one of them.
LEMMA MinMember ==
    ASSUME NEW S \in SUBSET Nat, S # {}
    PROVE  Min(S) \in S
<1>1. \E m \in S : \A n \in S : m <= n
  BY LeastNumber
<1> QED BY <1>1, Zenon DEF Min

\* flight_complete, when all slots fit.
LEMMA FlightComplete ==
    ASSUME Good(state), Fits(slots, got)
    PROVE  flight_complete <=> \A seq \in DOMAIN Flight : Arrived(seq)
<1>1. PICK last \in Nat :
        /\ base_seq \in Nat /\ base_seq <= last /\ DOMAIN Flight = base_seq..last
        /\ \A q \in DOMAIN Flight :
              /\ q \in Nat /\ base_seq <= q /\ q <= last
              /\ Flight[q].len \in Nat /\ Flight[q].len > 0
              /\ Flight[q].type = FINISHED <=> q = last
  BY FlightFacts
<1>2. Len(slots) \in Nat
  <2>1. Laid(slots, used)
    BY DEF Good, state
  <2>2. PICK S : slots \in Seq(S)
    BY <2>1, SMTT(30) DEF Laid
  <2> QED BY <2>2
<1>3. \A i \in 1..Len(slots) : is_complete(slots[i]) <=> slots[i].seq \in DOMAIN Flight /\ Arrived(slots[i].seq)
  BY CompleteFits DEF Fits
<1>4. \A i \in 1..Len(slots) : slots[i].seq \in DOMAIN Flight => slots[i].type = Flight[slots[i].seq].type
  <2> SUFFICES ASSUME NEW i \in 1..Len(slots), slots[i].seq \in DOMAIN Flight
               PROVE  slots[i].type = Flight[slots[i].seq].type
    OBVIOUS
  <2>1. slots[i].seq # base_seq - 1
    BY <1>1
  <2> QED BY <2>1 DEF Fits, SlotFits
<1>5. \A i \in FinishedSlots : i \in 1..Len(slots) /\ slots[i].seq = last
  <2> SUFFICES ASSUME NEW i \in FinishedSlots PROVE i \in 1..Len(slots) /\ slots[i].seq = last
    OBVIOUS
  <2>1. i \in 1..Len(slots) /\ slots[i].type = FINISHED /\ slots[i].seq \in DOMAIN Flight
    BY <1>3 DEF FinishedSlots
  <2> QED BY <1>1, <1>4, <2>1
<1>6. FinishedSlots # {} => slots[Min(FinishedSlots)].seq = last
  <2> SUFFICES ASSUME FinishedSlots # {} PROVE slots[Min(FinishedSlots)].seq = last
    OBVIOUS
  <2>1. FinishedSlots \in SUBSET Nat
    BY <1>2 DEF FinishedSlots
  <2>2. Min(FinishedSlots) \in FinishedSlots
    BY <2>1, MinMember
  <2> QED BY <1>5, <2>2
<1>7. ASSUME flight_complete, NEW seq \in DOMAIN Flight PROVE Arrived(seq)
  <2>1. FinishedSlots # {} /\ \A q \in base_seq..slots[Min(FinishedSlots)].seq : Complete(q)
    BY <1>7 DEF flight_complete
  <2>2. Complete(seq)
    BY <1>1, <1>6, <2>1
  <2> QED BY <1>3, <2>2 DEF Complete
<1>8. ASSUME \A seq \in DOMAIN Flight : Arrived(seq) PROVE flight_complete
  <2>1. ASSUME NEW q \in DOMAIN Flight PROVE \E i \in 1..Len(slots) : slots[i].seq = q /\ is_complete(slots[i])
    <3>1. <<q, 0>> \in got
      <4>1. 0 \in 0..(Flight[q].len - 1)
        BY <1>1, SMTT(30)
      <4> QED BY <1>8, <4>1 DEF Arrived
    <3>2. PICK i \in 1..Len(slots) : <<q, 0>>[1] = slots[i].seq
      BY <3>1 DEF Good, Kept, state
    <3>3. slots[i].seq = q
      BY <3>2
    <3> QED BY <1>3, <1>8, <3>3
  <2>2. last \in DOMAIN Flight /\ Flight[last].type = FINISHED
    BY <1>1
  <2>3. PICK i \in 1..Len(slots) : slots[i].seq = last /\ is_complete(slots[i])
    BY <2>1, <2>2
  <2>4. i \in FinishedSlots
    BY <1>4, <2>2, <2>3 DEF FinishedSlots
  <2>5. slots[Min(FinishedSlots)].seq = last
    BY <1>6, <2>4
  <2>6. \A q \in base_seq..last : Complete(q)
    BY <1>1, <2>1 DEF Complete
  <2>7. last >= base_seq
    BY <1>1
  <2> QED BY <2>4, <2>5, <2>6, <2>7 DEF flight_complete
<1> QED BY <1>7, <1>8

-----------------------------------------------------------------------------
(* The runs' fragments.                                                    *)

\* The fragments that the runs give the reassembler are among those above.
LEMMA FragmentStep ==
    ASSUME Fragment
    PROVE  error = "Ok" /\ \E f : Header(f) /\ OfFlight(f) /\ Becomes(push(state, f))
<1>1. PICK seq \in DOMAIN Flight : \E off \in 0..Flight[seq].len : \E end \in off..Flight[seq].len :
        /\ error = "Ok"
        /\ Becomes(push(state, Frag(Flight[seq].type, seq, Flight[seq].len, off, end)))
  BY DEF Fragment
<1>2. PICK off \in 0..Flight[seq].len : \E end \in off..Flight[seq].len :
        /\ error = "Ok"
        /\ Becomes(push(state, Frag(Flight[seq].type, seq, Flight[seq].len, off, end)))
  BY <1>1
<1>3. PICK end \in off..Flight[seq].len :
        /\ error = "Ok"
        /\ Becomes(push(state, Frag(Flight[seq].type, seq, Flight[seq].len, off, end)))
  BY <1>2
<1>4. PICK f : f = Frag(Flight[seq].type, seq, Flight[seq].len, off, end)
  OBVIOUS
<1>5. seq \in Nat /\ Flight[seq].len \in Nat
  BY FlightFacts
<1>6. Header(f) /\ OfFlight(f)
  BY <1>4, <1>5, SMTT(30) DEF Header, Frag, OfFlight
<1> QED BY <1>3, <1>4, <1>6

LEMMA StrayStep ==
    ASSUME Stray
    PROVE  /\ error = "Ok"
           /\ \E f : Header(f) /\ (OfFlight(f) \/ Overlong(f) \/ Empty(f)) /\ Becomes(push(state, f))
<1>1. CASE \E seq \in DOMAIN Flight : \E more \in {0, 1} :
          Becomes(push(state, Frag(Flight[seq].type, seq, Flight[seq].len + more, 0, Flight[seq].len + 1)))
  <2>1. PICK seq \in DOMAIN Flight : \E more \in {0, 1} :
          Becomes(push(state, Frag(Flight[seq].type, seq, Flight[seq].len + more, 0, Flight[seq].len + 1)))
    BY <1>1
  <2>2. PICK more \in {0, 1} :
          Becomes(push(state, Frag(Flight[seq].type, seq, Flight[seq].len + more, 0, Flight[seq].len + 1)))
    BY <2>1
  <2>3. PICK f : f = Frag(Flight[seq].type, seq, Flight[seq].len + more, 0, Flight[seq].len + 1)
    OBVIOUS
  <2>4. seq \in Nat /\ Flight[seq].len \in Nat
    BY FlightFacts
  <2>5. Header(f)
    BY <2>3, <2>4 DEF Header, Frag
  <2>6. OfFlight(f) \/ Overlong(f)
    BY <2>3, <2>4, SMTT(30) DEF OfFlight, Overlong, Frag
  <2> QED BY <2>2, <2>3, <2>5, <2>6, SMTT(30) DEF Stray
<1>2. CASE Becomes(push(state, Frag("empty", base_seq - 1, 0, 0, 0)))
  <2>1. PICK f : f = Frag("empty", base_seq - 1, 0, 0, 0)
    OBVIOUS
  <2>2. Header(f) /\ Empty(f)
    BY <2>1, ReassemblyAssumption DEF Header, Frag, Empty
  <2> QED BY <1>2, <2>1, <2>2 DEF Stray
<1> QED BY <1>1, <1>2, SMTT(30) DEF Stray

\* Fragments of the flight and strays leave slots that fit.
Fitting(st) == Good(st) /\ (st.error = "Ok" => Fits(st.slots, st.got))

\* Fragments of the flight leave slots of the flight.
Orderly(st) == Good(st) /\ (st.error = "Ok" => Strict(st.slots))

LEMMA PushFits ==
    ASSUME NEW st, Fitting(st), NEW f, Header(f), OfFlight(f) \/ Overlong(f) \/ Empty(f)
    PROVE  Fitting(push(st, f))
<1>1. PICK to : to = push(st, f)
  OBVIOUS
<1>2. Good(st) /\ Good(to) /\ Len(st.slots) \in Nat
  <2>1. Good(st)
    BY DEF Fitting
  <2>2. Good(to)
    BY <1>1, <2>1, PushKeeps
  <2>3. Len(st.slots) \in Nat
    <3>1. Laid(st.slots, st.used)
      BY <2>1 DEF Good
    <3>2. PICK S : st.slots \in Seq(S)
      BY <3>1 DEF Laid
    <3> QED BY <3>2
  <2> QED BY <2>1, <2>2, <2>3
<1>3. ASSUME to.error = "Ok" PROVE Fits(to.slots, to.got)
  <2>1. st.error = "Ok" /\ Taken(st, to, f)
    BY <1>1, <1>2, <1>3, PushShape
  <2>2. Fits(st.slots, st.got)
    BY <2>1 DEF Fitting
  <2> QED BY <1>2, <2>1, <2>2, FitsKept
<1> QED BY <1>1, <1>2, <1>3 DEF Fitting

LEMMA PushOrderly ==
    ASSUME NEW st, Orderly(st), NEW f, Header(f), OfFlight(f)
    PROVE  Orderly(push(st, f))
<1>1. PICK to : to = push(st, f)
  OBVIOUS
<1>2. Good(st) /\ Good(to) /\ Len(st.slots) \in Nat
  <2>1. Good(st)
    BY DEF Orderly
  <2>2. Good(to)
    BY <1>1, <2>1, PushKeeps
  <2>3. Len(st.slots) \in Nat
    <3>1. Laid(st.slots, st.used)
      BY <2>1 DEF Good
    <3>2. PICK S : st.slots \in Seq(S)
      BY <3>1 DEF Laid
    <3> QED BY <3>2
  <2> QED BY <2>1, <2>2, <2>3
<1>3. ASSUME to.error = "Ok" PROVE Strict(to.slots)
  <2>1. st.error = "Ok" /\ Taken(st, to, f)
    BY <1>1, <1>2, <1>3, PushShape
  <2>2. Strict(st.slots)
    BY <2>1 DEF Orderly
  <2> QED BY <1>2, <2>1, <2>2, StrictKept
<1> QED BY <1>1, <1>2, <1>3 DEF Orderly

LEMMA InitGood ==
    ASSUME Init
    PROVE  Good(state) /\ Fitting(state) /\ Orderly(state)
<1>1. Good(state)
  BY InitLaid
<1>2. slots = <<>> /\ \A i \in 1..Len(slots) : FALSE
  BY SMTT(30) DEF Init
<1>3. Fits(state.slots, state.got) /\ Strict(state.slots)
  BY <1>2, SMTT(30) DEF Fits, Strict, state
<1> QED BY <1>1, <1>3 DEF Fitting, Orderly

\* What is known of a state that the reassembler comes to is known of its variables.
LEMMA FittingBecomes == ASSUME NEW to, Fitting(to), Becomes(to) PROVE Fitting(state)'
<1>1. Good(to) /\ (to.error = "Ok" => Fits(to.slots, to.got))
  BY DEF Fitting
<1>2. Good(state)' /\ state' = to
  BY <1>1, GoodBecomes, SMTT(30)
<1> QED BY <1>1, <1>2 DEF Fitting, Fits, SlotFits

LEMMA OrderlyBecomes == ASSUME NEW to, Orderly(to), Becomes(to) PROVE Orderly(state)'
<1>1. Good(to) /\ (to.error = "Ok" => Strict(to.slots))
  BY DEF Orderly
<1>2. Good(state)' /\ state' = to
  BY <1>1, GoodBecomes
<1> QED BY <1>1, <1>2 DEF Orderly, Strict

LEMMA FittingStep ==
    ASSUME Fitting(state), Fragment \/ Stray
    PROVE  Fitting(state)'
<1>1. PICK f : Header(f) /\ (OfFlight(f) \/ Overlong(f) \/ Empty(f)) /\ Becomes(push(state, f))
  BY FragmentStep, StrayStep
<1>2. Fitting(push(state, f))
  BY <1>1, PushFits
<1> QED BY <1>1, <1>2, FittingBecomes

\* A state that stutters.
LEMMA StateSame == ASSUME UNCHANGED vars PROVE Becomes(state)
BY DEF vars, Becomes, state

\* So it is for the flight and the strays of the runs: each byte stays ...
THEOREM FlightBytesStay == Init /\ [][Fragment \/ Stray]_vars => []ArenaHolds
<1>1. [Fragment \/ Stray]_vars => [Push]_vars
  BY FragmentStep, StrayStep DEF Push
<1> QED BY <1>1, BytesStay, PTL DEF PushSpec

\* ... and the flight is complete exactly when every byte of it has arrived,
\* whatever the flight, the arena and the capacities, in whatever order the
\* fragments arrive and however they overlap (reassembly.rs 158-171).
THEOREM CompleteWhenArrived == Init /\ [][Fragment \/ Stray]_vars => []CompleteWhenAll
<1>1. Init => Fitting(state)
  BY InitGood
<1>2. Fitting(state) /\ [Fragment \/ Stray]_vars => Fitting(state)'
  <2> SUFFICES ASSUME Fitting(state), [Fragment \/ Stray]_vars PROVE Fitting(state)'
    OBVIOUS
  <2>1. CASE Fragment \/ Stray
    BY <2>1, FittingStep
  <2>2. CASE UNCHANGED vars
    BY <2>2, StateSame, FittingBecomes
  <2> QED BY <2>1, <2>2
<1>3. Fitting(state) => CompleteWhenAll
  <2> SUFFICES ASSUME Good(state), Fits(slots, got) PROVE CompleteWhenAll
    BY DEF Fitting, state, CompleteWhenAll
  <2> QED BY FlightComplete DEF CompleteWhenAll
<1> QED BY <1>1, <1>2, <1>3, PTL

-----------------------------------------------------------------------------
(* The transcript.                                                         *)

\* In a complete flight of which every slot is strict, x - base_seq messages
\* lie below x.
LEMMA BelowCount ==
    ASSUME Good(state), Strict(slots), \A seq \in DOMAIN Flight : Complete(seq),
           NEW x \in Nat, base_seq \in Nat, base_seq <= x, \A q \in base_seq..(x - 1) : q \in DOMAIN Flight
    PROVE  Cardinality({j \in Done : slots[j].seq < x}) = x - base_seq
<1> DEFINE T == {j \in Done : slots[j].seq < x}
           at == [q \in base_seq..(x - 1) |-> CHOOSE j \in Done : slots[j].seq = q]
<1>1. ASSUME NEW q \in base_seq..(x - 1) PROVE at[q] \in Done /\ slots[at[q]].seq = q
  <2>1. \E j \in Done : slots[j].seq = q
    BY DEF Complete, Done
  <2> QED BY <2>1
<1>2. \A q \in base_seq..(x - 1) : q < x
  OBVIOUS
<1>3. at \in [base_seq..(x - 1) -> T]
  BY <1>1, <1>2, SMTT(30)
<1>4. \A p, q \in base_seq..(x - 1) : at[p] = at[q] => p = q
  BY <1>1
<1>5. ASSUME NEW j \in T PROVE \E q \in base_seq..(x - 1) : at[q] = j
  <2>1. j \in 1..Len(slots) /\ slots[j].seq \in DOMAIN Flight /\ slots[j].seq < x
    BY SMTT(30) DEF Done, Strict
  <2>2. PICK q : q = slots[j].seq
    OBVIOUS
  <2>3. q \in Nat /\ base_seq <= q /\ q < x
    BY <2>1, <2>2, FlightFacts
  <2>4. q \in base_seq..(x - 1)
    BY <2>3
  <2>5. at[q] \in Done /\ slots[at[q]].seq = slots[j].seq
    BY <1>1, <2>2, <2>4
  <2>6. at[q] \in 1..Len(slots)
    BY <2>5 DEF Done
  <2>7. at[q] = j
    <3>1. Laid(slots, used)
      BY Zenon DEF Good, state
    <3> QED BY <2>1, <2>5, <2>6, <3>1, SMTT(30) DEF Laid
  <2> QED BY <2>4, <2>7, SMTT(30)
<1> HIDE DEF at, T
<1>6. at \in Bijection(base_seq..(x - 1), T)
  BY <1>3, <1>4, <1>5 DEF Bijection, Injection, Surjection, IsInjective
<1>7. IsFiniteSet(base_seq..(x - 1)) /\ Cardinality(base_seq..(x - 1)) = x - base_seq
  <2>1. x - 1 \in Int /\ base_seq \in Int
    OBVIOUS
  <2>2. /\ IsFiniteSet(base_seq..(x - 1))
        /\ Cardinality(base_seq..(x - 1)) = IF base_seq > x - 1 THEN 0 ELSE (x - 1) - base_seq + 1
    BY <2>1, FS_Interval
  <2> QED BY <2>1, <2>2
<1>8. Cardinality(T) = Cardinality(base_seq..(x - 1))
  BY <1>6, <1>7, FS_Bijection, SMTT(30) DEF ExistsBijection
<1> QED BY <1>7, <1>8 DEF T

\* The serialized flight.
LEMMA Serialized ==
    ASSUME Good(state), Strict(slots), \A seq \in DOMAIN Flight : Arrived(seq)
    PROVE  serialize_flight = [k \in 1..Cardinality(DOMAIN Flight) |->
               LET seq == base_seq + k - 1 IN
               [type |-> Flight[seq].type, body |-> [b \in 1..Flight[seq].len |-> <<seq, b - 1>>]]]
<1>1. PICK last \in Nat :
        /\ base_seq \in Nat /\ base_seq <= last /\ DOMAIN Flight = base_seq..last
        /\ \A q \in DOMAIN Flight :
              /\ q \in Nat /\ base_seq <= q /\ q <= last
              /\ Flight[q].len \in Nat /\ Flight[q].len > 0
              /\ Flight[q].type = FINISHED <=> q = last
  BY FlightFacts
<1>2. Fits(slots, got)
  BY DEF Fits, SlotFits, Strict
<1>3. ASSUME NEW q \in DOMAIN Flight PROVE Complete(q)
  <2>1. 0 \in 0..(Flight[q].len - 1)
    BY <1>1
  <2>2. <<q, 0>> \in got
    BY <2>1, SMTT(30) DEF Arrived
  <2>3. PICK i \in 1..Len(slots) : <<q, 0>>[1] = slots[i].seq
    BY <2>2, SMTT(30) DEF Good, Kept, state
  <2>4. slots[i].seq = q
    BY <2>3, SMTT(30)
  <2>5. is_complete(slots[i])
    BY <1>2, <2>4, CompleteFits DEF Fits
  <2> QED BY <2>4, <2>5 DEF Complete
<1>4. Cardinality(Done) = last + 1 - base_seq
  <2>1. last + 1 \in Nat /\ base_seq <= last + 1 /\ \A q \in base_seq..((last + 1) - 1) : q \in DOMAIN Flight
    BY <1>1
  <2> DEFINE T == {j \in Done : slots[j].seq < last + 1}
  <2>2. Cardinality(T) = last + 1 - base_seq
    BY <1>1, <1>3, <2>1, BelowCount
  <2>3. \A j \in Done : slots[j].seq < last + 1
    <3> TAKE j \in Done
    <3>1. slots[j].seq \in DOMAIN Flight
      BY DEF Done, Strict
    <3> QED BY <1>1, <3>1
  <2>4. T = Done
    BY <2>3 DEF Done
  <2> HIDE DEF T
  <2> QED BY <2>2, <2>4
<1>5. Cardinality(DOMAIN Flight) = last + 1 - base_seq
  <2>1. Cardinality(base_seq..last) = IF base_seq > last THEN 0 ELSE last - base_seq + 1
    BY <1>1, FS_Interval
  <2> QED BY <1>1, <2>1
<1>6. ASSUME NEW k \in 1..(last + 1 - base_seq), NEW seq, seq = base_seq + k - 1
      PROVE  Message(slots[CHOOSE i \in Done : Cardinality({j \in Done : slots[j].seq < slots[i].seq}) = k - 1])
             = [type |-> Flight[seq].type, body |-> [b \in 1..Flight[seq].len |-> <<seq, b - 1>>]]
  <2>1. seq \in DOMAIN Flight
    <3>1. base_seq \in Nat /\ last \in Nat /\ DOMAIN Flight = base_seq..last
      BY <1>1
    <3>2. base_seq + k - 1 \in base_seq..last
      BY <3>1
    <3> QED BY <1>6, <3>1, <3>2
  <2>2. ASSUME NEW i \in Done
        PROVE  /\ Cardinality({j \in Done : slots[j].seq < slots[i].seq}) = slots[i].seq - base_seq
               /\ slots[i].seq \in Nat
    <3>1. PICK x : x = slots[i].seq
      OBVIOUS
    <3>2. x \in DOMAIN Flight
      BY <3>1 DEF Done, Strict
    <3>3. x \in Nat /\ base_seq <= x /\ \A q \in base_seq..(x - 1) : q \in DOMAIN Flight
      BY <1>1, <3>2, SMTT(30)
    <3>4. Cardinality({j \in Done : slots[j].seq < x}) = x - base_seq
      BY <1>1, <1>3, <3>3, BelowCount, SMTT(30)
    <3> QED BY <3>1, <3>3, <3>4
  <2>3. PICK i0 \in Done : slots[i0].seq = seq
    BY <1>3, <2>1 DEF Complete, Done
  <2>4. Cardinality({j \in Done : slots[j].seq < slots[i0].seq}) = k - 1
    <3>1. Cardinality({j \in Done : slots[j].seq < slots[i0].seq}) = seq - base_seq
      BY <2>2, <2>3
    <3>2. base_seq \in Nat
      BY <1>1
    <3>3. seq - base_seq = k - 1
      BY <1>6, <3>2
    <3> QED BY <3>1, <3>3
  <2>5. PICK i : i = CHOOSE m \in Done : Cardinality({j \in Done : slots[j].seq < slots[m].seq}) = k - 1
    BY SMTT(30)
  <2>6. i \in Done /\ Cardinality({j \in Done : slots[j].seq < slots[i].seq}) = k - 1
    BY <2>4, <2>5, Zenon
  <2>7. slots[i].seq = seq
    <3>1. slots[i].seq - base_seq = k - 1 /\ slots[i].seq \in Nat
      BY <2>2, <2>6
    <3> QED BY <1>1, <1>6, <3>1
  <2>8. i \in 1..Len(slots) /\ slots[i].type = Flight[seq].type /\ slots[i].len = Flight[seq].len
    BY <2>6, <2>7 DEF Done, Strict
  <2>9. ASSUME NEW b \in 1..Flight[seq].len PROVE arena[slots[i].off + b - 1] = <<seq, b - 1>>
    <3>1. Flight[seq].len \in Nat /\ slots[i].off \in Nat
      <4>1. Laid(slots, used)
        BY SMTT(30) DEF Good, state
      <4>2. IsSlot(slots[i])
        BY <2>8, <4>1, Zenon DEF Laid
      <4> QED BY <1>1, <2>1, <4>2, SMTT(30) DEF IsSlot
    <3>2. b - 1 \in 0..(Flight[seq].len - 1)
      BY <3>1
    <3>3. <<seq, b - 1>> \in got
      BY <2>1, <3>2, SMTT(30) DEF Arrived
    <3>4. arena[slots[i].off + (b - 1)] = <<seq, b - 1>>
      BY <2>7, <2>8, <3>2, <3>3, Zenon DEF Good, Kept, state
    <3>5. slots[i].off + (b - 1) = slots[i].off + b - 1
      BY <3>1
    <3> QED BY <3>4, <3>5, SMTT(30)
  <2>10. Message(slots[i]) = [type |-> Flight[seq].type, body |-> [b \in 1..Flight[seq].len |-> <<seq, b - 1>>]]
    BY <2>8, <2>9, Zenon DEF Message
  <2> QED BY <2>5, <2>10
<1>7. \A k \in 1..(last + 1 - base_seq) :
        Message(slots[CHOOSE i \in Done : Cardinality({j \in Done : slots[j].seq < slots[i].seq}) = k - 1])
        = [type |-> Flight[base_seq + k - 1].type,
           body |-> [b \in 1..Flight[base_seq + k - 1].len |-> <<base_seq + k - 1, b - 1>>]]
  BY <1>6, Zenon
<1> QED BY <1>4, <1>5, <1>7, Zenon DEF serialize_flight

\* The transcript of a complete flight is the flight as the server sent it: the
\* order in which the fragments arrived, their cuts and overlaps leave no trace
\* in it (reassembly.rs 176-215).
THEOREM TranscriptInOrder == Init /\ [][Fragment]_vars => []SerializedInOrder
<1>1. Init => Orderly(state)
  BY InitGood
<1>2. Orderly(state) /\ [Fragment]_vars => Orderly(state)'
  <2> SUFFICES ASSUME Orderly(state), [Fragment]_vars PROVE Orderly(state)'
    OBVIOUS
  <2>1. CASE Fragment
    <3>1. PICK f : Header(f) /\ OfFlight(f) /\ Becomes(push(state, f))
      BY <2>1, FragmentStep
    <3>2. Orderly(push(state, f))
      BY <3>1, PushOrderly
    <3> QED BY <3>1, <3>2, OrderlyBecomes
  <2>2. CASE UNCHANGED vars
    BY <2>2, StateSame, OrderlyBecomes
  <2> QED BY <2>1, <2>2
<1>3. Orderly(state) => SerializedInOrder
  <2> SUFFICES ASSUME Good(state), Strict(slots), flight_complete PROVE SerializedInOrder
    BY DEF Orderly, state, SerializedInOrder
  <2>1. Fits(slots, got)
    BY DEF Fits, SlotFits, Strict
  <2>2. \A seq \in DOMAIN Flight : Arrived(seq)
    BY <2>1, FlightComplete
  <2> QED BY <2>2, Serialized, SMTT(30) DEF SerializedInOrder
<1> QED BY <1>1, <1>2, <1>3, PTL
=============================================================================
