------------------------ MODULE PostHandshake_proofs ------------------------
(***************************************************************************)
(* What holds of the reassembly of post-handshake messages for every       *)
(* stream of messages, however records cut it.                             *)
(*                                                                         *)
(* The inductive invariant names the message k that the walk has reached.  *)
(* The state between two steps is one of three: at the start of k with     *)
(* nothing carried, inside k with the bytes since its start staged, or     *)
(* inside the body of a ticket with the rest of it to skip.  All messages  *)
(* before k are legal and have been acted on.                              *)
(***************************************************************************)
EXTENDS PostHandshake, Joining_proofs

KeyUpdate(k) == msgs[k].type = "key_update" /\ msgs[k].len = 1

AtStart(k) == stage = <<>> /\ skip_remaining = 0 /\ pos = StartOf(k) /\ pc # "check"

InStage(k) ==
    /\ k <= Len(msgs) /\ skip_remaining = 0
    /\ Len(stage) > 0 /\ pos = StartOf(k) + Len(stage)
    /\ \A j \in 1..Len(stage) : stage[j] = StartOf(k) + j - 1
    /\ \/ Len(stage) < HDR /\ pc # "check"
       \/ Len(stage) = HDR /\ pc # "check" /\ (pc = "idle" => KeyUpdate(k))
       \/ Len(stage) = HDR + 1 /\ pc \in {"check", "failed"} /\ KeyUpdate(k)

InBody(k) ==
    /\ k <= Len(msgs) /\ msgs[k].type = "ticket"
    /\ stage = <<>> /\ skip_remaining > 0 /\ pc # "check"
    /\ pos >= StartOf(k) + HDR /\ pos + skip_remaining = StartOf(k + 1)

Reached(k) ==
    /\ AtStart(k) \/ InStage(k) \/ InBody(k)
    /\ \A j \in 1..(k - 1) : Legal(j)
    /\ updates = Flags(k - 1)

Walked ==
    /\ msgs \in Seq(Message) /\ stage \in Seq(Nat)
    /\ skip_remaining \in Nat /\ pos \in Nat /\ end \in Nat
    /\ pos <= end /\ end <= Total
    /\ pc \in {"idle", "walk", "check", "failed"}
    /\ pc = "idle" => pos = end

PInv ==
    /\ Walked
    /\ \E k \in 1..(Len(msgs) + 1) : Reached(k)
    /\ pc = "failed" => Cause

-----------------------------------------------------------------------------
(* Where messages begin.                                                   *)

\* g adds up the sizes of the messages ms, up to its n-th value.
OffTo(g, ms, n) == g = [j \in 1..n |-> IF j = 1 THEN 0 ELSE g[j - 1] + Size(ms[j - 1])]

\* There is such a function, by induction on how far it goes.
LEMMA OffExists ==
    ASSUME NEW ms
    PROVE  \A n \in Nat : \E g : OffTo(g, ms, n)
<1> DEFINE P == {n \in Nat : \E g : OffTo(g, ms, n)}
<1>1. 0 \in P
  <2> DEFINE g == [j \in 1..0 |-> 0]
  <2>1. OffTo(g, ms, 0)
    BY DEF OffTo
  <2> QED BY <2>1
<1>2. ASSUME NEW n \in P PROVE n + 1 \in P
  <2>1. PICK g : OffTo(g, ms, n)
    OBVIOUS
  <2>2. n \in Nat
    OBVIOUS
  <2> DEFINE last == IF n = 0 THEN 0 ELSE g[n] + Size(ms[n])
             h == [j \in 1..(n + 1) |-> IF j = n + 1 THEN last ELSE g[j]]
  <2>3. DOMAIN h = 1..(n + 1) /\ h[n + 1] = last /\ \A j \in 1..n : h[j] = g[j]
    BY <2>2
  <2>4. h = [j \in 1..(n + 1) |-> h[j]]
    OBVIOUS
  <2> HIDE DEF h
  <2>5. ASSUME NEW j \in 1..(n + 1)
        PROVE  h[j] = IF j = 1 THEN 0 ELSE h[j - 1] + Size(ms[j - 1])
    <3>1. CASE j = n + 1
      BY <2>2, <2>3, <3>1
    <3>2. CASE j # n + 1
      <4>1. j \in 1..n /\ (j # 1 => j - 1 \in 1..n)
        BY <2>2, <3>2
      <4>2. g[j] = IF j = 1 THEN 0 ELSE g[j - 1] + Size(ms[j - 1])
        BY <2>1, <4>1 DEF OffTo
      <4> QED BY <2>3, <4>1, <4>2
    <3> QED BY <3>1, <3>2
  <2>6. OffTo(h, ms, n + 1)
    BY <2>4, <2>5, Zenon DEF OffTo
  <2> QED BY <2>2, <2>6
<1>3. P = Nat
  <2>1. P \in SUBSET Nat
    OBVIOUS
  <2> HIDE DEF P
  <2> QED BY <1>1, <1>2, <2>1, Induction
<1> QED BY <1>3

\* Each message begins where the one before it ends.
LEMMA OffsetSteps ==
    ASSUME NEW ms \in Seq(Message)
    PROVE  /\ Offset(ms, 1) = 0
           /\ \A k \in 1..(Len(ms) + 1) : Offset(ms, k) \in Nat
           /\ \A k \in 1..Len(ms) : Offset(ms, k + 1) = Offset(ms, k) + Size(ms[k])
<1>1. Len(ms) \in Nat /\ \A k \in 1..Len(ms) : ms[k] \in Message
  OBVIOUS
<1> DEFINE n == Len(ms) + 1
           h == CHOOSE h : OffTo(h, ms, n)
<1>2. OffTo(h, ms, n)
  <2>1. n \in Nat
    BY <1>1
  <2>2. \E g : OffTo(g, ms, n)
    BY <2>1, OffExists, Zenon
  <2> QED BY <2>2
<1>3. \A k : Offset(ms, k) = h[k]
  BY DEF Offset, OffTo
<1> HIDE DEF h
<1>4. \A j \in 1..n : h[j] = IF j = 1 THEN 0 ELSE h[j - 1] + Size(ms[j - 1])
  BY <1>2 DEF OffTo
<1>5. h[1] = 0
  BY <1>1, <1>4
<1>6. \A k \in 1..Len(ms) : h[k + 1] = h[k] + Size(ms[k]) /\ Size(ms[k]) \in Nat
  <2> TAKE k \in 1..Len(ms)
  <2>1. k + 1 \in 1..n /\ k + 1 # 1 /\ (k + 1) - 1 = k
    BY <1>1
  <2>2. Size(ms[k]) \in Nat
    BY <1>1, PostHandshakeAssumption DEF Size, Message
  <2> QED BY <1>4, <2>1, <2>2
<1>7. \A k \in 1..n : h[k] \in Nat
  <2> DEFINE P == {k \in Nat : k + 1 \in 1..n => h[k + 1] \in Nat}
  <2>1. 0 \in P
    BY <1>5
  <2>2. ASSUME NEW k \in P PROVE k + 1 \in P
    <3>1. k \in Nat /\ (k + 1 \in 1..n => h[k + 1] \in Nat)
      OBVIOUS
    <3>2. ASSUME (k + 1) + 1 \in 1..n PROVE h[(k + 1) + 1] \in Nat
      <4>1. k + 1 \in 1..Len(ms) /\ k + 1 \in 1..n
        BY <1>1, <3>1, <3>2
      <4> HIDE DEF P
      <4> QED BY <1>6, <3>1, <4>1
    <3> QED BY <3>1, <3>2
  <2>3. P = Nat
    <3>1. P \in SUBSET Nat
      OBVIOUS
    <3> HIDE DEF P
    <3> QED BY <2>1, <2>2, <3>1, Induction
  <2> TAKE k \in 1..n
  <2>4. k - 1 \in Nat /\ (k - 1) + 1 = k
    BY <1>1
  <2>5. k - 1 \in P
    BY <2>3, <2>4, Zenon
  <2> QED BY <2>4, <2>5
<1> QED BY <1>3, <1>5, <1>6, <1>7, Zenon

\* A message lies behind all messages before it.
LEMMA OffsetOrder ==
    ASSUME NEW ms \in Seq(Message), NEW i \in 1..Len(ms), NEW k \in 1..(Len(ms) + 1), i < k
    PROVE  Offset(ms, i) + Size(ms[i]) <= Offset(ms, k)
<1>0. Len(ms) \in Nat /\ \A j \in 1..Len(ms) : ms[j] \in Message
  OBVIOUS
<1>1. Len(ms) \in Nat /\ \A j \in 1..Len(ms) : Size(ms[j]) \in Nat
  <2>1. \A m \in Message : Size(m) \in Nat
    BY PostHandshakeAssumption DEF Size, Message
  <2> QED BY <1>0, <2>1
<1>2. /\ \A j \in 1..(Len(ms) + 1) : Offset(ms, j) \in Nat
      /\ \A j \in 1..Len(ms) : Offset(ms, j + 1) = Offset(ms, j) + Size(ms[j])
  BY OffsetSteps
<1> DEFINE x == Offset(ms, i) + Size(ms[i])
           P == {d \in Nat : i + 1 + d <= Len(ms) + 1 => x <= Offset(ms, i + 1 + d)}
<1>3. x \in Nat
  BY <1>1, <1>2
<1>4. 0 \in P
  <2>1. Offset(ms, i + 1 + 0) = x
    BY <1>1, <1>2
  <2> QED BY <1>3, <2>1
<1>5. ASSUME NEW d \in P PROVE d + 1 \in P
  <2>1. d \in Nat /\ (i + 1 + d <= Len(ms) + 1 => x <= Offset(ms, i + 1 + d))
    OBVIOUS
  <2>2. ASSUME i + 1 + (d + 1) <= Len(ms) + 1
        PROVE  x <= Offset(ms, i + 1 + (d + 1))
    <3>1. i + 1 + d \in 1..Len(ms) /\ (i + 1 + d) + 1 = i + 1 + (d + 1) /\ i + 1 + d <= Len(ms) + 1
          /\ i + 1 + d \in 1..(Len(ms) + 1)
      BY <1>1, <2>1, <2>2
    <3>2. Offset(ms, i + 1 + (d + 1)) = Offset(ms, i + 1 + d) + Size(ms[i + 1 + d])
      BY <1>2, <3>1
    <3>3. Offset(ms, i + 1 + d) \in Nat /\ Size(ms[i + 1 + d]) \in Nat /\ x <= Offset(ms, i + 1 + d)
      BY <1>1, <1>2, <2>1, <3>1
    <3> HIDE DEF x
    <3> QED BY <1>3, <3>2, <3>3
  <2> HIDE DEF x
  <2> QED BY <2>1, <2>2
<1>6. P = Nat
  <2>1. P \in SUBSET Nat
    OBVIOUS
  <2> HIDE DEF P
  <2> QED BY <1>4, <1>5, <2>1, Induction
<1>7. k - i - 1 \in Nat /\ i + 1 + (k - i - 1) = k
  BY <1>1
<1>8. k - i - 1 \in P
  BY <1>6, <1>7, Zenon
<1> HIDE DEF x
<1>9. x <= Offset(ms, k)
  BY <1>1, <1>7, <1>8
<1> QED BY <1>9 DEF x

-----------------------------------------------------------------------------
(* The message at a position.                                              *)

\* What is known of the starts of messages.
LEMMA Starts ==
    ASSUME msgs \in Seq(Message)
    PROVE  /\ Len(msgs) \in Nat /\ StartOf(1) = 0
           /\ \A k \in 1..Len(msgs) : /\ msgs[k] \in Message /\ Size(msgs[k]) \in Nat
                                      /\ Size(msgs[k]) >= HDR
                                      /\ StartOf(k + 1) = StartOf(k) + Size(msgs[k])
           /\ \A k \in 1..(Len(msgs) + 1) : StartOf(k) \in Nat /\ StartOf(k) <= Total
           /\ \A i \in 1..Len(msgs) : \A k \in 1..(Len(msgs) + 1) :
                i < k => StartOf(i) + Size(msgs[i]) <= StartOf(k)
<1>1. Len(msgs) \in Nat /\ \A k \in 1..Len(msgs) : msgs[k] \in Message
  OBVIOUS
<1>2. \A k \in 1..Len(msgs) : Size(msgs[k]) \in Nat /\ Size(msgs[k]) >= HDR
  BY <1>1, PostHandshakeAssumption DEF Size, Message
<1>3. /\ StartOf(1) = 0
      /\ \A k \in 1..(Len(msgs) + 1) : StartOf(k) \in Nat
      /\ \A k \in 1..Len(msgs) : StartOf(k + 1) = StartOf(k) + Size(msgs[k])
  BY OffsetSteps DEF StartOf
<1>4. \A i \in 1..Len(msgs) : \A k \in 1..(Len(msgs) + 1) :
        i < k => StartOf(i) + Size(msgs[i]) <= StartOf(k)
  BY OffsetOrder DEF StartOf
<1>5. ASSUME NEW k \in 1..(Len(msgs) + 1) PROVE StartOf(k) <= Total
  <2>1. CASE k = Len(msgs) + 1
    BY <1>3, <2>1 DEF Total
  <2>2. CASE k # Len(msgs) + 1
    <3>1. k \in 1..Len(msgs) /\ Len(msgs) + 1 \in 1..(Len(msgs) + 1) /\ k < Len(msgs) + 1
      BY <1>1, <2>2
    <3>2. StartOf(k) + Size(msgs[k]) <= StartOf(Len(msgs) + 1)
      BY <1>4, <3>1
    <3> QED BY <1>2, <1>3, <3>1, <3>2, SMTT(30) DEF Total
  <2> QED BY <2>1, <2>2
<1> QED BY <1>1, <1>2, <1>3, <1>4, <1>5

\* A position inside message k is of message k.
LEMMA MessageIs ==
    ASSUME msgs \in Seq(Message), NEW k \in 1..Len(msgs), NEW p \in Nat,
           StartOf(k) <= p, p < StartOf(k) + Size(msgs[k])
    PROVE  MessageOf(p) = k
<1>1. ASSUME NEW i \in 1..Len(msgs), StartOf(i) <= p, p < StartOf(i) + Size(msgs[i]), i # k
      PROVE  FALSE
  <2>1. /\ StartOf(i) \in Nat /\ StartOf(k) \in Nat /\ Size(msgs[i]) \in Nat /\ Size(msgs[k]) \in Nat
        /\ i \in 1..(Len(msgs) + 1) /\ k \in 1..(Len(msgs) + 1) /\ Len(msgs) \in Nat
    BY Starts
  <2>2. i < k => StartOf(i) + Size(msgs[i]) <= StartOf(k)
    BY <2>1, Starts
  <2>3. k < i => StartOf(k) + Size(msgs[k]) <= StartOf(i)
    BY <2>1, Starts
  <2> QED BY <1>1, <2>1, <2>2, <2>3
<1> QED BY <1>1 DEF MessageOf

\* The boundary at or before a position is the start of the message it is in.
LEMMA BoundaryIs ==
    ASSUME msgs \in Seq(Message), pos \in Nat, NEW k \in 1..(Len(msgs) + 1), StartOf(k) <= pos,
           k <= Len(msgs) => pos < StartOf(k) + Size(msgs[k])
    PROVE  Boundary = StartOf(k) /\ Ended(pos) = k - 1
<1>1. Len(msgs) \in Nat /\ \A i \in 1..(Len(msgs) + 1) : StartOf(i) \in Nat
  BY Starts
<1>2. ASSUME NEW i \in 1..(Len(msgs) + 1), StartOf(i) <= pos
      PROVE  i <= k /\ StartOf(i) <= StartOf(k)
  <2>1. CASE i < k
    <3>1. i \in 1..Len(msgs) /\ Size(msgs[i]) \in Nat
      BY <1>1, <2>1, Starts
    <3>2. StartOf(i) + Size(msgs[i]) <= StartOf(k)
      BY <2>1, <3>1, Starts
    <3> QED BY <1>1, <2>1, <3>1, <3>2
  <2>2. CASE i > k
    <3>1. k \in 1..Len(msgs) /\ Size(msgs[k]) \in Nat
      BY <1>1, <2>2, Starts
    <3>2. StartOf(k) + Size(msgs[k]) <= StartOf(i)
      BY <2>2, <3>1, Starts
    <3> QED BY <1>1, <1>2, <3>1, <3>2
  <2> QED BY <1>1, <2>1, <2>2
<1>3. Boundary = StartOf(k)
  <2> DEFINE S == {StartOf(i) : i \in {j \in 1..(Len(msgs) + 1) : StartOf(j) <= pos}}
  <2>1. StartOf(k) \in S /\ \A y \in S : y \in Nat /\ StartOf(k) >= y
    BY <1>1, <1>2
  <2>2. \A x \in S : (\A y \in S : x >= y) => x = StartOf(k)
    <3> HIDE DEF S
    <3> QED BY <2>1
  <2> HIDE DEF S
  <2>3. Max(S) = StartOf(k)
    BY <2>1, <2>2 DEF Max
  <2> QED BY <2>3 DEF S, Boundary
<1>4. Ended(pos) = k - 1
  <2> DEFINE S == {j \in 0..Len(msgs) : StartOf(j + 1) <= pos}
  <2>1. k - 1 \in S
    <3>1. (k - 1) + 1 = k /\ k - 1 \in 0..Len(msgs)
      BY <1>1
    <3> QED BY <3>1
  <2>2. \A y \in S : y \in Nat /\ k - 1 >= y
    <3> TAKE y \in S
    <3>1. y + 1 \in 1..(Len(msgs) + 1) /\ StartOf(y + 1) <= pos /\ y \in Nat
      BY <1>1
    <3>2. y + 1 <= k
      BY <1>2, <3>1
    <3> QED BY <1>1, <3>1, <3>2
  <2>3. k - 1 \in Nat
    BY <1>1
  <2> HIDE DEF S
  <2>4. \A x \in S : (\A y \in S : x >= y) => x = k - 1
    BY <2>1, <2>2, <2>3
  <2>5. Max(S) = k - 1
    BY <2>1, <2>2, <2>4 DEF Max
  <2> QED BY <2>5 DEF S, Ended
<1> QED BY <1>3, <1>4

-----------------------------------------------------------------------------
(* The flags of the KeyUpdates.                                            *)

\* What Append does to a sequence of known length.
LEMMA AppendOn ==
    ASSUME NEW S, NEW s \in Seq(S), NEW e \in S, NEW n \in Nat, Len(s) = n
    PROVE  /\ Append(s, e) \in Seq(S) /\ Len(Append(s, e)) = n + 1 /\ Append(s, e)[n + 1] = e
           /\ \A i \in 1..n : Append(s, e)[i] = s[i]
BY AppendProperties

\* One more message adds its flag, if it has one.
LEMMA FlagsNext ==
    ASSUME msgs \in Seq(Message), NEW n \in 0..(Len(msgs) - 1)
    PROVE  Flags(n) \in Seq(Nat) /\ Flags(n + 1) = Flags(n) \o Flag(msgs[n + 1])
<1>1. Len(msgs) \in Nat /\ n \in Nat /\ \A k \in 1..Len(msgs) : msgs[k] \in Message
  BY Starts
<1>2. \A k \in 1..Len(msgs) : Flag(msgs[k]) \in Seq(Nat)
  BY <1>1 DEF Flag, Message
<1> DEFINE ss == [k \in 1..n |-> Flag(msgs[k])]
           tt == [k \in 1..(n + 1) |-> Flag(msgs[k])]
           s == Flag(msgs[n + 1])
<1>3. ss \in Seq(Seq(Nat)) /\ tt \in Seq(Seq(Nat)) /\ Len(ss) = n /\ Len(tt) = n + 1 /\ s \in Seq(Nat)
  <2>1. ss \in [1..n -> Seq(Nat)] /\ tt \in [1..(n + 1) -> Seq(Nat)]
    BY <1>1, <1>2
  <2>2. s \in Seq(Nat)
    BY <1>1, <1>2
  <2> QED BY <1>1, <2>1, <2>2
<1>4. /\ \A k \in 1..n : ss[k] = Flag(msgs[k])
      /\ \A k \in 1..n : tt[k] = Flag(msgs[k])
      /\ tt[n + 1] = s
  BY <1>1
<1> HIDE DEF ss, tt, s
<1>5. tt = Append(ss, s)
  <2>1. /\ Append(ss, s) \in Seq(Seq(Nat)) /\ Len(Append(ss, s)) = n + 1 /\ Append(ss, s)[n + 1] = s
        /\ \A k \in 1..n : Append(ss, s)[k] = ss[k]
    BY <1>1, <1>3, AppendOn
  <2>2. \A k \in 1..(n + 1) : tt[k] = Append(ss, s)[k]
    <3> TAKE k \in 1..(n + 1)
    <3>1. k \in 1..n \/ k = n + 1
      BY <1>1
    <3> QED BY <1>4, <2>1, <3>1
  <2> QED BY <1>3, <2>1, <2>2, SeqEqual
<1>6. Joined(tt) = Joined(ss) \o s
  BY <1>3, <1>5, JoinedAppend
<1>7. Joined(ss) \in Seq(Nat)
  BY <1>3, JoinedType
<1> QED BY <1>6, <1>7, Zenon DEF Flags, ss, tt, s

\* Before the first message there is none.
LEMMA FlagsNone == Flags(0) = <<>>
<1>1. [k \in 1..0 |-> Flag(msgs[k])] = <<>>
  OBVIOUS
<1> QED BY <1>1, JoinedEmpty DEF Flags

-----------------------------------------------------------------------------
(* The steps.                                                              *)

\* The messages stay what they are.
LEMMA MsgsKept ==
    ASSUME UNCHANGED msgs
    PROVE  /\ \A k : StartOf(k)' = StartOf(k) /\ Legal(k)' = Legal(k) /\ Flags(k)' = Flags(k)
           /\ \A k : KeyUpdate(k)' = KeyUpdate(k) /\ MessageOf(k)' = MessageOf(k)
           /\ Total' = Total
           /\ (UNCHANGED pos => Boundary' = Boundary)
BY Zenon DEF StartOf, Legal, Flags, KeyUpdate, MessageOf, Total, Boundary

\* The smaller of two numbers.
LEMMA MinTwo ==
    ASSUME NEW a \in Nat, NEW b \in Nat
    PROVE  /\ Min({a, b}) \in Nat /\ Min({a, b}) <= a /\ Min({a, b}) <= b
           /\ Min({a, b}) = a \/ Min({a, b}) = b
<1>1. \E x \in {a, b} : \A y \in {a, b} : x <= y
  BY a <= b \/ b <= a
<1>2. Min({a, b}) \in {a, b} /\ \A y \in {a, b} : Min({a, b}) <= y
  BY <1>1 DEF Min
<1> QED BY <1>2

\* Where the walk is, in numbers.
LEMMA Where ==
    ASSUME Walked, NEW k \in 1..(Len(msgs) + 1), Reached(k)
    PROVE  /\ msgs \in Seq(Message) /\ Len(msgs) \in Nat /\ HDR \in Nat \ {0} /\ StartOf(k) \in Nat
           /\ pos \in Nat /\ end \in Nat /\ Rest \in Nat /\ pos + Rest = end /\ Len(stage) \in Nat
           /\ k <= Len(msgs) => /\ k + 1 \in 1..(Len(msgs) + 1) /\ k \in 1..Len(msgs) /\ k - 1 \in 0..(Len(msgs) - 1)
                                /\ StartOf(k + 1) = StartOf(k) + HDR + msgs[k].len
                                /\ Size(msgs[k]) = HDR + msgs[k].len /\ msgs[k].len \in Nat
                                /\ StartOf(k + 1) \in Nat
<1>1. /\ msgs \in Seq(Message) /\ HDR \in Nat \ {0} /\ pos \in Nat /\ end \in Nat /\ pos <= end
      /\ stage \in Seq(Nat)
  BY PostHandshakeAssumption DEF Walked
<1>2. /\ Len(msgs) \in Nat /\ StartOf(k) \in Nat
  BY <1>1, Starts
<1>3. ASSUME k <= Len(msgs)
      PROVE  /\ k + 1 \in 1..(Len(msgs) + 1) /\ k \in 1..Len(msgs) /\ k - 1 \in 0..(Len(msgs) - 1)
             /\ StartOf(k + 1) = StartOf(k) + HDR + msgs[k].len
             /\ Size(msgs[k]) = HDR + msgs[k].len /\ msgs[k].len \in Nat
             /\ StartOf(k + 1) \in Nat
  <2>1. k + 1 \in 1..(Len(msgs) + 1) /\ k \in 1..Len(msgs) /\ k - 1 \in 0..(Len(msgs) - 1)
    BY <1>2, <1>3
  <2>2. msgs[k] \in Message /\ StartOf(k + 1) = StartOf(k) + Size(msgs[k])
    BY <1>1, <2>1, Starts
  <2>3. Size(msgs[k]) = HDR + msgs[k].len /\ msgs[k].len \in Nat
    BY <2>2 DEF Size, Message
  <2> QED BY <1>1, <1>2, <2>1, <2>2, <2>3
<1> QED BY <1>1, <1>2, <1>3 DEF Rest

\* The message behind k is reached when k is legal and has been acted on.
LEMMA ReachNext ==
    ASSUME Walked, NEW k \in 1..(Len(msgs) + 1), Reached(k), k <= Len(msgs), Legal(k), UNCHANGED msgs,
           stage' = <<>>, skip_remaining' = 0, pos' = StartOf(k + 1), pc' # "check",
           updates' = updates \o Flag(msgs[k])
    PROVE  \E i \in 1..(Len(msgs') + 1) : Reached(i)'
<1>1. /\ msgs \in Seq(Message) /\ Len(msgs) \in Nat /\ k + 1 \in 1..(Len(msgs') + 1)
      /\ k - 1 \in 0..(Len(msgs) - 1) /\ (k - 1) + 1 = k /\ (k + 1) - 1 = k
  BY Where
<1>2. Flags(k) = Flags(k - 1) \o Flag(msgs[k])
  BY <1>1, FlagsNext, SMTT(30)
<1>3. updates' = Flags(k)'
  BY <1>2, MsgsKept DEF Reached
<1>4. AtStart(k + 1)'
  BY MsgsKept DEF AtStart
<1>5. \A j \in 1..k : Legal(j)'
  <2> TAKE j \in 1..k
  <2>1. j = k \/ j \in 1..(k - 1)
    BY <1>1
  <2> QED BY <2>1, MsgsKept DEF Reached
<1>6. Reached(k + 1)'
  BY <1>1, <1>3, <1>4, <1>5 DEF Reached
<1> QED BY <1>1, <1>6

\* The message k is still the one.
LEMMA ReachSame ==
    ASSUME NEW k \in 1..(Len(msgs) + 1), Reached(k), UNCHANGED <<msgs, updates>>,
           (AtStart(k) \/ InStage(k) \/ InBody(k))'
    PROVE  \E i \in 1..(Len(msgs') + 1) : Reached(i)'
<1>1. Reached(k)'
  BY MsgsKept DEF Reached
<1> QED BY <1>1

\* A record with the next bytes.
LEMMA RecordKeeps ==
    ASSUME PInv, NEW n \in 0..MaxLen, HandshakeRecord(n)
    PROVE  PInv'
<1>1. /\ pc = "idle" /\ pos + n <= Total /\ end' = pos + n /\ pc' = "walk"
      /\ UNCHANGED <<msgs, stage, skip_remaining, pos, updates, why>>
  BY DEF HandshakeRecord
<1>2. PICK k \in 1..(Len(msgs) + 1) : Reached(k)
  BY DEF PInv
<1>3. Walked'
  BY <1>1, PostHandshakeAssumption, MsgsKept DEF PInv, Walked
<1>4. (AtStart(k) \/ InStage(k) \/ InBody(k))'
  BY <1>1, <1>2, MsgsKept DEF Reached, AtStart, InStage, InBody
<1>5. \E i \in 1..(Len(msgs') + 1) : Reached(i)'
  BY <1>1, <1>2, <1>4, ReachSame
<1> QED BY <1>1, <1>3, <1>5 DEF PInv

\* A step that refuses and leaves the rest alone.
LEMMA RefusalKeeps ==
    ASSUME PInv, pc' = "failed", UNCHANGED <<msgs, stage, skip_remaining, pos, end, updates>>, Cause'
    PROVE  PInv'
<1>1. PICK k \in 1..(Len(msgs) + 1) : Reached(k)
  BY DEF PInv
<1>2. Walked'
  BY MsgsKept DEF PInv, Walked
<1>3. (AtStart(k) \/ InStage(k) \/ InBody(k))'
  BY <1>1, MsgsKept DEF Reached, AtStart, InStage, InBody
<1>4. \E i \in 1..(Len(msgs') + 1) : Reached(i)'
  BY <1>1, <1>3, ReachSame
<1> QED BY <1>2, <1>4 DEF PInv

\* Between records a message that is carried is one that has not ended.
LEMMA Inside ==
    ASSUME PInv, pc = "idle", NEW k \in 1..(Len(msgs) + 1), Reached(k)
    PROVE  /\ k <= Len(msgs) => pos < StartOf(k) + Size(msgs[k])
           /\ StartOf(k) <= pos
           /\ AtStart(k) <=> pos = StartOf(k)
<1>1. Walked
  BY DEF PInv
<1>2. /\ HDR \in Nat \ {0} /\ StartOf(k) \in Nat /\ pos \in Nat /\ Len(stage) \in Nat
      /\ skip_remaining \in Nat
      /\ k <= Len(msgs) => /\ Size(msgs[k]) = HDR + msgs[k].len /\ msgs[k].len \in Nat
                           /\ StartOf(k + 1) = StartOf(k) + HDR + msgs[k].len
  BY <1>1, Where DEF Walked
<1>3. CASE AtStart(k)
  BY <1>2, <1>3 DEF AtStart
<1>4. CASE InStage(k)
  <2>1. /\ k <= Len(msgs) /\ pos = StartOf(k) + Len(stage) /\ Len(stage) > 0
        /\ Len(stage) < HDR \/ (Len(stage) = HDR /\ msgs[k].len = 1)
    BY <1>4 DEF InStage, KeyUpdate
  <2>2. pos < StartOf(k) + Size(msgs[k]) /\ StartOf(k) <= pos /\ pos # StartOf(k)
    <3>1. PICK m \in Nat : m = StartOf(k)
      BY <1>2
    <3>2. PICK l \in Nat : l = Len(stage)
      BY <1>2
    <3>3. /\ pos = m + l /\ l > 0 /\ Size(msgs[k]) = HDR + msgs[k].len /\ msgs[k].len \in Nat
          /\ l < HDR \/ (l = HDR /\ msgs[k].len = 1)
      BY <1>2, <2>1, <3>1, <3>2
    <3> QED BY <1>2, <3>1, <3>3, SMTT(30)
  <2> QED BY <2>2 DEF AtStart
<1>5. CASE InBody(k)
  <2>1. /\ k <= Len(msgs) /\ skip_remaining > 0 /\ pos >= StartOf(k) + HDR
        /\ pos + skip_remaining = StartOf(k + 1)
    BY <1>5 DEF InBody
  <2>2. pos < StartOf(k) + Size(msgs[k]) /\ StartOf(k) <= pos /\ pos # StartOf(k)
    <3>1. PICK m \in Nat : m = StartOf(k)
      BY <1>2
    <3>2. PICK l \in Nat : l = msgs[k].len /\ Size(msgs[k]) = HDR + l /\ StartOf(k + 1) = m + HDR + l
      BY <1>2, <2>1, <3>1, SMTT(30)
    <3> QED BY <1>2, <2>1, <3>1, <3>2, SMTT(30)
  <2> QED BY <2>2 DEF AtStart
<1> QED BY <1>3, <1>4, <1>5 DEF Reached

\* Another record.
LEMMA OtherKeeps ==
    ASSUME PInv, OtherRecord
    PROVE  PInv'
<1>1. pc = "idle" /\ UNCHANGED <<msgs, stage, skip_remaining, pos, end, updates>>
  BY DEF OtherRecord
<1>2. PICK k \in 1..(Len(msgs) + 1) : Reached(k)
  BY DEF PInv
<1>3. CASE in_progress
  <2>1. pc' = "failed" /\ why' = "interleaved"
    BY <1>3 DEF OtherRecord
  <2>2. ~AtStart(k)
    BY <1>3 DEF AtStart, in_progress
  <2>3. msgs \in Seq(Message) /\ pos \in Nat
    BY DEF PInv, Walked
  <2>4. pos # Boundary
    BY <1>1, <1>2, <2>2, <2>3, Inside, BoundaryIs
  <2>5. Cause'
    BY <1>1, <2>1, <2>4, MsgsKept DEF Cause
  <2> QED BY <1>1, <2>1, <2>5, RefusalKeeps
<1>4. CASE ~in_progress
  <2>1. pc' = pc
    BY <1>4 DEF OtherRecord
  <2>2. Walked'
    BY <1>1, <2>1, MsgsKept DEF PInv, Walked
  <2>3. (AtStart(k) \/ InStage(k) \/ InBody(k))'
    BY <1>1, <1>2, <2>1, MsgsKept DEF Reached, AtStart, InStage, InBody
  <2>4. \E i \in 1..(Len(msgs') + 1) : Reached(i)'
    BY <1>1, <1>2, <2>3, ReachSame
  <2> QED BY <1>1, <2>1, <2>2, <2>4 DEF PInv
<1> QED BY <1>3, <1>4

\* What Take moves.
LEMMA Moves ==
    ASSUME Walked, NEW n \in Nat, Take(n)
    PROVE  \E d \in Nat : /\ pos' = pos + d /\ pos' - pos = d /\ d <= n /\ pos' \in Nat /\ pos' <= end
                          /\ d = n \/ pos' = end
<1>1. pos \in Nat /\ end \in Nat /\ Rest \in Nat /\ pos + Rest = end
  BY DEF Walked, Rest
<1>2. PICK d : d = Min({n, Rest})
  OBVIOUS
<1>3. d \in Nat /\ d <= n /\ d <= Rest /\ (d = n \/ d = Rest)
  BY <1>1, <1>2, MinTwo
<1>4. pos' = pos + d
  BY <1>2 DEF Take
<1>5. pos' - pos = d /\ pos' \in Nat /\ pos' <= end /\ (d = n \/ pos' = end)
  BY <1>1, <1>3, <1>4
<1> QED BY <1>3, <1>4, <1>5

\* The rest of a ticket.
LEMMA BodyKeeps ==
    ASSUME PInv, SkipBody
    PROVE  PInv'
<1>1. /\ pc = "walk" /\ skip_remaining > 0 /\ skip_remaining' = skip_remaining - (pos' - pos)
      /\ pc' = IF skip_remaining' > 0 THEN "idle" ELSE "walk"
      /\ UNCHANGED <<msgs, stage, end, updates, why>>
  BY DEF SkipBody
<1>2. PICK k \in 1..(Len(msgs) + 1) : Reached(k)
  BY DEF PInv
<1>3. Walked /\ skip_remaining \in Nat
  BY DEF PInv, Walked
<1>4. PICK d \in Nat : /\ pos' = pos + d /\ pos' - pos = d /\ d <= skip_remaining /\ pos' \in Nat
                       /\ pos' <= end /\ (d = skip_remaining \/ pos' = end)
  BY <1>3, Moves DEF SkipBody
<1>5. InBody(k)
  BY <1>1, <1>2 DEF Reached, AtStart, InStage
<1>6. /\ k <= Len(msgs) /\ pos >= StartOf(k) + HDR /\ pos + skip_remaining = StartOf(k + 1)
      /\ msgs[k].type = "ticket" /\ stage = <<>>
  BY <1>5 DEF InBody
<1>7. pos \in Nat /\ StartOf(k) \in Nat /\ HDR \in Nat /\ StartOf(k + 1) \in Nat
  BY <1>2, <1>3, <1>6, Where
<1>8. skip_remaining' \in Nat /\ pos' + skip_remaining' = StartOf(k + 1) /\ pos' >= StartOf(k) + HDR
      /\ (skip_remaining' > 0 => pos' = end)
  BY <1>1, <1>3, <1>4, <1>6, <1>7
<1>9. Walked'
  BY <1>1, <1>3, <1>4, <1>8, MsgsKept DEF Walked
<1>10. \E i \in 1..(Len(msgs') + 1) : Reached(i)'
  <2>1. CASE skip_remaining' > 0
    <3>1. InBody(k)'
      BY <1>1, <1>6, <1>8, <2>1, MsgsKept DEF InBody
    <3> QED BY <1>1, <1>2, <3>1, ReachSame
  <2>2. CASE skip_remaining' = 0
    <3>1. pos' = StartOf(k + 1) /\ pc' = "walk"
      BY <1>1, <1>4, <1>7, <1>8, <2>2
    <3>2. Legal(k) /\ Flag(msgs[k]) = <<>>
      BY <1>6 DEF Legal, Flag
    <3>3. updates' = updates \o <<>>
      <4>1. k - 1 \in 0..(Len(msgs) - 1) /\ msgs \in Seq(Message)
        BY <1>2, <1>3, <1>6, Where
      <4>2. updates \in Seq(Nat)
        BY <1>2, <4>1, FlagsNext DEF Reached
      <4> QED BY <1>1, <4>2
    <3> QED BY <1>1, <1>2, <1>3, <1>6, <2>2, <3>1, <3>2, <3>3, ReachNext, Zenon
  <2> QED BY <1>8, <2>1, <2>2
<1> QED BY <1>1, <1>9, <1>10 DEF PInv

\* Staging extends the bytes since the start of the message.
LEMMA Stages ==
    ASSUME Walked, NEW k \in 1..(Len(msgs) + 1), Reached(k), skip_remaining = 0,
           NEW upto \in Nat, Len(stage) <= upto, StageBytes(upto), UNCHANGED <<msgs, end>>
    PROVE  /\ stage' \in Seq(Nat) /\ Len(stage') \in Nat /\ Len(stage') <= upto /\ Len(stage') >= Len(stage)
           /\ pos' = StartOf(k) + Len(stage') /\ pos' \in Nat /\ pos' <= end
           /\ Len(stage') = upto \/ pos' = end
           /\ \A j \in 1..Len(stage') : stage'[j] = StartOf(k) + j - 1
           /\ Len(stage') > 0 => k <= Len(msgs)
<1>1. /\ Len(msgs) \in Nat /\ StartOf(k) \in Nat /\ pos \in Nat /\ end \in Nat /\ Len(stage) \in Nat
      /\ stage \in Seq(Nat) /\ end <= Total /\ msgs \in Seq(Message)
  BY Where DEF Walked
<1>2. /\ pos = StartOf(k) + Len(stage)
      /\ \A j \in 1..Len(stage) : stage[j] = StartOf(k) + j - 1
      /\ Len(stage) > 0 => k <= Len(msgs)
  <2>1. CASE AtStart(k)
    <3>1. stage = <<>> /\ Len(stage) = 0 /\ pos = StartOf(k)
      BY <2>1 DEF AtStart
    <3> QED BY <1>1, <3>1
  <2>2. CASE InStage(k)
    BY <2>2 DEF InStage
  <2> QED BY <2>1, <2>2 DEF Reached, InBody
<1>3. upto - Len(stage) \in Nat
  BY <1>1
<1>4. PICK d \in Nat : /\ pos' = pos + d /\ pos' - pos = d /\ d <= upto - Len(stage) /\ pos' \in Nat
                       /\ pos' <= end /\ (d = upto - Len(stage) \/ pos' = end)
  BY <1>3, Moves DEF StageBytes
<1> DEFINE new == [j \in 1..d |-> pos + j - 1]
<1>5. stage' = stage \o new
  BY <1>4 DEF StageBytes
<1>6. new \in Seq(Nat) /\ Len(new) = d /\ \A j \in 1..d : new[j] = pos + j - 1
  <2>1. new \in [1..d -> Nat]
    BY <1>1
  <2> QED BY <2>1
<1> HIDE DEF new
<1>7. /\ stage' \in Seq(Nat) /\ Len(stage') = Len(stage) + d
      /\ \A j \in 1..Len(stage) : stage'[j] = stage[j]
      /\ \A j \in (Len(stage) + 1)..(Len(stage) + d) : stage'[j] = new[j - Len(stage)]
  <2>1. /\ stage \o new \in Seq(Nat) /\ Len(stage \o new) = Len(stage) + Len(new)
        /\ \A j \in 1..(Len(stage) + Len(new)) :
             (stage \o new)[j] = IF j <= Len(stage) THEN stage[j] ELSE new[j - Len(stage)]
    BY <1>1, <1>6, ConcatProperties, Zenon
  <2>2. PICK n \in Nat : n = Len(stage)
    BY <1>1
  <2>3. PICK t : t = stage \o new
    BY Zenon
  <2>4. t \in Seq(Nat) /\ Len(t) = n + d /\ \A j \in 1..(n + d) : t[j] = IF j <= n THEN stage[j] ELSE new[j - n]
    BY <1>6, <2>1, <2>2, <2>3
  <2>5. (\A j \in 1..n : t[j] = stage[j]) /\ \A j \in (n + 1)..(n + d) : t[j] = new[j - n]
    BY <2>4, SMTT(30)
  <2> QED BY <1>5, <2>2, <2>3, <2>4, <2>5
<1>8. pos' = StartOf(k) + Len(stage') /\ Len(stage') <= upto /\ Len(stage') >= Len(stage)
      /\ (Len(stage') = upto \/ pos' = end) /\ Len(stage') \in Nat
  <2>1. PICK n \in Nat : n = Len(stage)
    BY <1>1
  <2>2. PICK m \in Nat : m = StartOf(k)
    BY <1>1
  <2>3. Len(stage') = n + d /\ pos' = (m + n) + d /\ d <= upto - n /\ (d = upto - n \/ pos' = end)
    BY <1>2, <1>4, <1>7, <2>1, <2>2
  <2>4. /\ pos' = m + Len(stage') /\ Len(stage') <= upto /\ Len(stage') >= n
        /\ (Len(stage') = upto \/ pos' = end) /\ Len(stage') \in Nat
    BY <2>3
  <2> QED BY <2>1, <2>2, <2>4
<1>9. ASSUME NEW j \in 1..Len(stage') PROVE stage'[j] = StartOf(k) + j - 1
  <2>1. CASE j \in 1..Len(stage)
    BY <1>2, <1>7, <2>1
  <2>2. CASE j \notin 1..Len(stage)
    <3>1. j \in (Len(stage) + 1)..(Len(stage) + d) /\ j - Len(stage) \in 1..d
      BY <1>1, <1>7, <2>2
    <3>2. stage'[j] = pos + (j - Len(stage)) - 1
      BY <1>6, <1>7, <3>1
    <3> QED BY <1>1, <1>2, <3>1, <3>2, SMTT(30)
  <2> QED BY <2>1, <2>2
<1>10. ASSUME Len(stage') > 0 PROVE k <= Len(msgs)
  <2>1. SUFFICES ASSUME k = Len(msgs) + 1 PROVE FALSE
    BY <1>1
  <2>2. pos' > Total
    BY <1>1, <1>8, <1>10, <2>1 DEF Total
  <2>3. Total \in Nat
    BY <1>1, <2>1 DEF Total
  <2> QED BY <1>1, <1>4, <2>2, <2>3
<1> QED BY <1>4, <1>7, <1>8, <1>9, <1>10

\* The header of a message.
LEMMA HeaderKeeps ==
    ASSUME PInv, StageHeader
    PROVE  PInv'
<1>1. /\ pc = "walk" /\ skip_remaining = 0 /\ Len(stage) < HDR /\ StageBytes(HDR)
      /\ pc' = IF Len(stage') < HDR THEN "idle" ELSE "walk"
      /\ UNCHANGED <<msgs, skip_remaining, end, updates, why>>
  BY DEF StageHeader
<1>2. PICK k \in 1..(Len(msgs) + 1) : Reached(k)
  BY DEF PInv
<1>3. Walked /\ HDR \in Nat /\ Len(stage) \in Nat
  BY PostHandshakeAssumption DEF PInv, Walked
<1>4. /\ stage' \in Seq(Nat) /\ Len(stage') \in Nat /\ Len(stage') <= HDR
      /\ pos' = StartOf(k) + Len(stage') /\ pos' \in Nat /\ pos' <= end
      /\ Len(stage') = HDR \/ pos' = end
      /\ \A j \in 1..Len(stage') : stage'[j] = StartOf(k) + j - 1
      /\ Len(stage') > 0 => k <= Len(msgs)
  BY <1>1, <1>2, <1>3, Stages
<1>5. Walked'
  BY <1>1, <1>3, <1>4, MsgsKept DEF Walked
<1>6. (AtStart(k) \/ InStage(k))'
  <2>1. CASE Len(stage') = 0
    <3>1. stage' = <<>> /\ StartOf(k) \in Nat
      BY <1>2, <1>3, <1>4, <2>1, EmptySeq, Where
    <3> QED BY <1>1, <1>4, <2>1, <3>1, MsgsKept DEF AtStart
  <2>2. CASE Len(stage') > 0
    BY <1>1, <1>3, <1>4, <2>2, MsgsKept DEF InStage
  <2> QED BY <1>4, <2>1, <2>2
<1>7. \E i \in 1..(Len(msgs') + 1) : Reached(i)'
  BY <1>1, <1>2, <1>6, ReachSame
<1> QED BY <1>1, <1>5, <1>7 DEF PInv

\* A staged header is that of the message the walk has reached.
LEMMA HeaderIs ==
    ASSUME PInv, Staged, NEW k \in 1..(Len(msgs) + 1), Reached(k)
    PROVE  /\ InStage(k) /\ Len(stage) = HDR /\ k <= Len(msgs) /\ k \in 1..Len(msgs)
           /\ MessageOf(stage[1]) = k /\ Header = msgs[k]
<1>1. Walked /\ pc = "walk" /\ skip_remaining = 0 /\ Len(stage) >= HDR
  BY DEF PInv, Staged
<1>2. HDR \in Nat \ {0} /\ StartOf(k) \in Nat /\ Len(stage) \in Nat /\ msgs \in Seq(Message)
  BY <1>1, Where
<1>3. InStage(k)
  <2>1. ~AtStart(k)
    <3>1. stage = <<>> => Len(stage) = 0
      OBVIOUS
    <3> QED BY <1>1, <1>2, <3>1 DEF AtStart
  <2> QED BY <1>1, <2>1 DEF Reached, InBody
<1>4. Len(stage) = HDR /\ k <= Len(msgs) /\ stage[1] = StartOf(k) + 1 - 1
  <2>1. 1 \in 1..Len(stage)
    BY <1>1, <1>2
  <2> QED BY <1>1, <1>2, <1>3, <2>1 DEF InStage
<1>5. stage[1] = StartOf(k) /\ k \in 1..Len(msgs) /\ Size(msgs[k]) \in Nat /\ Size(msgs[k]) >= HDR
  BY <1>1, <1>2, <1>4, Starts, Where
<1>6. MessageOf(stage[1]) = k
  BY <1>2, <1>5, MessageIs
<1> QED BY <1>3, <1>4, <1>5, <1>6 DEF Header

\* A ticket: what is there of its body is skipped.
LEMMA TicketKeeps ==
    ASSUME PInv, SkipTicket
    PROVE  PInv'
<1>1. /\ Staged /\ Header.type = "ticket" /\ stage' = <<>> /\ Take(Header.len)
      /\ skip_remaining' = Header.len - (pos' - pos)
      /\ pc' = IF skip_remaining' > 0 THEN "idle" ELSE "walk"
      /\ UNCHANGED <<msgs, end, updates, why>>
  BY DEF SkipTicket
<1>2. PICK k \in 1..(Len(msgs) + 1) : Reached(k)
  BY DEF PInv
<1>3. Walked
  BY DEF PInv
<1>4. InStage(k) /\ Len(stage) = HDR /\ k <= Len(msgs) /\ Header = msgs[k]
  BY <1>1, <1>2, HeaderIs
<1>5. /\ HDR \in Nat \ {0} /\ StartOf(k) \in Nat /\ pos \in Nat /\ msgs[k].len \in Nat
      /\ StartOf(k + 1) = StartOf(k) + HDR + msgs[k].len /\ pos = StartOf(k) + HDR
      /\ k - 1 \in 0..(Len(msgs) - 1) /\ msgs \in Seq(Message)
  BY <1>2, <1>3, <1>4, Where DEF InStage
<1>6. PICK d \in Nat : /\ pos' = pos + d /\ pos' - pos = d /\ d <= msgs[k].len /\ pos' \in Nat
                       /\ pos' <= end /\ (d = msgs[k].len \/ pos' = end)
  BY <1>1, <1>3, <1>4, <1>5, Moves, Zenon
<1>7. skip_remaining' = msgs[k].len - d
  BY <1>1, <1>4, <1>6
<1>8. skip_remaining' \in Nat /\ pos' + skip_remaining' = StartOf(k + 1) /\ pos' >= StartOf(k) + HDR
      /\ (skip_remaining' > 0 => pos' = end)
  <2>1. PICK n \in Nat : n = msgs[k].len
    BY <1>5
  <2>2. PICK m \in Nat : m = StartOf(k)
    BY <1>5
  <2>3. /\ skip_remaining' = n - d /\ pos' = (m + HDR) + d /\ d <= n /\ (d = n \/ pos' = end)
        /\ StartOf(k + 1) = m + HDR + n /\ HDR \in Nat
    BY <1>5, <1>6, <1>7, <2>1, <2>2
  <2>4. /\ skip_remaining' \in Nat /\ pos' + skip_remaining' = m + HDR + n /\ pos' >= m + HDR
        /\ (skip_remaining' > 0 => pos' = end)
    BY <2>3
  <2> QED BY <2>2, <2>3, <2>4
<1>9. Walked'
  BY <1>1, <1>3, <1>6, <1>8, MsgsKept DEF Walked
<1>10. \E i \in 1..(Len(msgs') + 1) : Reached(i)'
  <2>1. CASE skip_remaining' > 0
    <3>1. InBody(k)'
      BY <1>1, <1>4, <1>8, <2>1, MsgsKept DEF InBody
    <3> QED BY <1>1, <1>2, <3>1, ReachSame
  <2>2. CASE skip_remaining' = 0
    <3>1. pos' = StartOf(k + 1) /\ pc' = "walk"
      <4>1. pos' + skip_remaining' = StartOf(k + 1) /\ pos' \in Nat
        BY <1>6, <1>8, Zenon
      <4>2. pos' = StartOf(k + 1)
        BY <2>2, <4>1
      <4>3. ~(skip_remaining' > 0)
        BY <2>2
      <4> QED BY <1>1, <4>2, <4>3, Zenon
    <3>2. Legal(k) /\ Flag(msgs[k]) = <<>>
      BY <1>1, <1>4 DEF Legal, Flag
    <3>3. updates' = updates \o <<>>
      <4>1. updates \in Seq(Nat)
        BY <1>2, <1>5, FlagsNext DEF Reached
      <4> QED BY <1>1, <4>1
    <3> QED BY <1>1, <1>2, <1>3, <1>4, <2>2, <3>1, <3>2, <3>3, ReachNext, Zenon
  <2> QED BY <1>8, <2>1, <2>2
<1> QED BY <1>1, <1>9, <1>10 DEF PInv

\* The body of a KeyUpdate.
LEMMA UpdateKeeps ==
    ASSUME PInv, StageKeyUpdate
    PROVE  PInv'
<1>1. /\ Staged /\ Header.type = "key_update" /\ Header.len = 1 /\ StageBytes(HDR + 1)
      /\ pc' = IF Len(stage') < HDR + 1 THEN "idle" ELSE "check"
      /\ UNCHANGED <<msgs, skip_remaining, end, updates, why>>
  BY DEF StageKeyUpdate, PH_STAGE_MAX
<1>2. PICK k \in 1..(Len(msgs) + 1) : Reached(k)
  BY DEF PInv
<1>3. Walked /\ HDR \in Nat \ {0} /\ HDR + 1 \in Nat /\ skip_remaining = 0
  BY <1>1, PostHandshakeAssumption DEF PInv, Walked, Staged
<1>4. InStage(k) /\ Len(stage) = HDR /\ k <= Len(msgs) /\ Header = msgs[k]
  BY <1>1, <1>2, HeaderIs
<1>5. Len(stage) <= HDR + 1
  BY <1>3, <1>4
<1>6. /\ stage' \in Seq(Nat) /\ Len(stage') \in Nat /\ Len(stage') <= HDR + 1 /\ Len(stage') >= Len(stage)
      /\ pos' = StartOf(k) + Len(stage') /\ pos' \in Nat /\ pos' <= end
      /\ Len(stage') = HDR + 1 \/ pos' = end
      /\ \A j \in 1..Len(stage') : stage'[j] = StartOf(k) + j - 1
  BY <1>1, <1>2, <1>3, <1>5, Stages
<1>7. Walked'
  BY <1>1, <1>3, <1>6, MsgsKept DEF Walked
<1>8. KeyUpdate(k)
  BY <1>1, <1>4 DEF KeyUpdate
<1>9. Len(stage') = HDR \/ Len(stage') = HDR + 1
  BY <1>3, <1>4, <1>6
<1>10. InStage(k)'
  BY <1>1, <1>3, <1>4, <1>6, <1>8, <1>9, MsgsKept DEF InStage
<1>11. \E i \in 1..(Len(msgs') + 1) : Reached(i)'
  BY <1>1, <1>2, <1>10, ReachSame
<1> QED BY <1>1, <1>7, <1>11 DEF PInv

\* The KeyUpdate whose last byte is staged is the message the walk has reached.
LEMMA CheckIs ==
    ASSUME PInv, pc = "check", NEW k \in 1..(Len(msgs) + 1), Reached(k)
    PROVE  /\ InStage(k) /\ Len(stage) = HDR + 1 /\ k <= Len(msgs) /\ k \in 1..Len(msgs) /\ KeyUpdate(k)
           /\ MessageOf(stage[1]) = k /\ MessageOf(stage[PH_STAGE_MAX]) = k
<1>1. Walked
  BY DEF PInv
<1>2. HDR \in Nat \ {0} /\ StartOf(k) \in Nat /\ Len(stage) \in Nat /\ msgs \in Seq(Message)
  BY <1>1, Where
<1>3. InStage(k)
  BY DEF Reached, AtStart, InBody
<1>4. Len(stage) = HDR + 1 /\ k <= Len(msgs) /\ KeyUpdate(k)
  BY <1>3 DEF InStage
<1>5. 1 \in 1..Len(stage) /\ HDR + 1 \in 1..Len(stage)
  BY <1>2, <1>4
<1>6. stage[1] = StartOf(k) /\ stage[HDR + 1] = StartOf(k) + HDR
  <2>1. stage[1] = StartOf(k) + 1 - 1 /\ stage[HDR + 1] = StartOf(k) + (HDR + 1) - 1
    BY <1>3, <1>5 DEF InStage
  <2> QED BY <1>2, <2>1
<1>7. k \in 1..Len(msgs) /\ Size(msgs[k]) = HDR + 1
  BY <1>1, <1>4, Where, SMTT(30) DEF KeyUpdate
<1>8. MessageOf(stage[1]) = k
  BY <1>2, <1>6, <1>7, MessageIs
<1>9. MessageOf(stage[HDR + 1]) = k
  <2>1. StartOf(k) + HDR \in Nat /\ StartOf(k) <= StartOf(k) + HDR /\ StartOf(k) + HDR < StartOf(k) + Size(msgs[k])
    BY <1>2, <1>7
  <2> QED BY <1>2, <1>6, <1>7, <2>1, MessageIs
<1> QED BY <1>3, <1>4, <1>7, <1>8, <1>9 DEF PH_STAGE_MAX

\* A KeyUpdate is acted on.
LEMMA ProcessKeeps ==
    ASSUME PInv, ProcessKeyUpdate
    PROVE  PInv'
<1>1. /\ pc = "check" /\ KeyUpdateLegal /\ stage' = <<>> /\ pc' = "idle"
      /\ updates' = Append(updates, msgs[MessageOf(stage[PH_STAGE_MAX])].flag)
      /\ UNCHANGED <<msgs, skip_remaining, pos, end, why>>
  BY DEF ProcessKeyUpdate
<1>2. PICK k \in 1..(Len(msgs) + 1) : Reached(k)
  BY DEF PInv
<1>3. Walked
  BY DEF PInv
<1>4. /\ InStage(k) /\ Len(stage) = HDR + 1 /\ k <= Len(msgs) /\ k \in 1..Len(msgs) /\ KeyUpdate(k)
      /\ MessageOf(stage[PH_STAGE_MAX]) = k
  BY <1>1, <1>2, CheckIs
<1>5. pos = end /\ msgs[k].flag \in {0, 1} /\ updates' = Append(updates, msgs[k].flag)
  BY <1>1, <1>4 DEF KeyUpdateLegal
<1>6. /\ HDR \in Nat \ {0} /\ StartOf(k) \in Nat /\ msgs \in Seq(Message)
      /\ StartOf(k + 1) = StartOf(k) + HDR + msgs[k].len /\ k - 1 \in 0..(Len(msgs) - 1)
  BY <1>2, <1>3, <1>4, Where
<1>7. pos' = StartOf(k + 1) /\ skip_remaining' = 0
  BY <1>1, <1>4, <1>6 DEF InStage, KeyUpdate
<1>8. Walked'
  BY <1>1, <1>3, <1>5, MsgsKept DEF Walked
<1>9. Legal(k) /\ Flag(msgs[k]) = <<msgs[k].flag>>
  BY <1>4, <1>5 DEF Legal, Flag, KeyUpdate
<1>10. updates' = updates \o <<msgs[k].flag>>
  <2>1. updates \in Seq(Nat) /\ msgs[k].flag \in Nat
    BY <1>2, <1>5, <1>6, FlagsNext DEF Reached
  <2> QED BY <1>5, <2>1, AppendIsConcat, Zenon
<1>11. \E i \in 1..(Len(msgs') + 1) : Reached(i)'
  BY <1>1, <1>2, <1>3, <1>4, <1>7, <1>9, <1>10, ReachNext, Zenon
<1> QED BY <1>1, <1>8, <1>11 DEF PInv

\* What is refused, is refused for cause.
LEMMA FailureKeeps ==
    ASSUME PInv, MalformedKeyUpdate \/ NotSupported
    PROVE  PInv'
<1>1. PICK k \in 1..(Len(msgs) + 1) : Reached(k)
  BY DEF PInv
<1>2. pc' = "failed" /\ UNCHANGED <<msgs, stage, skip_remaining, pos, end, updates>>
  BY DEF MalformedKeyUpdate, NotSupported, Fail
<1>3. /\ MessageOf(stage[1])' = MessageOf(stage[1]) /\ Legal(k)' = Legal(k)
      /\ Walked /\ pos \in Nat /\ end \in Nat /\ pos <= end
  BY <1>2, MsgsKept DEF PInv, Walked
<1>4. CASE Staged
  <2>1. MessageOf(stage[1]) = k /\ Header = msgs[k] /\ pc = "walk"
    BY <1>1, <1>4, HeaderIs DEF Staged
  <2>2. CASE NotSupported
    <3>1. why' = "unsupported" /\ msgs[k].type = "other"
      BY <2>1, <2>2 DEF NotSupported, Fail
    <3> QED BY <1>2, <1>3, <2>1, <3>1, RefusalKeeps DEF Cause
  <2>3. CASE MalformedKeyUpdate
    <3>1. why' = "malformed" /\ msgs[k].type = "key_update" /\ msgs[k].len # 1
      BY <2>1, <2>3 DEF MalformedKeyUpdate, Fail
    <3>2. ~Legal(k)
      BY <3>1 DEF Legal
    <3> QED BY <1>2, <1>3, <2>1, <3>1, <3>2, RefusalKeeps DEF Cause
  <2> QED BY <2>2, <2>3
<1>5. CASE ~Staged
  <2>1. pc = "check" /\ ~KeyUpdateLegal /\ why' = "malformed"
    BY <1>5 DEF MalformedKeyUpdate, NotSupported, Fail
  <2>2. MessageOf(stage[1]) = k /\ MessageOf(stage[PH_STAGE_MAX]) = k /\ KeyUpdate(k)
    BY <1>1, <2>1, CheckIs
  <2>3. pos # end \/ msgs[k].flag \notin {0, 1}
    BY <2>1, <2>2 DEF KeyUpdateLegal
  <2>4. msgs[k].type = "key_update" /\ (~Legal(k) \/ pos < end)
    BY <1>3, <2>2, <2>3 DEF Legal, KeyUpdate
  <2> QED BY <1>2, <1>3, <2>1, <2>2, <2>4, RefusalKeeps DEF Cause
<1> QED BY <1>4, <1>5

-----------------------------------------------------------------------------
(* The invariant and what follows from it.                                 *)

\* The start of a stream.
LEMMA InitPInv == ASSUME Init PROVE PInv
<1>1. /\ msgs \in Seq(Message) /\ stage = <<>> /\ skip_remaining = 0 /\ pos = 0 /\ end = 0
      /\ pc = "idle" /\ updates = <<>>
  BY PostHandshakeAssumption, Zenon DEF Init
<1>2. /\ Len(msgs) \in Nat /\ StartOf(1) = 0 /\ Total \in Nat /\ 1 \in 1..(Len(msgs) + 1)
  <2>1. Len(msgs) \in Nat /\ StartOf(1) = 0
    BY <1>1, Starts
  <2>2. Len(msgs) + 1 \in 1..(Len(msgs) + 1) /\ 1 \in 1..(Len(msgs) + 1)
    BY <2>1
  <2> QED BY <1>1, <2>1, <2>2, Starts DEF Total
<1>3. Walked
  BY <1>1, <1>2 DEF Walked
<1>4. Reached(1)
  <2>1. AtStart(1)
    BY <1>1, <1>2 DEF AtStart
  <2>2. 1 - 1 = 0 /\ updates = Flags(0)
    BY <1>1, FlagsNone
  <2> QED BY <2>1, <2>2 DEF Reached
<1> QED BY <1>1, <1>2, <1>3, <1>4 DEF PInv

\* Every step keeps the invariant.
LEMMA NextPInv == ASSUME PInv, [Next]_vars PROVE PInv'
<1>1. CASE UNCHANGED vars
  <2>1. UNCHANGED <<msgs, stage, skip_remaining, pos, end, pc, updates, why>>
    BY <1>1 DEF vars
  <2>2. PICK k \in 1..(Len(msgs) + 1) : Reached(k)
    BY DEF PInv
  <2>3. Walked'
    BY <2>1, MsgsKept DEF PInv, Walked
  <2>4. (AtStart(k) \/ InStage(k) \/ InBody(k))'
    BY <2>1, <2>2, MsgsKept DEF Reached, AtStart, InStage, InBody
  <2>5. \E i \in 1..(Len(msgs') + 1) : Reached(i)'
    BY <2>1, <2>2, <2>4, ReachSame, SMTT(30)
  <2>6. Cause' = Cause
    BY <2>1, MsgsKept DEF Cause
  <2> QED BY <2>1, <2>3, <2>5, <2>6 DEF PInv
<1>2. CASE \E n \in 0..MaxLen : HandshakeRecord(n)
  BY <1>2, RecordKeeps
<1>3. CASE Walk
  BY <1>3, BodyKeeps, HeaderKeeps, TicketKeeps, UpdateKeeps, ProcessKeeps, FailureKeeps DEF Walk
<1> QED BY <1>1, <1>2, <1>3, OtherKeeps DEF Next, Failed

\* The invariant holds throughout.
THEOREM WalkInvariance == Spec => []PInv
<1>1. Init => PInv
  BY InitPInv
<1>2. PInv /\ [Next]_vars => PInv'
  BY NextPInv
<1> QED BY <1>1, <1>2, PTL DEF Spec

\* Between records PostHandshakeReasm carries exactly the position inside the
\* message, however the stream was cut (engine.rs 77-93).
THEOREM CarriesPosition == Spec => []CarriesExactly
<1>1. PInv => CarriesExactly
  <2> SUFFICES ASSUME PInv, pc = "idle" PROVE CarriesExactly
    BY DEF CarriesExactly
  <2>1. PICK k \in 1..(Len(msgs) + 1) : Reached(k)
    BY DEF PInv
  <2>2. Walked /\ msgs \in Seq(Message) /\ pos \in Nat
    BY DEF PInv, Walked
  <2>3. /\ k <= Len(msgs) => pos < StartOf(k) + Size(msgs[k])
        /\ StartOf(k) <= pos /\ (AtStart(k) <=> pos = StartOf(k))
    BY <2>1, Inside
  <2>4. Boundary = StartOf(k)
    BY <2>2, <2>3, BoundaryIs
  <2>5. StartOf(k) \in Nat /\ HDR \in Nat \ {0} /\ Len(stage) \in Nat /\ stage \in Seq(Nat)
    BY <2>1, <2>2, Where DEF Walked
  <2>6. CASE AtStart(k)
    BY <2>3, <2>4, <2>6 DEF AtStart, CarriesExactly, in_progress
  <2>7. CASE InStage(k)
    <3>1. Len(stage) > 0 /\ skip_remaining = 0 /\ pos = StartOf(k) + Len(stage)
          /\ \A j \in 1..Len(stage) : stage[j] = StartOf(k) + j - 1
      BY <2>7 DEF InStage
    <3>2. stage # <<>> /\ pos # StartOf(k) /\ pos - StartOf(k) = Len(stage)
      BY <2>5, <3>1
    <3>3. stage = [j \in 1..Len(stage) |-> stage[j]]
      BY <2>5
    <3>4. stage = [j \in 1..(pos - Boundary) |-> Boundary + j - 1]
      BY <2>4, <3>1, <3>2, <3>3
    <3>5. in_progress /\ pos # Boundary /\ ~(skip_remaining > 0)
      BY <2>4, <3>1, <3>2 DEF in_progress
    <3> HIDE DEF in_progress, Boundary
    <3> QED BY <3>4, <3>5 DEF CarriesExactly
  <2>8. CASE InBody(k)
    <3>1. /\ k <= Len(msgs) /\ stage = <<>> /\ skip_remaining > 0
          /\ pos >= StartOf(k) + HDR /\ pos + skip_remaining = StartOf(k + 1)
      BY <2>8 DEF InBody
    <3>2. k \in 1..Len(msgs) /\ StartOf(k + 1) = StartOf(k) + Size(msgs[k]) /\ Size(msgs[k]) \in Nat
          /\ Size(msgs[k]) >= HDR
      BY <2>1, <2>2, <3>1, Where, Starts
    <3>3. MessageOf(Boundary) = k
      BY <2>2, <2>4, <2>5, <3>2, MessageIs
    <3>4. pos # StartOf(k)
      BY <2>2, <2>5, <3>1
    <3> QED BY <2>4, <3>1, <3>2, <3>3, <3>4 DEF CarriesExactly, in_progress
  <2> QED BY <2>1, <2>6, <2>7, <2>8 DEF Reached
<1> QED BY <1>1, WalkInvariance, PTL

\* Each KeyUpdate is acted on once, in order and as soon as it has ended
\* (engine.rs 924-949).
THEOREM UpdatesStayInOrder == Spec => []UpdatesInOrder
<1>1. PInv => UpdatesInOrder
  <2> SUFFICES ASSUME PInv, pc = "idle" PROVE UpdatesInOrder
    BY DEF UpdatesInOrder
  <2>1. PICK k \in 1..(Len(msgs) + 1) : Reached(k)
    BY DEF PInv
  <2>2. msgs \in Seq(Message) /\ pos \in Nat
    BY DEF PInv, Walked
  <2>3. /\ k <= Len(msgs) => pos < StartOf(k) + Size(msgs[k])
        /\ StartOf(k) <= pos
    BY <2>1, Inside
  <2>4. Ended(pos) = k - 1
    BY <2>2, <2>3, BoundaryIs
  <2> QED BY <2>1, <2>4 DEF Reached, UpdatesInOrder
<1> QED BY <1>1, WalkInvariance, PTL

\* Only what must be refused is refused, and nothing of it is accepted
\* (engine.rs 890-1013).
THEOREM RefusalsHaveCause == Spec => []RefusedForCause
<1>1. PInv => RefusedForCause
  <2> SUFFICES ASSUME PInv, pc = "idle", NEW i \in 1..Len(msgs)
               PROVE  /\ pos = end
                      /\ StartOf(i) + HDR <= pos => msgs[i].type \in {"ticket", "key_update"}
                      /\ StartOf(i) + Size(msgs[i]) <= pos => Legal(i)
    BY DEF RefusedForCause, PInv, Walked
  <2>1. PICK k \in 1..(Len(msgs) + 1) : Reached(k)
    BY DEF PInv
  <2>2. Walked /\ msgs \in Seq(Message) /\ pos \in Nat /\ pos = end
    BY DEF PInv, Walked
  <2>3. k <= Len(msgs) => pos < StartOf(k) + Size(msgs[k])
    BY <2>1, Inside
  <2>4. /\ StartOf(i) \in Nat /\ StartOf(k) \in Nat /\ HDR \in Nat \ {0} /\ Len(msgs) \in Nat
        /\ Size(msgs[i]) \in Nat /\ Size(msgs[i]) >= HDR /\ i \in 1..(Len(msgs) + 1)
    BY <2>2, Starts, PostHandshakeAssumption
  <2>5. CASE i < k
    <3>1. i \in 1..(k - 1)
      BY <2>4, <2>5
    <3>2. Legal(i)
      BY <2>1, <3>1 DEF Reached
    <3> QED BY <2>2, <3>2 DEF Legal
  <2>6. CASE i = k
    <3>1. ~(StartOf(i) + Size(msgs[i]) <= pos)
      BY <2>2, <2>3, <2>4, <2>6
    <3>2. StartOf(i) + HDR <= pos => msgs[i].type \in {"ticket", "key_update"}
      <4>1. CASE AtStart(k)
        BY <2>4, <2>6, <4>1 DEF AtStart
      <4>2. CASE InStage(k)
        <5>1. Len(stage) \in Nat
          BY <2>2 DEF Walked
        <5>2. pos = StartOf(k) + Len(stage) /\ (Len(stage) < HDR \/ KeyUpdate(k))
          BY <4>2 DEF InStage
        <5> QED BY <2>4, <2>6, <5>1, <5>2 DEF KeyUpdate
      <4>3. CASE InBody(k)
        BY <2>6, <4>3 DEF InBody
      <4> QED BY <2>1, <4>1, <4>2, <4>3 DEF Reached
    <3> QED BY <2>2, <3>1, <3>2
  <2>7. CASE i > k
    <3>1. k \in 1..Len(msgs) /\ Size(msgs[k]) \in Nat
      BY <2>2, <2>4, <2>7, Starts
    <3>2. StartOf(k) + Size(msgs[k]) <= StartOf(i)
      BY <2>2, <2>4, <2>7, <3>1, Starts
    <3>3. pos < StartOf(i)
      BY <2>2, <2>3, <2>4, <2>7, <3>1, <3>2
    <3> QED BY <2>2, <2>4, <3>3
  <2> QED BY <2>4, <2>5, <2>6, <2>7
<1> QED BY <1>1, WalkInvariance, PTL
====
