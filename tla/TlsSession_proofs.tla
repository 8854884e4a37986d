-------------------------- MODULE TlsSession_proofs --------------------------
(***************************************************************************)
(* Proofs about the session: for every stream of data, every way to cut    *)
(* post-handshake messages, every chunk limit, every size of the final     *)
(* flight, and any number of calls, failed writes and protocol breaches.   *)
(* TlsSessionKeys_proofs has the invariants and those about keys; here are *)
(* the ones about the data, and the theorems.                              *)
(***************************************************************************)
EXTENDS TlsSessionKeys_proofs, FiniteSetTheorems

-----------------------------------------------------------------------------
(* The application's data: the client's.                                   *)

\* What sequences of words need.
LEMMA Associates ==
    /\ \A a, b, c \in Seq(Words) : (a \o b) \o c = a \o (b \o c)
    /\ \A a, b \in Seq(Words) : a \o b \in Seq(Words)
    /\ \A a \in Seq(Words) : a \o <<>> = a /\ <<>> \o a = a
    /\ <<>> \in Seq(Words)
BY ConcatAssociative, ConcatProperties, ConcatEmptySeq

\* The first records of a longer run.
LEMMA PrefixKept ==
    ASSUME NEW w \in Seq(Msg), NEW x \in Seq(Msg), NEW p \in 0..Len(w)
    PROVE  SubSeq(w \o x, 1, p) = SubSeq(w, 1, p)
<1>1. /\ w \o x \in Seq(Msg) /\ Len(w \o x) = Len(w) + Len(x)
      /\ \A i \in 1..(Len(w) + Len(x)) :
           (w \o x)[i] = IF i <= Len(w) THEN w[i] ELSE x[i - Len(w)]
  BY ConcatProperties
<1> DEFINE v == w \o x
<1>2. Len(w) \in Nat /\ Len(x) \in Nat /\ v \in Seq(Msg) /\ p <= Len(v)
      /\ \A i \in 1..p : v[i] = w[i]
  <2>1. PICK m, n \in Nat : m = Len(w) /\ n = Len(x)
    OBVIOUS
  <2>2. p \in Nat /\ p <= m /\ p <= m + n /\ \A i \in 1..p : i \in 1..(m + n) /\ i <= m
    BY <2>1
  <2> QED BY <1>1, <2>1, <2>2
<1> HIDE DEF v
<1> DEFINE s == SubSeq(v, 1, p)
           t == SubSeq(w, 1, p)
<1>3. /\ s \in Seq(Msg) /\ t \in Seq(Msg) /\ Len(s) = p /\ Len(t) = p
      /\ \A i \in 1..p : s[i] = v[i] /\ t[i] = w[i]
  BY <1>2
<1> HIDE DEF s, t
<1>4. s = t
  BY <1>2, <1>3, SeqEqual, SMTT(30)
<1> QED BY <1>4 DEF s, t, v

\* One more record of a run is one more record.
LEMMA PrefixNext ==
    ASSUME NEW w \in Seq(Msg), NEW p \in Nat, p < Len(w)
    PROVE  SubSeq(w, 1, p + 1) = Append(SubSeq(w, 1, p), w[p + 1]) /\ SubSeq(w, 1, p) \in Seq(Msg)
           /\ w[p + 1] \in Msg
<1>1. Len(w) \in Nat /\ w[p + 1] \in Msg
  OBVIOUS
<1> DEFINE s == SubSeq(w, 1, p + 1)
           t == SubSeq(w, 1, p)
<1>3. /\ s \in Seq(Msg) /\ t \in Seq(Msg) /\ Len(s) = p + 1 /\ Len(t) = p
      /\ \A i \in 1..(p + 1) : s[i] = w[i]
      /\ \A i \in 1..p : t[i] = w[i]
  BY <1>1
<1> HIDE DEF s, t
<1> DEFINE u == Append(t, w[p + 1])
<1>4. /\ u \in Seq(Msg) /\ Len(u) = p + 1 /\ \A i \in 1..p : u[i] = t[i]
      /\ u[p + 1] = w[p + 1]
  BY <1>1, <1>3, AppendProperties
<1> HIDE DEF u
<1>5. \A i \in 1..(p + 1) : s[i] = u[i]
  <2>1. \A i \in 1..(p + 1) : i \in 1..p \/ i = p + 1
    OBVIOUS
  <2> QED BY <1>3, <1>4, <2>1
<1>6. s = u
  BY <1>3, <1>4, <1>5, SeqEqual
<1> QED BY <1>1, <1>3, <1>6 DEF s, t, u

\* One more record that is or is not a KeyUpdate.
LEMMA UpdatesAppend ==
    ASSUME NEW w \in Seq(Msg), NEW r \in Msg
    PROVE  /\ Cardinality(KeyUpdates(w)) \in Nat
           /\ r.kind = "ku" => Cardinality(KeyUpdates(Append(w, r))) = Cardinality(KeyUpdates(w)) + 1
           /\ r.kind # "ku" => Cardinality(KeyUpdates(Append(w, r))) = Cardinality(KeyUpdates(w))
<1> DEFINE v == Append(w, r)
           n == Len(w)
<1>1. /\ n \in Nat /\ Len(v) = n + 1 /\ v[n + 1] = r /\ \A i \in 1..n : v[i] = w[i]
  BY AppendProperties, SMTT(30)
<1>2. IsFiniteSet(KeyUpdates(w)) /\ Cardinality(KeyUpdates(w)) \in Nat
  <2>1. IsFiniteSet(1..n) /\ KeyUpdates(w) \in SUBSET (1..n)
    <3>1. 1 \in Int /\ n \in Int
      BY <1>1
    <3>2. IsFiniteSet(1..n)
      BY <3>1, FS_Interval
    <3> QED BY <3>2 DEF KeyUpdates
  <2> QED BY <2>1, FS_Subset, FS_CardinalityType
<1> HIDE DEF v, n
<1>3. \A i : i \in 1..(n + 1) <=> i \in 1..n \/ i = n + 1
  BY <1>1
<1>4. n + 1 \notin 1..n
  BY <1>1
<1>5. KeyUpdates(w) = {i \in 1..n : w[i].kind = "ku"}
  BY DEF KeyUpdates, n
<1>6. KeyUpdates(v) = {i \in 1..(n + 1) : v[i].kind = "ku"}
  BY <1>1 DEF KeyUpdates
<1>7. CASE r.kind = "ku"
  <2>1. KeyUpdates(v) = KeyUpdates(w) \cup {n + 1} /\ n + 1 \notin KeyUpdates(w)
    BY <1>1, <1>3, <1>4, <1>5, <1>6, <1>7
  <2> QED BY <1>2, <1>7, <2>1, FS_AddElement, Zenon DEF v
<1>8. CASE r.kind # "ku"
  <2>1. KeyUpdates(v) = KeyUpdates(w)
    BY <1>1, <1>3, <1>4, <1>5, <1>6, <1>8, SMTT(30)
  <2> QED BY <1>2, <1>8, <2>1 DEF v
<1> QED BY <1>2, <1>7, <1>8

\* A step that neither seals nor sends.
LEMMA UpFrame ==
    ASSUME UpFlow, UNCHANGED <<wire, pend, up, requests, got_up, srv_pos>>,
           (fails' = 0 \/ ~closed') => (fails = 0 \/ ~closed)
    PROVE  UpFlow'
<1>1. Sent' = Sent
  BY DEF Sent
<1> QED BY <1>1, Zenon DEF UpFlow

\* A stream that goes on after the items of some records goes on after the
\* items of the first of them.
LEMMA ItemsCut ==
    ASSUME NEW w \in Seq(Msg), NEW p \in Seq(Msg), NEW q \in Seq(Msg),
           NEW rest \in Seq(Words)
    PROVE  \E x \in Seq(Words) : AppItems(w \o (p \o q)) \o rest = AppItems(w \o p) \o x
<1>1. w \o (p \o q) = (w \o p) \o q
  OBVIOUS
<1>2. PICK v \in Seq(Msg) : v = w \o p
  BY ConcatProperties, Zenon
<1>3. AppItems(v \o q) = AppItems(v) \o AppItems(q)
  BY <1>2, ItemsConcat, Zenon
<1>4. PICK a \in Seq(Words) : a = AppItems(v)
  BY <1>2, ItemsType, Zenon
<1>5. PICK b \in Seq(Words) : b = AppItems(q)
  BY ItemsType
<1>6. AppItems(w \o (p \o q)) \o rest = (a \o b) \o rest
  BY <1>1, <1>2, <1>3, <1>4, <1>5
<1>7. (a \o b) \o rest = a \o (b \o rest) /\ b \o rest \in Seq(Words)
  <2>0. \A x, y, z \in Seq(Words) : (x \o y) \o z = x \o (y \o z)
    BY Associates, Zenon
  <2>1. (a \o b) \o rest = a \o (b \o rest)
    BY <2>0, SMTT(30)
  <2>2. b \o rest \in Seq(Words)
    BY Associates
  <2> QED BY <2>1, <2>2
<1>8. AppItems(w \o (p \o q)) \o rest = AppItems(w \o p) \o (b \o rest)
  BY <1>2, <1>4, <1>6, <1>7
<1> QED BY <1>7, <1>8, Zenon

\* A failed write puts the first of the pending records on the wire.
LEMMA SendsFirst ==
    ASSUME Types, SendFails
    PROVE  \E p \in Seq(Msg) : wire' = wire \o p /\ \E q \in Seq(Msg) : pend = p \o q
<1>0. pend \in Seq(Msg) /\ Len(pend) \in Nat
  BY DEF Types
<1>1. PICK k \in 0..Len(pend) : wire' = wire \o SubSeq(pend, 1, k)
  BY SMTT(30) DEF SendFails
<1> DEFINE p == SubSeq(pend, 1, k)
           q == SubSeq(pend, k + 1, Len(pend))
<1>2. p \in Seq(Msg) /\ q \in Seq(Msg)
  BY <1>0
<1>3. p \o q = SubSeq(pend, 1, Len(pend))
  <2>1. 1 \in 1..(Len(pend) + 1) /\ k \in (1 - 1)..Len(pend) /\ Len(pend) \in k..Len(pend)
    BY <1>0
  <2> QED BY <1>0, <2>1, ConcatAdjacentSubSeq, Zenon
<1>4. SubSeq(pend, 1, Len(pend)) = pend
  BY <1>0
<1>5. wire' = wire \o p /\ pend = p \o q
  BY <1>1, <1>3, <1>4, Zenon
<1> HIDE DEF p, q
<1> QED BY <1>2, <1>5, Zenon

\* Writing keeps the items in order; a failed write may lose the last ones.
LEMMA UpSending ==
    ASSUME Types, SendChain, UpFlow, SendOk \/ SendFails
    PROVE  UpFlow'
<1>0. pend \in Seq(Msg) /\ wire \in Seq(Msg) /\ srv_pos \in 0..Len(wire) /\ fails \in Nat
      /\ up \in Seq(Words) /\ Len(pend) \in Nat
  <2>1. pend \in Seq(Msg) /\ wire \in Seq(Msg) /\ srv_pos \in Nat /\ fails \in Nat /\ up \in Seq(Words)
    BY DEF Types
  <2>2. srv_pos <= Len(wire)
    BY Zenon DEF SendChain
  <2> QED BY <2>1, <2>2
<1>1. PICK rest \in Seq(Words) : up = AppItems(Sent) \o rest
  BY DEF UpFlow
<1>2. CASE SendOk
  <2>1. wire' = wire \o pend /\ pend' = <<>>
        /\ UNCHANGED <<up, requests, got_up, srv_pos, fails, closed>>
    BY <1>2 DEF SendOk, server, history
  <2>2. Sent' = Sent
    <3>1. wire \o pend \in Seq(Msg)
      BY <1>0, ConcatProperties
    <3> QED BY <2>1, <3>1, ConcatEmptySeq DEF Sent
  <2>3. SubSeq(wire', 1, srv_pos) = SubSeq(wire, 1, srv_pos)
    BY <1>0, <2>1, PrefixKept
  <2> QED BY <2>1, <2>2, <2>3, Zenon DEF UpFlow
<1>3. CASE SendFails
  <2>1. PICK p \in Seq(Msg) : wire' = wire \o p /\ \E q \in Seq(Msg) : pend = p \o q
    BY <1>3, SendsFirst, Zenon
  <2>2. /\ fails' = fails + 1 /\ closed' /\ pend' = <<>>
        /\ UNCHANGED <<up, requests, got_up, srv_pos>>
    BY <1>3 DEF SendFails, server
  <2>3. PICK q \in Seq(Msg) : pend = p \o q
    BY <2>1, Zenon
  <2>4. wire' = wire \o p
    BY <2>1
  <2>5. Sent' = wire \o p
    <3>1. wire \o p \in Seq(Msg)
      BY <1>0, <2>3, ConcatProperties
    <3> QED BY <2>2, <2>4, <3>1, ConcatEmptySeq DEF Sent
  <2>13. SubSeq(wire', 1, srv_pos) = SubSeq(wire, 1, srv_pos)
    BY <1>0, <2>3, <2>4, PrefixKept
  <2>14. fails' # 0
    BY <1>0, <2>2, CountedUp
  <2>15. \E x \in Seq(Words) : up' = AppItems(Sent') \o x
    <3>1. up = AppItems(wire \o (p \o q)) \o rest
      BY <1>1, <2>3 DEF Sent
    <3>2. \E x \in Seq(Words) : AppItems(wire \o (p \o q)) \o rest = AppItems(wire \o p) \o x
      <4>1. \A w, a, b \in Seq(Msg) : \A d \in Seq(Words) :
              \E x \in Seq(Words) : AppItems(w \o (a \o b)) \o d = AppItems(w \o a) \o x
        BY ItemsCut, Zenon
      <4>2. wire \in Seq(Msg) /\ p \in Seq(Msg) /\ q \in Seq(Msg) /\ rest \in Seq(Words)
        BY <1>0
      <4> HIDE <1>0, <1>1, <1>3, <2>1, <2>2, <2>3
      <4> QED BY <4>1, <4>2, Zenon
    <3> QED BY <2>2, <2>5, <3>1, <3>2, Zenon
  <2>16. got_up' = AppItems(SubSeq(wire', 1, srv_pos'))
    BY <2>2, <2>13, Zenon DEF UpFlow
  <2> QED BY <2>2, <2>14, <2>15, <2>16, Zenon DEF UpFlow
<1> QED BY <1>2, <1>3

\* The final flight carries no data.
LEMMA UpFinish ==
    ASSUME Types, Types', Lifecycle, UpFlow, NEW n \in FinRecords, FinishFlight(n)
    PROVE  UpFlow'
<1>1. n \in Nat /\ n >= 1
  BY SessionAssumption
<1>2. /\ state = "WaitFlight"
      /\ UNCHANGED <<wire, up, requests, got_up, srv_pos, fails, closed>>
      /\ pend' = [i \in 1..n |-> Rec("fin", 0, i - 1, IF i = n THEN <<"last">> ELSE <<>>)]
  BY DEF FinishFlight, server, history
<1>3. wire = <<>> /\ pend = <<>> /\ pend' \in Seq(Msg) /\ up \in Seq(Words)
  BY <1>2 DEF Lifecycle, Types
<1>4. Sent = <<>> /\ Sent' = pend'
  <2>1. <<>> \in Seq(Msg) /\ pend' \in Seq(Msg)
    BY <1>3
  <2> QED BY <1>2, <1>3, <2>1, ConcatEmptySeq, SMTT(30) DEF Sent
<1>5. Len(pend') = n /\ \A i \in 1..n : pend'[i].kind = "fin"
  <2>1. Len(pend') = n
    BY <1>1, <1>2
  <2> QED BY <1>2, <2>1, Zenon DEF Rec
<1>6. AppItems(Sent') = <<>>
  <2>1. \A i \in 1..Len(pend') : pend'[i].kind # "app"
    BY <1>5
  <2> QED BY <1>3, <1>4, <2>1, ItemsNone
<1>7. KeyUpdates(Sent') = {} /\ KeyUpdates(Sent) = {}
  <2>1. KeyUpdates(pend') = {}
    BY <1>5 DEF KeyUpdates
  <2>2. KeyUpdates(<<>>) = {}
    BY DEF KeyUpdates
  <2> QED BY <1>4, <2>1, <2>2
<1>8. AppItems(Sent) = <<>>
  BY <1>4, ItemsEmpty
<1> QED BY <1>2, <1>6, <1>7, <1>8 DEF UpFlow

\* A record is sealed while the engine is open.
LEMMA UpSeals ==
    ASSUME Types, UpFlow, ~closed, NEW r \in Msg, Sent' = Append(Sent, r),
           UNCHANGED <<wire, got_up, srv_pos>>, up' = up \o ItemsOf(r),
           r.kind = "ku" => requests' = requests + 1,
           r.kind # "ku" => requests' = requests
    PROVE  UpFlow'
<1>1. Sent \in Seq(Msg)
  BY SentParts
<1>2. AppItems(Sent) = up /\ Cardinality(KeyUpdates(Sent)) = requests
  BY DEF UpFlow
<1>3. AppItems(Sent') = up'
  BY <1>1, <1>2, ItemsAppend, Zenon
<1>4. Cardinality(KeyUpdates(Sent')) = requests'
  BY <1>1, <1>2, UpdatesAppend
<1>5. AppItems(Sent') \in Seq(Words)
  <2>1. Append(Sent, r) \in Seq(Msg)
    BY <1>1, AppendProperties
  <2> QED BY <2>1, ItemsType, Zenon
<1>6. \E rest \in Seq(Words) : up' = AppItems(Sent') \o rest
  <2>1. AppItems(Sent') \o <<>> = AppItems(Sent') /\ <<>> \in Seq(Words)
    BY <1>5, Associates
  <2> QED BY <1>3, <2>1, Zenon
<1>7. got_up' = AppItems(SubSeq(wire', 1, srv_pos'))
  BY DEF UpFlow
<1> QED BY <1>3, <1>4, <1>6, <1>7, Zenon DEF UpFlow

\* The server reads the items of one more record.
LEMMA UpReads ==
    ASSUME Types, UpFlow, SrvReads
    PROVE  UpFlow'
<1> DEFINE r == wire[srv_pos + 1]
<1>1. /\ srv_pos \in Nat /\ srv_pos < Len(wire) /\ srv_pos' = srv_pos + 1 /\ wire \in Seq(Msg)
      /\ UNCHANGED <<wire, pend, up, requests, fails, closed>>
  BY DEF SrvReads, Types, engine, pipe
<1>2. got_up' = IF r.kind = "app" THEN got_up \o r.body ELSE got_up
  BY DEF SrvReads
<1>3. /\ SubSeq(wire, 1, srv_pos + 1) = Append(SubSeq(wire, 1, srv_pos), r)
      /\ SubSeq(wire, 1, srv_pos) \in Seq(Msg) /\ r \in Msg
  BY <1>1, PrefixNext
<1> HIDE DEF r
<1>4. got_up \in Seq(Words)
  BY DEF Types
<1>5. got_up' = got_up \o ItemsOf(r)
  BY <1>2, <1>4, Associates DEF ItemsOf
<1>6. got_up' = AppItems(SubSeq(wire', 1, srv_pos'))
  <2>1. AppItems(Append(SubSeq(wire, 1, srv_pos), r)) = AppItems(SubSeq(wire, 1, srv_pos)) \o ItemsOf(r)
    BY <1>3, ItemsAppend, Zenon
  <2>2. got_up = AppItems(SubSeq(wire, 1, srv_pos))
    BY DEF UpFlow
  <2> QED BY <1>1, <1>3, <1>5, <2>1, <2>2, Zenon
<1>7. Sent' = Sent
  BY <1>1 DEF Sent
<1> QED BY <1>1, <1>6, <1>7, Zenon DEF UpFlow

\* Every step keeps the client's data in order.
LEMMA UpFlowNext ==
    ASSUME Types, Types', Lifecycle, SendChain, UpFlow, [Next]_vars
    PROVE  UpFlow'
<1>0. /\ send_gen \in Nat /\ seq_out \in Nat /\ fails \in Nat
      /\ "ku" \in MsgKinds /\ "app" \in MsgKinds /\ "close" \in MsgKinds
  <2>1. send_gen \in Nat /\ seq_out \in Nat /\ fails \in Nat
    BY DEF Types
  <2>2. "ku" \in MsgKinds /\ "app" \in MsgKinds /\ "close" \in MsgKinds
    BY DEF MsgKinds
  <2> QED BY <2>1, <2>2
<1>a. up \in Seq(Words)
  BY DEF Types
<1>b. fails + 1 # 0
  BY <1>0, CountedUp
<1>1. CASE SendOk \/ SendFails
  BY <1>1, UpSending
<1>2. CASE Connect
  <2>1. CASE \E n \in FinRecords : FinishFlight(n)
    BY <2>1, UpFinish
  <2>2. CASE ReadServerHello
    <3>1. UNCHANGED <<wire, pend, up, requests, got_up, srv_pos, fails, closed>>
      BY <2>2, SMTT(30) DEF ReadServerHello, server, history
    <3> QED BY <3>1, UpFrame
  <2>3. CASE SkipCcs \/ FeedFlight
    <3>1. UNCHANGED <<wire, pend, up, requests, got_up, srv_pos, fails, closed>>
      BY <2>3, SMTT(30) DEF SkipCcs, FeedFlight, engine, server, history
    <3> QED BY <3>1, UpFrame
  <2>4. CASE HandshakeDone \/ ConnectFails
    <3>1. UNCHANGED <<wire, pend, up, requests, got_up, srv_pos, fails, closed>>
      BY <2>4 DEF HandshakeDone, ConnectFails, engine, pipe, server, history
    <3> QED BY <3>1, UpFrame
  <2>5. CASE ConnectReadFails
    <3>1. UNCHANGED <<wire, pend, up, requests, got_up, srv_pos, closed>> /\ fails' = fails + 1
      BY <2>5 DEF ConnectReadFails, engine, server, history
    <3> QED BY <1>b, <3>1, UpFrame
  <2> QED BY <1>2, <2>1, <2>2, <2>3, <2>4, <2>5, SMTT(30) DEF Connect
<1>3. CASE Read
  <2>1. CASE DataRefused
    <3>1. Refuse(Head(s2c)) /\ Framing
      BY <2>1, Zenon DEF DataRefused
    <3>2. UNCHANGED <<wire, pend, up, requests, got_up, srv_pos, fails>> /\ ~closed
      BY <3>1, SMTT(30) DEF Refuse, Framing, server, history
    <3> QED BY <3>2, UpFrame
  <2>2. CASE DataApp \/ DataTicket
    <3>1. Consume /\ UNCHANGED <<closed, pend, history>>
      BY <2>2, Zenon DEF DataApp, DataTicket
    <3>2. UNCHANGED <<wire, pend, up, requests, got_up, srv_pos, fails, closed>>
      BY <3>1 DEF Consume, server, history
    <3> QED BY <3>2, UpFrame
  <2>3. CASE DataCloseNotify
    <3>1. Consume /\ UNCHANGED <<pend, up, got_up, requests>> /\ Framing
      BY <2>3, Zenon DEF DataCloseNotify
    <3>2. UNCHANGED <<wire, pend, up, requests, got_up, srv_pos, fails>> /\ ~closed
      BY <3>1 DEF Consume, server, Framing
    <3> QED BY <3>2, UpFrame
  <2>4. CASE DataKeyUpdate
    <3>1. Consume /\ UNCHANGED <<closed, up, got_up>> /\ ~closed /\ pend = <<>>
          /\ call \in {"read", "try_read"}
      BY <2>4, Zenon DEF DataKeyUpdate, Framing, Reading
    <3>2. UNCHANGED <<wire, up, got_up, srv_pos, fails, closed, state, srv_rgen, srv_rseq, desync>>
      BY <3>1 DEF Consume, server
    <3>3. CASE LastOf(Head(s2c).body) = "K2r"
      <4> DEFINE r == Rec("ku", send_gen, seq_out, <<>>)
      <4>1. /\ pend' = <<r>> /\ send_gen' = send_gen + 1 /\ seq_out' = 0
            /\ requests' = requests + 1
        BY <2>4, <3>3, Zenon DEF DataKeyUpdate
      <4>2. r \in Msg /\ r.kind = "ku" /\ r.gen = send_gen /\ r.seq = seq_out
        BY <1>0, BareRecord
      <4> HIDE DEF r
      <4>3. Sent' = Append(Sent, r)
        <5>1. wire \in Seq(Msg) /\ Sent = wire
          BY <3>1, SentParts DEF Types
        <5>2. Sent' = wire \o <<r>>
          BY <3>2, <4>1 DEF Sent
        <5> QED BY <4>2, <5>1, <5>2, AppendIsConcat, SMTT(30)
      <4>4. ItemsOf(r) = <<>>
        BY <4>2 DEF ItemsOf
      <4>5. up' = up \o ItemsOf(r)
        BY <1>a, <3>2, <4>4, Associates
      <4> QED BY <3>1, <3>2, <4>1, <4>2, <4>3, <4>5, UpSeals, SMTT(30)
    <3>4. CASE LastOf(Head(s2c).body) # "K2r"
      <4>1. UNCHANGED <<pend, requests>>
        BY <2>4, <3>4, Zenon DEF DataKeyUpdate
      <4> QED BY <3>2, <4>1, UpFrame, SMTT(30)
    <3> QED BY <3>3, <3>4, SMTT(30)
  <2>5. CASE \E n \in 1..Len(DownData) : ReadApp(n)
    <3>1. UNCHANGED <<wire, pend, up, requests, got_up, srv_pos, fails, closed>>
      BY <2>5, SMTT(30) DEF ReadApp, pipe, server
    <3> QED BY <3>1, UpFrame
  <2>6. CASE ReadZero \/ ReadEof
    <3>1. UNCHANGED <<wire, pend, up, requests, got_up, srv_pos, fails, closed>>
      BY <2>6 DEF ReadZero, ReadEof, engine, pipe, server, history
    <3> QED BY <3>1, UpFrame
  <2>7. CASE ReadNothing
    <3>1. UNCHANGED <<wire, pend, up, requests, got_up, srv_pos, closed>>
          /\ (fails' = fails + 1 \/ fails' = fails)
      BY <2>7 DEF ReadNothing, engine, server, history
    <3> QED BY <1>b, <3>1, UpFrame
  <2> QED BY <1>3, <2>1, <2>2, <2>3, <2>4, <2>5, <2>6, <2>7, SMTT(30) DEF Read
<1>4. CASE WriteChunk
  <2>1. PICK chunk \in Seq(Words) :
          pend' = <<Rec("app", send_gen, seq_out, chunk)>> /\ up' = up \o chunk
    BY <1>4, Chunk
  <2> DEFINE r == Rec("app", send_gen, seq_out, chunk)
  <2>2. r \in Msg /\ r.kind = "app" /\ r.body = chunk
    BY <1>0, <2>1, RecType, SMTT(30)
  <2>3. pend' = <<r>>
    BY <2>1
  <2> HIDE DEF r
  <2>4. /\ ~closed /\ pend = <<>> /\ UNCHANGED <<wire, got_up, srv_pos, requests>>
    BY <1>4 DEF WriteChunk, pipe, server
  <2>5. Sent' = Append(Sent, r)
    <3>1. wire \in Seq(Msg) /\ Sent = wire
      BY <2>4, SentParts DEF Types
    <3>2. Sent' = wire \o <<r>>
      BY <2>3, <2>4 DEF Sent
    <3> QED BY <2>2, <3>1, <3>2, AppendIsConcat, SMTT(30)
  <2>6. up' = up \o ItemsOf(r)
    BY <2>1, <2>2, SMTT(30) DEF ItemsOf
  <2> QED BY <2>2, <2>4, <2>5, <2>6, UpSeals, Zenon
<1>5. CASE WriteEnds \/ CloseEnds
  <2>1. UNCHANGED <<wire, pend, up, requests, got_up, srv_pos, fails, closed>>
    BY <1>5 DEF WriteEnds, CloseEnds, engine, pipe, server, history
  <2> QED BY <2>1, UpFrame
<1>6. CASE CloseNotify
  <2> DEFINE r == Rec("close", send_gen, seq_out, <<>>)
  <2>1. r \in Msg /\ r.kind = "close"
    BY <1>0, BareRecord, SMTT(30)
  <2>2. /\ ~closed /\ pend = <<>> /\ pend' = <<r>>
        /\ UNCHANGED <<wire, got_up, srv_pos, requests, up>>
    BY <1>6 DEF CloseNotify, pipe, server, history
  <2> HIDE DEF r
  <2>3. Sent' = Append(Sent, r)
    <3>1. wire \in Seq(Msg) /\ Sent = wire
      BY <2>2, SentParts DEF Types
    <3>2. Sent' = wire \o <<r>>
      BY <2>2 DEF Sent
    <3> QED BY <2>1, <3>1, <3>2, AppendIsConcat, SMTT(30)
  <2>4. ItemsOf(r) = <<>>
    BY <2>1 DEF ItemsOf
  <2>5. up' = up \o ItemsOf(r)
    BY <1>a, <2>2, <2>4, Associates, SMTT(30)
  <2> QED BY <2>1, <2>2, <2>3, <2>5, UpSeals, SMTT(30)
<1>7. CASE Call \/ DropStream
  <2>1. UNCHANGED <<wire, pend, up, requests, got_up, srv_pos, fails, closed>>
    BY <1>7, Zenon DEF Call, DropStream, Begin, engine, pipe, server, history
  <2> QED BY <2>1, UpFrame
<1>8. CASE Gone \/ SrvEof \/ UNCHANGED vars
  <2>1. UNCHANGED <<wire, pend, up, requests, got_up, srv_pos, fails, closed>>
    BY <1>8 DEF Gone, SrvEof, vars, engine, pipe, server, history
  <2> QED BY <2>1, UpFrame
<1>9. CASE Server
  <2>1. CASE SrvReads
    BY <2>1, UpReads, SMTT(30)
  <2>2. CASE ~SrvReads
    <3>1. \E kind, body : Emit(kind, body)
      BY <1>9, <2>2, Zenon DEF Server, SrvHello, SrvCcs, SrvFlight, SrvFinished, SrvApp,
                        SrvPostHandshake, SrvClose, SrvBad
    <3>2. UNCHANGED <<wire, pend, up, requests, got_up, srv_pos, fails, closed>>
      BY <3>1, SMTT(30) DEF Emit, engine
    <3> QED BY <3>2, UpFrame
  <2> QED BY <2>1, <2>2
<1> QED BY <1>1, <1>2, <1>3, <1>4, <1>5, <1>6, <1>7, <1>8, <1>9, SMTT(30) DEF Next, Client

-----------------------------------------------------------------------------
(* The application's data: the server's.                                   *)

\* A step that moves no data towards the client.
LEMMA DownFrame ==
    ASSUME DownFlow, UNCHANGED <<s2c, down, got_down, parked, srv, peer_closed>>,
           closed => closed', ended' => ended \/ peer_closed
    PROVE  DownFlow'
BY Zenon DEF DownFlow

\* The items of the next record and of the rest.
LEMMA ItemsHead ==
    ASSUME NEW w \in Seq(Msg), w # <<>>
    PROVE  /\ Head(w) \in Msg /\ Tail(w) \in Seq(Msg)
           /\ AppItems(w) = ItemsOf(Head(w)) \o AppItems(Tail(w))
<1>1. Head(w) \in Msg /\ Tail(w) \in Seq(Msg) /\ w = <<Head(w)>> \o Tail(w)
  BY HeadTailProperties
<1>2. PICK r \in Msg : r = Head(w)
  BY <1>1
<1>3. PICK v \in Seq(Msg) : v = Tail(w)
  BY <1>1, Zenon
<1>4. <<r>> \in Seq(Msg) /\ w = <<r>> \o v
  BY <1>1, <1>2, <1>3
<1>5. \A a, b \in Seq(Msg) : AppItems(a \o b) = AppItems(a) \o AppItems(b)
  BY ItemsConcat, SMTT(30)
<1>6. AppItems(w) = AppItems(<<r>>) \o AppItems(v)
  BY <1>4, <1>5, Zenon
<1>7. AppItems(<<r>>) = ItemsOf(r)
  BY ItemsOne
<1> QED BY <1>1, <1>2, <1>3, <1>6, <1>7, Zenon

\* Records that follow the first are no closer to the end.
LEMMA CloseTail ==
    ASSUME NEW w \in Seq(Msg), NEW e, w # <<>>,
           \A i \in 1..Len(w) : w[i].kind = "close" => i = Len(w) /\ e
    PROVE  /\ \A i \in 1..Len(Tail(w)) : Tail(w)[i].kind = "close" => i = Len(Tail(w)) /\ e
           /\ Head(w).kind = "close" => Tail(w) = <<>> /\ e
<1> DEFINE v == Tail(w)
<1>1. /\ Len(w) \in Nat /\ Len(w) >= 1 /\ Head(w) = w[1] /\ Len(v) = Len(w) - 1 /\ v \in Seq(Msg)
      /\ \A i \in 1..Len(v) : v[i] = w[i + 1]
  BY HeadTailProperties
<1> HIDE DEF v
<1>2. \A i \in 1..Len(v) : i + 1 \in 1..Len(w) /\ (i + 1 = Len(w) => i = Len(v))
  BY <1>1
<1>3. \A i \in 1..Len(v) : v[i].kind = "close" => i = Len(v) /\ e
  BY <1>1, <1>2, SMTT(30)
<1>4. ASSUME Head(w).kind = "close" PROVE v = <<>> /\ e
  <2>1. 1 \in 1..Len(w)
    BY <1>1
  <2>2. 1 = Len(w) /\ e
    BY <1>1, <1>4, <2>1, SMTT(30)
  <2>3. Len(v) = 0
    BY <1>1, <2>2, SMTT(30)
  <2> QED BY <1>1, <2>2, <2>3, EmptySeq, SMTT(30)
<1> QED BY <1>3, <1>4 DEF v

\* connect and read take a record without data.
LEMMA DownSkips ==
    ASSUME Types, DownFlow, ~closed, s2c # <<>>, s2c' = Tail(s2c), Head(s2c).kind # "app",
           UNCHANGED <<down, got_down, parked, srv, ended>>,
           \/ UNCHANGED peer_closed
           \/ Head(s2c).kind = "close" /\ closed'
    PROVE  DownFlow'
<1>1. s2c \in Seq(Msg) /\ got_down \in Seq(Words) /\ parked \in Seq(Words)
  BY DEF Types
<1>2. down = (got_down \o parked) \o AppItems(s2c)
      /\ \A i \in 1..Len(s2c) : s2c[i].kind = "close" => i = Len(s2c) /\ srv = "closed"
  BY DEF DownFlow
<1>3. AppItems(s2c) = AppItems(Tail(s2c))
  <2>1. AppItems(s2c) = ItemsOf(Head(s2c)) \o AppItems(Tail(s2c)) /\ Tail(s2c) \in Seq(Msg)
    BY <1>1, ItemsHead
  <2>2. ItemsOf(Head(s2c)) = <<>>
    BY DEF ItemsOf
  <2>3. AppItems(Tail(s2c)) \in Seq(Words)
    BY <2>1, ItemsType, Zenon
  <2> QED BY <2>1, <2>2, <2>3, Associates, SMTT(30)
<1>4. down' = (got_down' \o parked') \o AppItems(s2c')
  BY <1>2, <1>3
<1>5. /\ \A i \in 1..Len(s2c') : s2c'[i].kind = "close" => i = Len(s2c') /\ srv' = "closed"
      /\ Head(s2c).kind = "close" => s2c' = <<>> /\ srv' = "closed"
  BY <1>1, <1>2, CloseTail
<1>6. ~peer_closed /\ (ended' => peer_closed)
  BY DEF DownFlow
<1>7. \E rest \in Seq(Words) : down' = (got_down' \o parked') \o rest
  BY Zenon DEF DownFlow
<1>8. peer_closed' => closed' /\ srv' = "closed" /\ s2c' = <<>>
  BY <1>5, <1>6, Zenon
<1>9. ~ended'
  BY <1>6, SMTT(30)
<1> QED BY <1>4, <1>5, <1>7, <1>8, <1>9, Zenon DEF DownFlow

\* read parks the data of a record.
LEMMA DownParks ==
    ASSUME Types, DownFlow, DataApp
    PROVE  DownFlow'
<1>0. s2c \in Seq(Msg) /\ got_down \in Seq(Words)
  BY DEF Types
<1>1. /\ ~closed /\ parked = <<>> /\ s2c # <<>> /\ s2c' = Tail(s2c)
      /\ Head(s2c).kind = "app" /\ parked' = Head(s2c).body
  BY Zenon DEF DataApp, Framing, Consume
<1>2. UNCHANGED <<closed, down, got_down, srv, ended, peer_closed>>
  BY Zenon DEF DataApp, Consume, server, history
<1>3. down = (got_down \o parked) \o AppItems(s2c)
      /\ \A i \in 1..Len(s2c) : s2c[i].kind = "close" => i = Len(s2c) /\ srv = "closed"
  BY <1>1, SMTT(30) DEF DownFlow
<1>4. PICK v \in Seq(Msg) : v = Tail(s2c) /\ AppItems(s2c) = ItemsOf(Head(s2c)) \o AppItems(v)
  BY <1>0, <1>1, ItemsHead, Zenon
<1>5. PICK b \in Seq(Words) : b = parked' /\ ItemsOf(Head(s2c)) = b
  <2>1. Head(s2c) \in Msg
    BY <1>0, <1>1, ItemsHead
  <2>2. ItemsOf(Head(s2c)) \in Seq(Words)
    BY <2>1, ItemsSeq
  <2>3. ItemsOf(Head(s2c)) = parked'
    BY <1>1 DEF ItemsOf
  <2> QED BY <2>2, <2>3
<1>6. PICK c \in Seq(Words) : c = AppItems(v)
  BY <1>4, ItemsType, Zenon
<1>7. down = got_down \o (b \o c)
  <2>1. got_down \o <<>> = got_down
    BY <1>0, Associates
  <2> QED BY <1>1, <1>3, <1>4, <1>5, <1>6, <2>1, Zenon
<1>8. down = (got_down \o b) \o c
  <2>1. \A i, j, k \in Seq(Words) : (i \o j) \o k = i \o (j \o k)
    BY Associates, SMTT(30)
  <2>2. (got_down \o b) \o c = got_down \o (b \o c)
    BY <1>0, <2>1
  <2> QED BY <1>7, <2>2
<1>9. down' = (got_down' \o parked') \o AppItems(s2c') /\ AppItems(s2c') \in Seq(Words)
  BY <1>1, <1>2, <1>4, <1>5, <1>6, <1>8
<1>10. \A i \in 1..Len(s2c') : s2c'[i].kind = "close" => i = Len(s2c') /\ srv' = "closed"
  BY <1>0, <1>1, <1>2, <1>3, CloseTail, SMTT(30)
<1>11. ~peer_closed' /\ (ended' => peer_closed')
  BY <1>1, <1>2 DEF DownFlow
<1>12. \E rest \in Seq(Words) : down' = (got_down' \o parked') \o rest
  BY <1>9, SMTT(30)
<1> QED BY <1>9, <1>10, <1>11, <1>12, Zenon DEF DownFlow

\* read hands parked data over.
LEMMA DownReads ==
    ASSUME Types, DownFlow, NEW n \in 1..Len(DownData), ReadApp(n)
    PROVE  DownFlow' /\ got_down' \o parked' = got_down \o parked
<1>1. /\ got_down' = got_down \o SubSeq(parked, 1, n)
      /\ parked' = SubSeq(parked, n + 1, Len(parked)) /\ n <= Len(parked)
      /\ UNCHANGED <<closed, s2c, down, srv, ended, peer_closed>>
  BY DEF ReadApp, pipe, server
<1>2. parked \in Seq(Words) /\ got_down \in Seq(Words) /\ Len(parked) \in Nat /\ n \in 0..Len(parked)
  <2>1. parked \in Seq(Words) /\ got_down \in Seq(Words)
    BY DEF Types
  <2>2. Len(parked) \in Nat
    BY <2>1
  <2>3. Len(DownData) \in Nat
    BY BodyTypes
  <2> QED BY <1>1, <2>1, <2>2, <2>3
<1> DEFINE p == SubSeq(parked, 1, n)
           q == SubSeq(parked, n + 1, Len(parked))
<1>3. p \in Seq(Words) /\ q \in Seq(Words)
  BY <1>2, SMTT(30)
<1>4. p \o q = parked
  <2>1. 1 \in 1..(Len(parked) + 1) /\ n \in (1 - 1)..Len(parked) /\ Len(parked) \in n..Len(parked)
    BY <1>2
  <2>2. p \o q = SubSeq(parked, 1, Len(parked))
    BY <1>2, <2>1, ConcatAdjacentSubSeq
  <2>3. SubSeq(parked, 1, Len(parked)) = parked
    BY <1>2
  <2> QED BY <2>2, <2>3, Zenon
<1>5. got_down' = got_down \o p /\ parked' = q
  BY <1>1
<1> HIDE DEF p, q
<1>6. (got_down \o p) \o q = got_down \o parked
  <2>1. \A i, j, k \in Seq(Words) : (i \o j) \o k = i \o (j \o k)
    BY Associates
  <2>2. (got_down \o p) \o q = got_down \o (p \o q)
    BY <1>2, <1>3, <2>1, Zenon
  <2> QED BY <1>4, <2>2
<1>7. got_down' \o parked' = got_down \o parked
  BY <1>5, <1>6
<1> QED BY <1>1, <1>7, Zenon DEF DownFlow

\* The server seals a record, with what it writes.
LEMMA DownWrites ==
    ASSUME Types, DownFlow, srv # "closed", NEW r \in Msg, s2c' = Append(s2c, r),
           down' = down \o ItemsOf(r),
           UNCHANGED <<closed, got_down, parked, peer_closed, ended>>,
           r.kind = "close" => srv' = "closed"
    PROVE  DownFlow'
<1>1. s2c \in Seq(Msg) /\ got_down \in Seq(Words) /\ parked \in Seq(Words)
  BY DEF Types
<1>2. ~peer_closed /\ ~ended
  BY DEF DownFlow
<1>3. \A i \in 1..Len(s2c) : s2c[i].kind # "close"
  BY DEF DownFlow
<1>4. PICK g \in Seq(Words) : g = got_down \o parked
  BY <1>1, Associates, Zenon
<1>5. PICK b \in Seq(Words) : b = ItemsOf(r)
  BY ItemsSeq
<1>6. PICK a \in Seq(Words) : a = AppItems(s2c)
  BY <1>1, ItemsType
<1>7. AppItems(s2c') = a \o b
  <2>1. AppItems(Append(s2c, r)) = AppItems(s2c) \o ItemsOf(r)
    BY <1>1, ItemsAppend
  <2> QED BY <1>5, <1>6, <2>1
<1>8. \A x, y, z \in Seq(Words) : (x \o y) \o z = x \o (y \o z)
  BY Associates, Zenon
<1>9. \E rest \in Seq(Words) : down' = (got_down' \o parked') \o rest
  <2>1. PICK rest \in Seq(Words) : down = g \o rest
    BY <1>4, Zenon DEF DownFlow
  <2>2. (g \o rest) \o b = g \o (rest \o b)
    BY <1>8, Zenon
  <2>3. rest \o b \in Seq(Words)
    BY Associates
  <2> QED BY <1>4, <1>5, <2>1, <2>2, <2>3, Zenon
<1>10. ~closed => down' = (got_down' \o parked') \o AppItems(s2c')
  <2>1. (g \o a) \o b = g \o (a \o b)
    BY <1>8, SMTT(30)
  <2>2. ~closed => down = g \o a
    BY <1>4, <1>6, SMTT(30) DEF DownFlow
  <2> QED BY <1>4, <1>5, <1>7, <2>1, <2>2, Zenon
<1>11. \A i \in 1..Len(s2c') : s2c'[i].kind = "close" => i = Len(s2c') /\ srv' = "closed"
  <2>1. /\ Len(s2c') = Len(s2c) + 1 /\ s2c'[Len(s2c) + 1] = r
        /\ \A i \in 1..Len(s2c) : s2c'[i] = s2c[i]
    BY <1>1, AppendProperties, SMTT(30)
  <2>2. Len(s2c) \in Nat
    BY <1>1
  <2>3. \A i \in 1..(Len(s2c) + 1) : i \in 1..Len(s2c) \/ i = Len(s2c) + 1
    BY <2>2
  <2> QED BY <1>3, <2>1, <2>3
<1> QED BY <1>2, <1>9, <1>10, <1>11, Zenon DEF DownFlow

\* The server seals a record without data.
LEMMA DownEmits ==
    ASSUME Types, DownFlow, NEW kind \in MsgKinds, kind # "app", NEW body \in Seq(Words),
           Emit(kind, body), UNCHANGED down, srv # "closed", kind = "close" => srv' = "closed"
    PROVE  DownFlow'
<1> DEFINE r == Rec(kind, srv_gen, srv_seq, body)
<1>1. /\ r \in Msg /\ s2c' = Append(s2c, r)
      /\ UNCHANGED <<closed, got_down, parked, peer_closed, ended>>
  BY Emitted
<1>2. r.kind = kind
  BY DEF Rec
<1> HIDE DEF r
<1>3. ItemsOf(r) = <<>>
  BY <1>2 DEF ItemsOf
<1>4. down' = down \o ItemsOf(r)
  <2>1. down \in Seq(Words)
    BY DEF Types
  <2> QED BY <1>3, <2>1, Associates, SMTT(30)
<1> QED BY <1>1, <1>2, <1>4, DownWrites, SMTT(30)

\* The server's steps and its data.
LEMMA DownServer ==
    ASSUME Types, DownFlow, Server
    PROVE  DownFlow'
<1>0. /\ "sh" \in MsgKinds /\ "ccs" \in MsgKinds /\ "flight" \in MsgKinds /\ "fin" \in MsgKinds
      /\ "app" \in MsgKinds /\ "hs" \in MsgKinds /\ "close" \in MsgKinds
      /\ "alert" \in MsgKinds /\ "damaged" \in MsgKinds
  BY DEF MsgKinds
<1>1. CASE SrvReads
  <2>1. UNCHANGED <<s2c, down, got_down, parked, srv, peer_closed, closed, ended>>
    BY <1>1 DEF SrvReads, engine, pipe
  <2> QED BY <2>1, DownFrame, SMTT(30)
<1>2. CASE SrvApp
  <2>1. PICK body \in Seq(Words) : down' = down \o body /\ Emit("app", body)
    BY <1>2, AppBody, Zenon
  <2> DEFINE r == Rec("app", srv_gen, srv_seq, body)
  <2>2. /\ r \in Msg /\ s2c' = Append(s2c, r)
        /\ UNCHANGED <<closed, got_down, parked, peer_closed, ended>>
    BY <1>0, <2>1, Emitted
  <2>3. r.kind = "app" /\ r.body = body
    BY DEF Rec
  <2> HIDE DEF r
  <2>4. ItemsOf(r) = body
    BY <2>3 DEF ItemsOf
  <2>5. srv # "closed"
    BY <1>2, Zenon DEF SrvApp
  <2> QED BY <2>1, <2>2, <2>3, <2>4, <2>5, DownWrites, Zenon
<1>a. <<>> \in Seq(Words)
  BY BodyTypes
<1>3. CASE SrvHello
  <2>1. Emit("sh", <<>>) /\ UNCHANGED down /\ srv # "closed"
    BY <1>3 DEF SrvHello
  <2> QED BY <1>0, <1>a, <2>1, DownEmits, Zenon
<1>4. CASE SrvCcs
  <2>1. Emit("ccs", <<>>) /\ UNCHANGED down /\ srv # "closed"
    BY <1>4 DEF SrvCcs
  <2> QED BY <1>0, <1>a, <2>1, DownEmits, Zenon
<1>5. CASE SrvFlight
  <2>1. Emit("flight", <<>>) /\ UNCHANGED down /\ srv # "closed"
    BY <1>5 DEF SrvFlight
  <2> QED BY <1>0, <1>a, <2>1, DownEmits, Zenon
<1>6. CASE SrvFinished
  <2>1. PICK body \in Seq(Words) : Emit("fin", body)
    <3>1. \/ Emit("fin", <<"good">>)
          \/ Emit("fin", <<"forged">>)
      BY <1>6 DEF SrvFinished
    <3> QED BY <3>1, BodyTypes, Zenon
  <2>2. UNCHANGED down /\ srv # "closed"
    BY <1>6 DEF SrvFinished
  <2> QED BY <1>0, <2>1, <2>2, DownEmits
<1>7. CASE \E body \in HsBodies : SrvPostHandshake(body)
  <2>1. PICK body \in HsBodies : SrvPostHandshake(body)
    BY <1>7, SMTT(30)
  <2>2. Emit("hs", body) /\ UNCHANGED down /\ srv # "closed"
    BY <2>1 DEF SrvPostHandshake
  <2>3. body \in Seq(Words)
    BY BodyTypes
  <2> QED BY <1>0, <2>2, <2>3, DownEmits
<1>8. CASE SrvClose
  <2>1. Emit("close", <<>>) /\ UNCHANGED down /\ srv # "closed" /\ srv' = "closed"
    BY <1>8, Zenon DEF SrvClose
  <2> QED BY <1>0, <1>a, <2>1, DownEmits, Zenon
<1>9. CASE SrvBad
  <2>1. PICK kind \in {"alert", "ccs", "damaged"} : Emit(kind, <<>>)
    BY <1>9 DEF SrvBad
  <2>2. UNCHANGED down /\ srv # "closed"
    BY <1>9 DEF SrvBad
  <2>3. kind \in MsgKinds /\ kind # "app" /\ kind # "close"
    BY <1>0
  <2> QED BY <1>a, <2>1, <2>2, <2>3, DownEmits, Zenon
<1> QED BY <1>1, <1>2, <1>3, <1>4, <1>5, <1>6, <1>7, <1>8, <1>9, SMTT(30) DEF Server

\* Every step keeps the server's data in order.
LEMMA DownFlowNext ==
    ASSUME Types, Lifecycle, DownFlow, [Next]_vars
    PROVE  DownFlow'
<1>0. CASE SendOk
  <2>1. UNCHANGED <<s2c, down, got_down, parked, srv, peer_closed, ended, closed>>
    BY <1>0 DEF SendOk, server, history
  <2> QED BY <2>1, DownFrame, SMTT(30)
<1>1. CASE SendFails
  <2>1. UNCHANGED <<s2c, down, got_down, parked, srv, peer_closed, ended>> /\ closed'
    BY <1>1 DEF SendFails, server
  <2> QED BY <2>1, DownFrame, SMTT(30)
<1>2. CASE Connect
  <2>1. CASE ReadServerHello
    <3>1. /\ ~closed /\ s2c # <<>> /\ s2c' = Tail(s2c) /\ Head(s2c).kind # "app"
          /\ UNCHANGED <<down, got_down, parked, srv, ended, peer_closed>>
      BY <2>1, SMTT(30) DEF ReadServerHello, HsFraming, server, history
    <3> QED BY <3>1, DownSkips, SMTT(30)
  <2>2. CASE SkipCcs
    <3>1. /\ ~closed /\ s2c # <<>> /\ s2c' = Tail(s2c) /\ Head(s2c).kind # "app"
          /\ UNCHANGED <<down, got_down, parked, srv, ended, peer_closed>>
      BY <2>2, SMTT(30) DEF SkipCcs, HsFraming, engine, server, history
    <3> QED BY <3>1, DownSkips
  <2>3. CASE FeedFlight
    <3>1. /\ ~closed /\ s2c # <<>> /\ s2c' = Tail(s2c) /\ Head(s2c).kind # "app"
          /\ UNCHANGED <<down, got_down, parked, srv, ended, peer_closed>>
      BY <2>3, SMTT(30) DEF FeedFlight, HsFraming, engine, server, history
    <3> QED BY <3>1, DownSkips
  <2>4. CASE \E n \in FinRecords : FinishFlight(n)
    <3>1. /\ ~closed /\ s2c # <<>> /\ s2c' = Tail(s2c) /\ Head(s2c).kind # "app"
          /\ UNCHANGED <<down, got_down, parked, srv, ended, peer_closed>>
      BY <2>4, SMTT(30) DEF FinishFlight, HsFraming, server, history
    <3> QED BY <3>1, DownSkips
  <2>5. CASE HandshakeDone \/ ConnectFails \/ ConnectReadFails
    <3>1. UNCHANGED <<s2c, down, got_down, parked, srv, peer_closed, ended, closed>>
      BY <2>5 DEF HandshakeDone, ConnectFails, ConnectReadFails, engine, pipe, server, history
    <3> QED BY <3>1, DownFrame
  <2> QED BY <1>2, <2>1, <2>2, <2>3, <2>4, <2>5, SMTT(30) DEF Connect
<1>3. CASE Read
  <2>1. CASE DataRefused
    <3>1. /\ Refuse(Head(s2c)) /\ ~closed /\ s2c # <<>>
      BY <2>1, Zenon DEF DataRefused, Framing
    <3>2. /\ closed' /\ (s2c' = Tail(s2c) \/ s2c' = s2c)
          /\ UNCHANGED <<down, got_down, parked, srv, peer_closed, ended>>
      BY <3>1, SMTT(30) DEF Refuse, server, history
    <3>3. ~peer_closed /\ ~ended
      BY <3>1, SMTT(30) DEF DownFlow
    <3>4. \A i \in 1..Len(s2c') : s2c'[i].kind = "close" => i = Len(s2c') /\ srv' = "closed"
      <4>1. \A i \in 1..Len(s2c) : s2c[i].kind = "close" => i = Len(s2c) /\ srv = "closed"
        BY DEF DownFlow
      <4>2. s2c \in Seq(Msg)
        BY DEF Types
      <4>3. CASE s2c' = Tail(s2c)
        BY <3>1, <3>2, <4>1, <4>2, <4>3, CloseTail, SMTT(30)
      <4>4. CASE s2c' = s2c
        BY <3>2, <4>1, <4>4, SMTT(30)
      <4> QED BY <3>2, <4>3, <4>4, SMTT(30)
    <3>5. \E rest \in Seq(Words) : down' = (got_down' \o parked') \o rest
      BY <3>2, SMTT(30) DEF DownFlow
    <3> QED BY <3>2, <3>3, <3>4, <3>5, Zenon DEF DownFlow
  <2>2. CASE DataApp
    BY <2>2, DownParks
  <2>3. CASE DataCloseNotify
    <3>1. /\ ~closed /\ s2c # <<>> /\ Head(s2c).kind = "close" /\ closed'
          /\ UNCHANGED <<down, got_down, parked, ended>> /\ Consume
      BY <2>3, Zenon DEF DataCloseNotify, Framing
    <3>2. s2c' = Tail(s2c) /\ UNCHANGED srv
      BY <3>1 DEF Consume, server
    <3> QED BY <3>1, <3>2, DownSkips, SMTT(30)
  <2>4. CASE DataTicket
    <3>1. /\ ~closed /\ s2c # <<>> /\ Head(s2c).kind = "hs"
          /\ UNCHANGED <<parked, history>> /\ Consume
      BY <2>4, SMTT(30) DEF DataTicket, Framing
    <3>2. s2c' = Tail(s2c) /\ UNCHANGED <<srv, down, got_down, ended, peer_closed>>
      BY <3>1 DEF Consume, server, history
    <3> QED BY <3>1, <3>2, DownSkips, SMTT(30)
  <2>5. CASE DataKeyUpdate
    <3>1. /\ ~closed /\ s2c # <<>> /\ Head(s2c).kind = "hs"
          /\ UNCHANGED <<parked, down, got_down, ended, peer_closed>> /\ Consume
      BY <2>5, Zenon DEF DataKeyUpdate, Framing
    <3>2. s2c' = Tail(s2c) /\ UNCHANGED srv
      BY <3>1 DEF Consume, server
    <3> QED BY <3>1, <3>2, DownSkips, SMTT(30)
  <2>6. CASE \E n \in 1..Len(DownData) : ReadApp(n)
    BY <2>6, DownReads
  <2>7. CASE ReadZero
    <3>1. UNCHANGED <<s2c, down, got_down, parked, srv, peer_closed, closed>>
          /\ ended' = (ended \/ peer_closed)
      BY <2>7 DEF ReadZero, engine, pipe, server
    <3> QED BY <3>1, DownFrame, Zenon
  <2>8. CASE ReadEof \/ ReadNothing
    <3>1. UNCHANGED <<s2c, down, got_down, parked, srv, peer_closed, ended, closed>>
      BY <2>8, SMTT(30) DEF ReadEof, ReadNothing, engine, pipe, server, history
    <3> QED BY <3>1, DownFrame
  <2> QED BY <1>3, <2>1, <2>2, <2>3, <2>4, <2>5, <2>6, <2>7, <2>8, SMTT(30) DEF Read
<1>4. CASE WriteChunk
  <2>1. UNCHANGED <<s2c, down, got_down, parked, srv, peer_closed, ended, closed>>
    BY <1>4, SMTT(30) DEF WriteChunk, pipe, server
  <2> QED BY <2>1, DownFrame
<1>5. CASE WriteEnds \/ CloseEnds
  <2>1. UNCHANGED <<s2c, down, got_down, parked, srv, peer_closed, ended, closed>>
    BY <1>5, SMTT(30) DEF WriteEnds, CloseEnds, engine, pipe, server, history
  <2> QED BY <2>1, DownFrame
<1>6. CASE CloseNotify
  <2>1. UNCHANGED <<s2c, down, got_down, parked, srv, peer_closed, ended>> /\ closed'
    BY <1>6, SMTT(30) DEF CloseNotify, pipe, server, history
  <2> QED BY <2>1, DownFrame
<1>7. CASE Call \/ DropStream
  <2>1. UNCHANGED <<s2c, down, got_down, parked, srv, peer_closed, ended, closed>>
    BY <1>7, Zenon DEF Call, DropStream, Begin, engine, pipe, server, history
  <2> QED BY <2>1, DownFrame
<1>8. CASE Gone \/ SrvEof \/ UNCHANGED vars
  <2>1. UNCHANGED <<s2c, down, got_down, parked, srv, peer_closed, ended, closed>>
    BY <1>8, SMTT(30) DEF Gone, SrvEof, vars, engine, pipe, server, history
  <2> QED BY <2>1, DownFrame
<1>9. CASE Server
  BY <1>9, DownServer
<1> QED BY <1>0, <1>1, <1>2, <1>3, <1>4, <1>5, <1>6, <1>7, <1>8, <1>9, SMTT(30) DEF Next, Client

-----------------------------------------------------------------------------
(* The theorems.                                                           *)

\* Where nothing has been sent.
LEMMA NothingYet ==
    /\ <<>> \o <<>> = <<>> /\ (<<>> \o <<>>) \o <<>> = <<>> /\ SubSeq(<<>>, 1, 0) = <<>>
    /\ \A k : Chained(k, <<>>) /\ Expected(k, <<>>) = k
    /\ KeyUpdates(<<>>) = {} /\ Cardinality({}) = 0 /\ AppItems(<<>>) = <<>>
    /\ <<>> \in Seq(Words) /\ <<>> \in Seq(Msg) /\ Len(<<>>) = 0
<1>1. <<>> \o <<>> = <<>> /\ (<<>> \o <<>>) \o <<>> = <<>> /\ SubSeq(<<>>, 1, 0) = <<>>
      /\ Len(<<>>) = 0 /\ <<>> \in Seq(Msg)
  OBVIOUS
<1>2. \A k : Chained(k, <<>>) /\ Expected(k, <<>>) = k
  BY DEF Chained, Expected
<1>3. KeyUpdates(<<>>) = {}
  BY DEF KeyUpdates
<1> QED BY <1>1, <1>2, <1>3, FS_EmptySet, ItemsEmpty, BodyTypes, SMTT(30)

\* A fresh session.
LEMMA InitSInv ==
    ASSUME Init
    PROVE  SInv
<1>1. Types
  <2>1. /\ pend \in Seq(Msg) /\ wire \in Seq(Msg) /\ s2c \in Seq(Msg)
        /\ parked \in Seq(Words) /\ todo \in Seq(Words)
        /\ down \in Seq(Words) /\ got_down \in Seq(Words)
        /\ up \in Seq(Words) /\ got_up \in Seq(Words)
    BY NothingYet, Zenon DEF Init
  <2>2. /\ send_gen \in Nat /\ seq_out \in Nat /\ recv_gen \in Nat /\ seq_in \in Nat
        /\ srv_gen \in Nat /\ srv_seq \in Nat /\ srv_rgen \in Nat /\ srv_rseq \in Nat
        /\ srv_pos \in Nat /\ fails \in Nat /\ bad \in Nat /\ requests \in Nat
    BY Zenon DEF Init
  <2>3. state \in {"WaitServerHello", "WaitFlight", "App", "Closed"} /\ ended \in BOOLEAN
    BY Zenon DEF Init
  <2> QED BY <2>1, <2>2, <2>3, SMTT(30) DEF Types
<1>2. Lifecycle
  BY Zenon DEF Lifecycle, Init
<1>3. Sent = <<>>
  BY NothingYet, Zenon DEF Sent, Init
<1>4. SendChain
  <2>1. /\ state = "WaitServerHello" /\ send_gen = 0 /\ seq_out = 0 /\ srv_pos = 0 /\ wire = <<>>
        /\ srv_rgen = 0 /\ srv_rseq = 0 /\ ~desync
    BY Zenon DEF Init
  <2>2. ServerExpects = FirstKey
    BY <2>1, SMTT(30) DEF ServerExpects
  <2>3. FirstKey.gen = 0 /\ FirstKey.seq = 0
    BY DEF FirstKey, Key
  <2>4. FirstKey = Key(send_gen, seq_out, "hello", "")
    BY <2>1, SMTT(30) DEF FirstKey
  <2>5. \A i \in 1..Len(Sent) : ClientRecord(Sent[i])
    BY <1>3, NothingYet, SMTT(30)
  <2>6. srv_pos <= Len(wire)
    BY <2>1, NothingYet, SMTT(30)
  <2> QED BY <1>3, <2>1, <2>2, <2>3, <2>4, <2>5, <2>6, NothingYet, Zenon DEF SendChain
<1>5. RecvChain
  <2>1. /\ state = "WaitServerHello" /\ recv_gen = 0 /\ seq_in = 0 /\ ph = "" /\ s2c = <<>>
        /\ srv = "start" /\ srv_stage = "" /\ srv_gen = 0 /\ srv_seq = 0 /\ result = ""
    BY Zenon DEF Init
  <2>2. ClientExpects = Key(srv_gen, srv_seq, srv, srv_stage)
    BY <2>1, Zenon DEF ClientExpects, ClientPhase
  <2>3. \A i \in 1..Len(s2c) : ServerRecord(s2c[i])
    <3>1. Len(s2c) = 0
      BY <2>1, NothingYet, Zenon
    <3> QED BY <3>1
  <2> QED BY <2>1, <2>2, <2>3, NothingYet, Zenon DEF RecvChain
<1>6. UpFlow
  <2>1. up = <<>> /\ got_up = <<>> /\ wire = <<>> /\ srv_pos = 0 /\ requests = 0
    BY Zenon DEF Init
  <2> QED BY <1>3, <2>1, NothingYet, Zenon DEF UpFlow
<1>7. DownFlow
  <2>1. /\ down = <<>> /\ got_down = <<>> /\ parked = <<>> /\ s2c = <<>> /\ ~peer_closed /\ ~ended
    BY Zenon DEF Init
  <2>2. \A i \in 1..Len(s2c) : s2c[i].kind = "close" => i = Len(s2c) /\ srv = "closed"
    BY <2>1, NothingYet
  <2> QED BY <2>1, <2>2, NothingYet, Zenon DEF DownFlow
<1> QED BY <1>1, <1>2, <1>4, <1>5, <1>6, <1>7, SMTT(30) DEF SInv

\* The session's invariant holds in every reachable state.
THEOREM SessionInvariance == Spec => []SInv
<1>1. Init => SInv
  BY InitSInv
<1>2. SInv /\ [Next]_vars => SInv'
  <2> SUFFICES ASSUME Types, Lifecycle, SendChain, RecvChain, UpFlow, DownFlow, [Next]_vars
               PROVE  SInv'
    BY DEF SInv
  <2>1. Types'
    BY TypesNext
  <2>2. Lifecycle'
    BY <2>1, LifecycleNext, SMTT(30)
  <2>3. SendChain'
    BY <2>1, SendChainNext
  <2>4. RecvChain'
    BY RecvChainNext
  <2>5. UpFlow'
    BY <2>1, UpFlowNext
  <2>6. DownFlow'
    BY DownFlowNext
  <2> QED BY <2>1, <2>2, <2>3, <2>4, <2>5, <2>6, SMTT(30) DEF SInv
<1> QED BY <1>1, <1>2, PTL DEF Spec

\* Every record the client seals is the one the server's keys and number are
\* ready for (process_key_update, engine.rs 964-1013).
THEOREM StaysInSync == Spec => []InSync
<1>1. SInv => InSync
  BY Zenon DEF SInv, SendChain, InSync
<1> QED BY <1>1, SessionInvariance, PTL

\* A server that keeps to the protocol is never refused (engine.rs 775-883).
THEOREM HonestServerServed == Spec => []HonestNeverRefused
<1>1. SInv => HonestNeverRefused
  BY Zenon DEF SInv, RecvChain, HonestNeverRefused
<1> QED BY <1>1, SessionInvariance, PTL

\* connect succeeds only with the whole final flight on the wire (engine.rs
\* 254-257 and 1122-1125).
THEOREM FinishedBeforeConnected == Spec => []ConnectedMeansFinished
<1>1. SInv => ConnectedMeansFinished
  BY SMTT(30) DEF SInv, Lifecycle, FinishedOn, ConnectedMeansFinished
<1> QED BY <1>1, SessionInvariance, PTL

\* Between calls everything accepted is on the wire (stream.rs 274-300 and
\* 384-409).
THEOREM FlushedWhenIdle == Spec => []IdleIsFlushed
<1>1. SInv => IdleIsFlushed
  <2> SUFFICES ASSUME Types, Lifecycle, UpFlow, call = "idle"
               PROVE  /\ pend = <<>>
                      /\ fails = 0 => /\ AppItems(wire) = up
                                      /\ Cardinality(KeyUpdates(wire)) = requests
    BY DEF SInv, IdleIsFlushed
  <2>1. pend = <<>>
    BY DEF Lifecycle
  <2>2. Sent = wire
    BY <2>1, SentParts, SMTT(30)
  <2> QED BY <2>1, <2>2, SMTT(30) DEF UpFlow
<1> QED BY <1>1, SessionInvariance, PTL

\* What a step may do to a pending record, and to the wire.
LEMMA PendingStep ==
    ASSUME [Next]_vars
    PROVE  \/ UNCHANGED <<pend, wire>>
           \/ pend = <<>> /\ UNCHANGED wire
           \/ SendOk
           \/ SendFails
<1> USE DEF engine, pipe
<1>1. CASE Connect
  <2>1. CASE \E n \in FinRecords : FinishFlight(n)
    BY <2>1, SMTT(30) DEF FinishFlight, HsFraming
  <2>2. CASE ReadServerHello \/ SkipCcs \/ FeedFlight
    BY <2>2, SMTT(30) DEF ReadServerHello, SkipCcs, FeedFlight
  <2>3. CASE HandshakeDone \/ ConnectFails \/ ConnectReadFails
    BY <2>3, SMTT(30) DEF HandshakeDone, ConnectFails, ConnectReadFails
  <2> QED BY <1>1, <2>1, <2>2, <2>3, SMTT(30) DEF Connect
<1>2. CASE Read
  <2>1. CASE DataRefused
    <3>1. Refuse(Head(s2c))
      BY <2>1, Zenon DEF DataRefused
    <3> QED BY <3>1, SMTT(30) DEF Refuse
  <2>2. CASE DataApp \/ DataCloseNotify \/ DataTicket
    <3>1. Consume /\ UNCHANGED pend
      BY <2>2, Zenon DEF DataApp, DataCloseNotify, DataTicket
    <3> QED BY <3>1, SMTT(30) DEF Consume
  <2>3. CASE DataKeyUpdate
    <3>1. Consume /\ pend = <<>>
      BY <2>3, Zenon DEF DataKeyUpdate, Framing
    <3> QED BY <3>1, SMTT(30) DEF Consume
  <2>4. CASE \E n \in 1..Len(DownData) : ReadApp(n)
    BY <2>4, SMTT(30) DEF ReadApp
  <2>5. CASE ReadZero \/ ReadEof \/ ReadNothing
    BY <2>5, SMTT(30) DEF ReadZero, ReadEof, ReadNothing
  <2> QED BY <1>2, <2>1, <2>2, <2>3, <2>4, <2>5, SMTT(30) DEF Read
<1>3. CASE WriteChunk \/ CloseNotify
  BY <1>3, SMTT(30) DEF WriteChunk, CloseNotify
<1>4. CASE WriteEnds \/ CloseEnds
  BY <1>4, SMTT(30) DEF WriteEnds, CloseEnds
<1>5. CASE Call \/ DropStream
  <2>1. UNCHANGED <<engine, pipe>>
    BY <1>5, ZenonT(40) DEF Call, DropStream, Begin
  <2> QED BY <2>1, SMTT(30)
<1>6. CASE Gone \/ SrvEof \/ UNCHANGED vars
  BY <1>6 DEF Gone, SrvEof, vars
<1>7. CASE Server
  <2>1. CASE SrvReads
    BY <2>1, SMTT(30) DEF SrvReads
  <2>2. CASE ~SrvReads
    <3>1. \E kind, body : Emit(kind, body)
      BY <1>7, <2>2, Zenon DEF Server, SrvHello, SrvCcs, SrvFlight, SrvFinished, SrvApp,
                        SrvPostHandshake, SrvClose, SrvBad
    <3> QED BY <3>1, SMTT(30) DEF Emit
  <2> QED BY <2>1, <2>2, SMTT(30)
<1> QED BY <1>1, <1>2, <1>3, <1>4, <1>5, <1>6, <1>7, SMTT(30) DEF Next, Client

\* A queued record leaves only when it is written or the session is over (the
\* Send gate of engine.rs 221-223, 744-750, 1064-1070 and 1143-1149).
THEOREM QueuedNeverLost == Spec => NothingOverwritten
<1>1. [Next]_vars =>
        [pend # <<>> /\ pend' # pend =>
           pend' = <<>> /\ (wire' = wire \o pend \/ state' = "Closed")]_vars
  <2>1. ASSUME [Next]_vars, pend # <<>>, pend' # pend
        PROVE  pend' = <<>> /\ (wire' = wire \o pend \/ state' = "Closed")
    <3>1. SendOk \/ SendFails
      BY <2>1, PendingStep
    <3> QED BY <3>1, Zenon DEF SendOk, SendFails
  <2> QED BY <2>1, SMTT(30)
<1> QED BY <1>1, PTL DEF Spec, NothingOverwritten

\* Nothing follows a record that may be half-written (mark_terminal,
\* stream.rs 327-341 and engine.rs 1130-1139).
THEOREM TornStaysLast == Spec => TornIsLast
<1>1. SInv /\ [Next]_vars => [torn => wire' = wire]_vars
  <2>1. ASSUME SInv, [Next]_vars, torn
        PROVE  wire' = wire
    <3>1. pend = <<>>
      BY <2>1, SMTT(30) DEF SInv, Lifecycle
    <3>2. ~SendOk /\ ~SendFails
      BY <3>1, SMTT(30) DEF SendOk, SendFails
    <3> QED BY <2>1, <3>2, PendingStep, SMTT(30)
  <2> QED BY <2>1
<1> QED BY <1>1, SessionInvariance, PTL DEF Spec, TornIsLast

-----------------------------------------------------------------------------
(* The session implements two reliable streams.                            *)

\* A stream that goes on starts with what it was.
LEMMA Continued ==
    ASSUME NEW a \in Seq(Words), NEW b \in Seq(Words)
    PROVE  Channel!Extends(a \o b, a) /\ Len(a \o b) = Len(a) + Len(b)
<1> DEFINE c == a \o b
<1>1. /\ c \in Seq(Words) /\ Len(c) = Len(a) + Len(b) /\ Len(a) \in Nat /\ Len(b) \in Nat
      /\ \A i \in 1..Len(a) : c[i] = a[i]
  BY ConcatProperties, SMTT(30)
<1> HIDE DEF c
<1> DEFINE s == SubSeq(c, 1, Len(a))
<1>2. s \in Seq(Words) /\ Len(s) = Len(a) /\ \A i \in 1..Len(a) : s[i] = c[i]
  BY <1>1, SMTT(30)
<1> HIDE DEF s
<1>3. s = a
  BY <1>1, <1>2, SeqEqual, SMTT(30)
<1>4. Len(a) <= Len(c)
  BY <1>1, SMTT(30)
<1> QED BY <1>1, <1>3, <1>4, SMTT(30) DEF Channel!Extends, c, s

\* The items of the first records start every stream those records start.
LEMMA ItemsLead ==
    ASSUME NEW w \in Seq(Msg), NEW x \in Seq(Msg), NEW n \in 0..Len(w), NEW rest \in Seq(Words)
    PROVE  Channel!Extends(AppItems(w \o x) \o rest, AppItems(SubSeq(w, 1, n)))
<1>1. PICK a \in Seq(Msg) : \E b \in Seq(Msg) : a = SubSeq(w, 1, n) /\ w = a \o b
  <2> DEFINE a == SubSeq(w, 1, n)
             b == SubSeq(w, n + 1, Len(w))
  <2>0. Len(w) \in Nat
    OBVIOUS
  <2>1. a \in Seq(Msg) /\ b \in Seq(Msg)
    BY <2>0
  <2>2. a \o b = SubSeq(w, 1, Len(w))
    <3>1. 1 \in 1..(Len(w) + 1) /\ n \in (1 - 1)..Len(w) /\ Len(w) \in n..Len(w)
      BY <2>0
    <3> QED BY <3>1, ConcatAdjacentSubSeq, Zenon
  <2>3. SubSeq(w, 1, Len(w)) = w
    OBVIOUS
  <2>4. a = SubSeq(w, 1, n) /\ w = a \o b
    BY <2>2, <2>3, Zenon
  <2> HIDE DEF a, b
  <2> QED BY <2>1, <2>4, Zenon
<1>2. PICK b \in Seq(Msg) : a = SubSeq(w, 1, n) /\ w = a \o b
  BY <1>1, SMTT(30)
<1>3. w \o x = a \o (b \o x)
  <2>1. (a \o b) \o x = a \o (b \o x)
    BY ConcatAssociative, SMTT(30)
  <2> QED BY <1>2, <2>1, SMTT(30)
<1>4. PICK q \in Seq(Msg) : q = b \o x
  BY ConcatProperties, ZenonT(40)
<1>5. PICK s \in Seq(Words) : s = AppItems(a)
  BY ItemsType
<1>6. PICK t \in Seq(Words) : t = AppItems(q)
  BY ItemsType
<1>7. AppItems(w \o x) = s \o t
  <2>1. AppItems(a \o q) = AppItems(a) \o AppItems(q)
    BY ItemsConcat, Zenon
  <2> QED BY <1>3, <1>4, <1>5, <1>6, <2>1
<1>8. (s \o t) \o rest = s \o (t \o rest)
  <2>1. \A i, j, k \in Seq(Words) : (i \o j) \o k = i \o (j \o k)
    BY Associates, Zenon
  <2> QED BY <2>1, Zenon
<1>9. PICK u \in Seq(Words) : u = t \o rest
  BY ConcatProperties, Zenon
<1>10. AppItems(w \o x) \o rest = s \o u
  BY <1>7, <1>8, <1>9
<1>11. Channel!Extends(s \o u, s)
  BY Continued
<1> QED BY <1>2, <1>5, <1>10, <1>11, Zenon

\* The client writes.
LEMMA ChannelWrite ==
    ASSUME Types, WriteChunk
    PROVE  Channel!ClientWrites
<1>1. UNCHANGED <<down, got_down, got_up, ended>>
  BY DEF WriteChunk
<1>2. PICK chunk \in Seq(Words) : Len(chunk) > 0 /\ up' = up \o chunk
  BY Chunk, SMTT(30)
<1>3. up \in Seq(Words) /\ Len(up) \in Nat /\ Len(chunk) \in Nat
  BY DEF Types
<1>4. Channel!Extends(up', up) /\ Len(up') = Len(up) + Len(chunk)
  BY <1>2, <1>3, Continued, SMTT(30)
<1>5. Len(up') > Len(up)
  BY <1>2, <1>3, <1>4, SMTT(30)
<1> QED BY <1>1, <1>4, <1>5, SMTT(30) DEF Channel!ClientWrites

\* The server writes, and not after the end that the client has seen.
LEMMA ChannelServe ==
    ASSUME Types, DownFlow, SrvApp
    PROVE  Channel!ServerWrites \/ UNCHANGED Channel!vars
<1>1. srv = "data" /\ ~ended
  BY Zenon DEF SrvApp, DownFlow
<1>2. PICK body \in Seq(Words) : down' = down \o body /\ Emit("app", body)
  BY AppBody, Zenon
<1>3. UNCHANGED <<got_down, up, got_up, ended>>
  BY <1>2 DEF Emit
<1>4. down \in Seq(Words) /\ Len(down) \in Nat /\ Len(body) \in Nat
  BY DEF Types
<1>5. Channel!Extends(down', down) /\ Len(down') = Len(down) + Len(body)
  BY <1>2, <1>4, Continued, SMTT(30)
<1>6. CASE Len(body) = 0
  <2>1. body = <<>>
    BY <1>6, EmptySeq, SMTT(30)
  <2>2. down' = down
    BY <1>2, <1>4, <2>1, Associates, SMTT(30)
  <2> QED BY <1>3, <2>2, SMTT(30) DEF Channel!vars
<1>7. CASE Len(body) # 0
  <2>1. Len(down') > Len(down)
    BY <1>4, <1>5, <1>7, SMTT(30)
  <2> QED BY <1>1, <1>3, <1>5, <2>1, SMTT(30) DEF Channel!ServerWrites
<1> QED BY <1>6, <1>7, SMTT(30)

\* The client reads.
LEMMA ChannelRead ==
    ASSUME Types, Types', DownFlow, NEW n \in 1..Len(DownData), ReadApp(n)
    PROVE  Channel!ClientReads
<1>1. UNCHANGED <<down, up, got_up, ended>> /\ got_down' = got_down \o SubSeq(parked, 1, n)
      /\ n <= Len(parked)
  BY SMTT(30) DEF ReadApp
<1>2. got_down \in Seq(Words) /\ parked \in Seq(Words)
      /\ got_down' \in Seq(Words) /\ parked' \in Seq(Words)
  BY DEF Types
<1>3. PICK p \in Seq(Words) : got_down' = got_down \o p
  <2>1. Len(DownData) \in Nat
    BY BodyTypes
  <2>2. Len(parked) \in Nat
    BY <1>2
  <2>3. SubSeq(parked, 1, n) \in Seq(Words)
    BY <1>1, <1>2, <2>1, <2>2
  <2> QED BY <1>1, <2>3, Zenon
<1>4. Channel!Extends(got_down', got_down)
  BY <1>2, <1>3, Continued, SMTT(30)
<1>5. PICK rest \in Seq(Words) : down = (got_down' \o parked') \o rest
  <2>1. got_down' \o parked' = got_down \o parked
    BY DownReads, SMTT(30)
  <2> QED BY <2>1, Zenon DEF DownFlow
<1>6. PICK g \in Seq(Words) : g = got_down'
  BY <1>2
<1>7. PICK q \in Seq(Words) : q = parked'
  BY <1>2
<1>8. (g \o q) \o rest = g \o (q \o rest)
  BY ConcatAssociative, SMTT(30)
<1>9. PICK x \in Seq(Words) : x = q \o rest
  BY ConcatProperties, Zenon
<1>10. Channel!Extends(g \o x, g)
  BY Continued
<1>11. Channel!Extends(down, got_down')
  BY <1>5, <1>6, <1>7, <1>8, <1>9, <1>10
<1> QED BY <1>1, <1>4, <1>11, SMTT(30) DEF Channel!ClientReads

\* The client reports the end of the stream when it has read all of it.
LEMMA ChannelEnd ==
    ASSUME Types, DownFlow, ReadZero
    PROVE  Channel!ClientSeesEnd \/ UNCHANGED Channel!vars
<1>1. /\ parked = <<>> /\ ended' = (ended \/ peer_closed)
      /\ UNCHANGED <<down, got_down, up, got_up>>
  BY SMTT(30) DEF ReadZero
<1>2. CASE peer_closed
  <2>1. s2c = <<>> /\ down = (got_down \o parked) \o AppItems(s2c)
    BY <1>2 DEF DownFlow
  <2>2. down = (got_down \o <<>>) \o <<>>
    BY <1>1, <2>1, ItemsEmpty, Zenon
  <2>3. got_down \in Seq(Words)
    BY DEF Types
  <2>4. got_down \o <<>> = got_down
    BY <2>3, Associates
  <2>5. down = got_down
    BY <2>2, <2>4, SMTT(30)
  <2> QED BY <1>1, <1>2, <2>5, Zenon DEF Channel!ClientSeesEnd
<1>3. CASE ~peer_closed
  <2>1. ended \in BOOLEAN
    BY DEF Types
  <2>2. ended' = ended
    BY <1>1, <1>3, <2>1, SMTT(30)
  <2> QED BY <1>1, <2>2, SMTT(30) DEF Channel!vars
<1> QED BY <1>2, <1>3, SMTT(30)

\* The server reads.
LEMMA ChannelServerRead ==
    ASSUME Types, Types', SendChain', UpFlow, UpFlow', SrvReads
    PROVE  Channel!ServerReads
<1> DEFINE r == wire[srv_pos + 1]
<1>1. UNCHANGED <<down, got_down, up, ended>> /\ srv_pos \in Nat /\ srv_pos < Len(wire)
      /\ wire \in Seq(Msg) /\ got_up \in Seq(Words)
  BY ZenonT(40) DEF SrvReads, Types
<1>2. got_up' = IF r.kind = "app" THEN got_up \o r.body ELSE got_up
  BY Zenon DEF SrvReads
<1>3. r \in Msg
  BY <1>1, PrefixNext, SMTT(30)
<1> HIDE DEF r
<1>4. PICK b \in Seq(Words) : b = ItemsOf(r)
  BY <1>3, ItemsSeq, SMTT(30)
<1>5. got_up' = got_up \o b
  BY <1>1, <1>2, <1>4, Associates, SMTT(30) DEF ItemsOf
<1>6. Channel!Extends(got_up', got_up)
  BY <1>1, <1>5, Continued, SMTT(30)
<1>7. Channel!Extends(up', got_up')
  <2>1. PICK rest \in Seq(Words) : up' = AppItems(wire' \o pend') \o rest
    BY SMTT(30) DEF UpFlow, Sent
  <2>2. wire' \in Seq(Msg) /\ pend' \in Seq(Msg) /\ srv_pos' \in Nat
    BY DEF Types
  <2>3. srv_pos' \in 0..Len(wire')
    <3>1. srv_pos' <= Len(wire')
      BY Zenon DEF SendChain
    <3>2. Len(wire') \in Nat
      BY <2>2, SMTT(30)
    <3> QED BY <2>2, <3>1, <3>2, SMTT(30)
  <2>4. got_up' = AppItems(SubSeq(wire', 1, srv_pos'))
    BY DEF UpFlow
  <2>5. \A w, x \in Seq(Msg) : \A n \in 0..Len(w) : \A d \in Seq(Words) :
          Channel!Extends(AppItems(w \o x) \o d, AppItems(SubSeq(w, 1, n)))
    BY ItemsLead, SMTT(30)
  <2>6. Channel!Extends(AppItems(wire' \o pend') \o rest, AppItems(SubSeq(wire', 1, srv_pos')))
    BY <2>2, <2>3, <2>5, SMTT(30)
  <2> QED BY <2>1, <2>4, <2>6, SMTT(30)
<1> QED BY <1>1, <1>6, <1>7, SMTT(30) DEF Channel!ServerReads

\* Every step of the session is a step of the two streams, or of neither.
LEMMA ChannelStep ==
    ASSUME SInv, SInv', [Next]_vars
    PROVE  [Channel!Next]_(Channel!vars)
<1>0. Types /\ Types' /\ DownFlow /\ UpFlow /\ UpFlow' /\ SendChain'
  BY SMTT(30) DEF SInv
<1> USE DEF history
<1>1. CASE SendOk \/ SendFails
  BY <1>1, ZenonT(40) DEF SendOk, SendFails, Channel!vars
<1>2. CASE Connect
  <2>1. CASE \E n \in FinRecords : FinishFlight(n)
    BY <2>1, Zenon DEF FinishFlight, Channel!vars
  <2>2. CASE ReadServerHello \/ SkipCcs \/ FeedFlight
    BY <2>2, SMTT(30) DEF ReadServerHello, SkipCcs, FeedFlight, Channel!vars
  <2>3. CASE HandshakeDone \/ ConnectFails \/ ConnectReadFails
    BY <2>3, SMTT(30) DEF HandshakeDone, ConnectFails, ConnectReadFails, Channel!vars
  <2> QED BY <1>2, <2>1, <2>2, <2>3 DEF Connect
<1>3. CASE Read
  <2>1. CASE DataRefused
    <3>1. Refuse(Head(s2c))
      BY <2>1, ZenonT(40) DEF DataRefused
    <3> QED BY <3>1, SMTT(30) DEF Refuse, Channel!vars
  <2>2. CASE DataApp \/ DataCloseNotify \/ DataTicket \/ DataKeyUpdate
    BY <2>2, Zenon DEF DataApp, DataCloseNotify, DataTicket, DataKeyUpdate, Channel!vars
  <2>3. CASE \E n \in 1..Len(DownData) : ReadApp(n)
    BY <1>0, <2>3, ChannelRead, SMTT(30) DEF Channel!Next
  <2>4. CASE ReadZero
    BY <1>0, <2>4, ChannelEnd, SMTT(30) DEF Channel!Next
  <2>5. CASE ReadEof \/ ReadNothing
    BY <2>5, SMTT(30) DEF ReadEof, ReadNothing, Channel!vars
  <2> QED BY <1>3, <2>1, <2>2, <2>3, <2>4, <2>5, SMTT(30) DEF Read
<1>4. CASE WriteChunk
  BY <1>0, <1>4, ChannelWrite, SMTT(30) DEF Channel!Next
<1>5. CASE WriteEnds \/ CloseEnds \/ CloseNotify
  BY <1>5, SMTT(30) DEF WriteEnds, CloseEnds, CloseNotify, Channel!vars
<1>6. CASE Call \/ DropStream
  <2>1. UNCHANGED history
    BY <1>6, Zenon DEF Call, DropStream, Begin
  <2> QED BY <2>1, SMTT(30) DEF Channel!vars
<1>7. CASE Gone \/ SrvEof \/ UNCHANGED vars
  BY <1>7, SMTT(30) DEF Gone, SrvEof, vars, Channel!vars
<1>8. CASE Server
  <2>1. CASE SrvReads
    BY <1>0, <2>1, ChannelServerRead, SMTT(30) DEF Channel!Next
  <2>2. CASE SrvApp
    BY <1>0, <2>2, ChannelServe, SMTT(30) DEF Channel!Next
  <2>3. CASE ~SrvReads /\ ~SrvApp
    <3>1. UNCHANGED down /\ \E kind, body : Emit(kind, body)
      BY <1>8, <2>3, Zenon DEF Server, SrvHello, SrvCcs, SrvFlight, SrvFinished,
                        SrvPostHandshake, SrvClose, SrvBad
    <3>2. UNCHANGED <<got_down, up, got_up, ended>>
      BY <3>1 DEF Emit
    <3> QED BY <3>1, <3>2, SMTT(30) DEF Channel!vars
  <2> QED BY <2>1, <2>2, <2>3, SMTT(30)
<1> QED BY <1>1, <1>2, <1>3, <1>4, <1>5, <1>6, <1>7, <1>8, SMTT(30) DEF Next, Client

\* The session implements the secure channel: each reader has a prefix of what
\* the other side wrote, and the end of the server's stream is reported only
\* after all of its data (stream.rs 263-300 and 384-499, engine.rs 775-1013).
THEOREM SessionIsChannel == Spec => ImplementsChannel
<1>1. Init => Channel!Init
  BY Zenon DEF Init, Channel!Init
<1>2. SInv /\ SInv' /\ [Next]_vars => [Channel!Next]_(Channel!vars)
  BY ChannelStep
<1> QED BY <1>1, <1>2, SessionInvariance, PTL DEF Spec, ImplementsChannel, Channel!Spec
=============================================================================
