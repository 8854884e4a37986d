------------------------ MODULE DtlsHandshake_proofs ------------------------
(***************************************************************************)
(* What holds of connect for every way to lay out the server's flight,     *)
(* every bound on attempts, datagrams and acknowledged records, and        *)
(* however often the network repeats or reorders: the transcripts and the  *)
(* message numbers agree, the ACK is exact, and an accepted handshake is   *)
(* not aborted.                                                            *)
(*                                                                         *)
(* The inductive invariant has two parts.  Hellos follows the ClientHello  *)
(* exchanges: what was hashed at each point, and which replies can exist   *)
(* at all by then.  Records says that the numbers of the records the       *)
(* server sealed are all different, and accounts for every message         *)
(* collected by a record that was sealed and, when its number fits,        *)
(* acknowledged.                                                           *)
(***************************************************************************)
EXTENDS DtlsHandshake, SequenceTheorems, FiniteSetTheorems, TLAPS

Record == [kind : {"hrr", "sh", "ep2"}, seq : Nat,
           msgs : SUBSET [name : {"hrr", "sh", "ee", "auth", "fin"}, mseq : Nat]]

Hellos ==
    /\ cookie \in BOOLEAN
    /\ pc \in {"start", "wait1", "wait2", "flight", "finish", "ack", "done", "failed"}
    /\ pc # "failed" => error = ""
    /\ pc \in {"start", "wait1"} => transcript = <<>> /\ ~Has("ch2")
    /\ pc = "wait2" => cookie /\ transcript = <<"message_hash", "hrr">>
    /\ HellosAgree
    /\ Accepted => client_fin_msg_seq = (IF cookie THEN 2 ELSE 1) /\ base_seq = HelloSeq + 1
    /\ FinishedAcceptable
    /\ FlightNotAborted

\* What can be on its way to the client.
Replies ==
    \A d \in to_client :
      /\ d \in Seq(Record) /\ d # <<>>
      /\ Head(d).kind = "hrr" => cookie
      /\ Head(d).kind = "sh" => (cookie => Has("ch2")) /\ Head(d).msgs = {Msg("sh", HelloSeq)}
      /\ \A k \in 1..Len(d) : d[k].kind = "ep2" => d[k] \in sealed

FlightMsgs == {Msg(n, FlightSeq(n)) : n \in Messages}

Sealing ==
    /\ IsFiniteSet(sealed)
    /\ \A r \in sealed : r.seq \in Nat /\ r.seq < Cardinality(sealed) /\ r.msgs \subseteq FlightMsgs
    /\ \A r, s \in sealed : r.seq = s.seq => r = s

Acking ==
    /\ \A s \in acked_seqs : \E r \in sealed : r.seq = s /\ r.msgs \subseteq reasm
    /\ \A m \in reasm : \E r \in sealed :
         m \in r.msgs /\ (r.seq \in acked_seqs \/ r.seq >= MAX_ACK_RECORDS)

HInv == Hellos /\ Replies /\ Sealing /\ Acking

-----------------------------------------------------------------------------
(* The operators.                                                          *)

\* A bounded set of numbers with a member has a largest one.
LEMMA MaxIn ==
    ASSUME NEW n \in Nat, NEW S \in SUBSET (0..n), 0 \in S
    PROVE  Max(S) \in S
<1> DEFINE U == {n - x : x \in S}
<1>1. U \in SUBSET Nat /\ n - 0 \in U
  OBVIOUS
<1>2. IsWellFoundedOn(OpToRel(<, Nat), Nat)
  BY NatLessThanWellFounded, Zenon
<1>3. PICK u \in U : \A v \in U : <<v, u>> \notin OpToRel(<, Nat)
  BY <1>1, <1>2, WFMin, Zenon
<1>4. \A v \in U : ~(v < u)
  BY <1>1, <1>3, Zenon DEF OpToRel
<1>5. PICK x \in S : u = n - x
  BY <1>3, Zenon
<1>6. ASSUME NEW y \in S PROVE x >= y
  <2>1. n - y \in U /\ x \in 0..n /\ y \in 0..n
    OBVIOUS
  <2>2. ~(n - y < n - x)
    BY <1>4, <1>5, <2>1
  <2> HIDE DEF U
  <2> QED BY <2>1, <2>2
<1> QED BY <1>5, <1>6, Zenon DEF Max

\* feed_epoch2_records takes a prefix of the datagram, every record of which
\* opens (dtls/client.rs 807-856).
LEMMA FeedTakes ==
    ASSUME NEW d, NEW hellos, NEW msgs, NEW next_seq, NEW acked,
           Len(d) \in Nat, Feed(d, hellos, msgs, next_seq, acked)
    PROVE  \E n \in 0..Len(d) :
             /\ \A k \in 1..n : d[k].kind = "ep2"
             /\ reasm' = msgs \cup UNION {d[k].msgs : k \in 1..n}
             /\ acked_seqs' = acked \cup UNION {{d[k].seq} \cap 0..(MAX_ACK_RECORDS - 1) : k \in 1..n}
<1> DEFINE S == {n \in 0..Len(d) : \A k \in 1..n : Opens(d[k], hellos, next_seq + k - 1)}
           n == Max(S)
<1>1. n \in S
  <2>1. S \in SUBSET (0..Len(d)) /\ 0 \in S
    OBVIOUS
  <2> HIDE DEF S
  <2> QED BY <2>1, MaxIn, Zenon
<1>2. Opened(d, hellos, next_seq) = n
  BY DEF Opened
<1> HIDE DEF n
<1>3. n \in 0..Len(d) /\ \A k \in 1..n : d[k].kind = "ep2"
  BY <1>1 DEF Opens
<1>4. /\ reasm' = msgs \cup UNION {d[k].msgs : k \in 1..n}
      /\ acked_seqs' = acked \cup UNION {{d[k].seq} \cap 0..(MAX_ACK_RECORDS - 1) : k \in 1..n}
  BY <1>2 DEF Feed, AckedAs
<1> QED BY <1>3, <1>4

\* The tail of a datagram has records of the datagram.
LEMMA TailOf ==
    ASSUME NEW d \in Seq(Record), d # <<>>
    PROVE  /\ Len(Tail(d)) \in Nat
           /\ \A k \in 1..Len(Tail(d)) : k + 1 \in 1..Len(d) /\ Tail(d)[k] = d[k + 1]
OBVIOUS

\* Collecting from sealed records keeps the account of what is acknowledged.
LEMMA FeedAcks ==
    ASSUME Sealing, NEW d, NEW hellos, NEW msgs, NEW next_seq, NEW acked, Len(d) \in Nat,
           \A k \in 1..Len(d) : d[k].kind = "ep2" => d[k] \in sealed,
           \A s \in acked : \E r \in sealed : r.seq = s /\ r.msgs \subseteq msgs,
           \A m \in msgs : \E r \in sealed :
             m \in r.msgs /\ (r.seq \in acked \/ r.seq >= MAX_ACK_RECORDS),
           Feed(d, hellos, msgs, next_seq, acked), UNCHANGED sealed
    PROVE  Acking'
<1>1. PICK n \in 0..Len(d) :
             /\ \A k \in 1..n : d[k].kind = "ep2"
             /\ reasm' = msgs \cup UNION {d[k].msgs : k \in 1..n}
             /\ acked_seqs' = acked \cup UNION {{d[k].seq} \cap 0..(MAX_ACK_RECORDS - 1) : k \in 1..n}
  BY FeedTakes
<1>2. \A k \in 1..n : d[k] \in sealed /\ d[k].seq \in Nat
  BY <1>1 DEF Sealing
<1>3. MAX_ACK_RECORDS \in Nat
  BY HandshakeAssumption
<1>4. ASSUME NEW s \in acked_seqs'
      PROVE  \E r \in sealed : r.seq = s /\ r.msgs \subseteq reasm'
  <2>1. CASE s \in acked
    BY <1>1, <2>1
  <2>2. CASE \E k \in 1..n : s = d[k].seq
    BY <1>1, <1>2, <2>2
  <2> QED BY <1>1, <1>4, <2>1, <2>2
<1>5. ASSUME NEW m \in reasm'
      PROVE  \E r \in sealed : m \in r.msgs /\ (r.seq \in acked_seqs' \/ r.seq >= MAX_ACK_RECORDS)
  <2>1. CASE m \in msgs
    BY <1>1, <2>1
  <2>2. CASE \E k \in 1..n : m \in d[k].msgs
    <3>1. PICK k \in 1..n : m \in d[k].msgs
      BY <2>2
    <3>2. d[k].seq < MAX_ACK_RECORDS => d[k].seq \in {d[k].seq} \cap 0..(MAX_ACK_RECORDS - 1)
      BY <1>2, <1>3
    <3>3. d[k].seq < MAX_ACK_RECORDS => d[k].seq \in acked_seqs'
      BY <1>1, <3>2
    <3> QED BY <1>2, <1>3, <3>1, <3>3
  <2> QED BY <1>1, <1>5, <2>1, <2>2
<1> QED BY <1>4, <1>5 DEF Acking

\* The names hashed before a ServerHello is taken.
LEMMA NoHelloYet ==
    /\ "sh" \notin Range(<<>>)
    /\ "sh" \notin Range(<<"message_hash", "hrr">>)
BY DEF Range

\* Appending to a tuple gives the longer tuple.
LEMMA AppendTwo ==
    ASSUME NEW S, NEW a \in S, NEW b \in S
    PROVE  Append(Append(<<>>, a), b) = <<a, b>>
<1>1. <<>> \in Seq(S) /\ Append(<<>>, a) = <<a>> /\ <<a>> \in Seq(S) /\ Len(<<a>>) = 1 /\ <<a>>[1] = a
  OBVIOUS
<1>2. PICK t : t = Append(<<a>>, b)
  BY Zenon
<1>3. t \in Seq(S) /\ Len(t) = 2 /\ t[1] = a /\ t[2] = b
  BY <1>1, <1>2, AppendProperties
<1>4. PICK u : u = <<a, b>>
  BY Zenon
<1>5. u \in Seq(S) /\ Len(u) = 2 /\ u[1] = a /\ u[2] = b
  BY <1>4
<1>6. t = u
  BY <1>3, <1>5, SeqEqual
<1> QED BY <1>1, <1>2, <1>4, <1>6, Zenon

\* What Append does to a sequence of known length.
LEMMA AppendOn ==
    ASSUME NEW S, NEW s \in Seq(S), NEW e \in S, NEW n \in Nat, Len(s) = n
    PROVE  /\ Append(s, e) \in Seq(S) /\ Len(Append(s, e)) = n + 1 /\ Append(s, e)[n + 1] = e
           /\ \A i \in 1..n : Append(s, e)[i] = s[i]
BY AppendProperties

\* Appending twice to a pair.
LEMMA AppendFour ==
    ASSUME NEW S, NEW a \in S, NEW b \in S, NEW c \in S, NEW d \in S
    PROVE  Append(Append(<<a, b>>, c), d) = <<a, b, c, d>>
<1>1. PICK s : s = <<a, b>>
  BY Zenon
<1>2. s \in Seq(S) /\ Len(s) = 2 /\ s[1] = a /\ s[2] = b
  BY <1>1
<1>3. PICK t : t = Append(s, c)
  BY Zenon
<1>4. t \in Seq(S) /\ Len(t) = 2 + 1 /\ t[2 + 1] = c /\ \A i \in 1..2 : t[i] = s[i]
  BY <1>2, <1>3, AppendOn
<1>5. PICK u : u = Append(t, d)
  BY Zenon
<1>6. u \in Seq(S) /\ Len(u) = 3 + 1 /\ u[3 + 1] = d /\ \A i \in 1..3 : u[i] = t[i]
  BY <1>4, <1>5, AppendOn
<1>7. PICK v : v = <<a, b, c, d>>
  BY Zenon
<1>8. v \in Seq(S) /\ Len(v) = 4 /\ v[1] = a /\ v[2] = b /\ v[3] = c /\ v[4] = d
  BY <1>7
<1>9. \A i \in 1..4 : u[i] = v[i]
  BY <1>2, <1>4, <1>6, <1>8
<1>10. u = v
  BY <1>6, <1>8, <1>9, SeqEqual
<1> QED BY <1>1, <1>3, <1>5, <1>7, <1>10, Zenon

\* The hellos as the client hashes them.
LEMMA HellosHashed ==
    /\ Append(Append(<<>>, "ch1"), "sh") = <<"ch1", "sh">>
    /\ Append(Append(<<"message_hash", "hrr">>, "ch2"), "sh") = <<"message_hash", "hrr", "ch2", "sh">>
<1>1. \A a, b : Append(Append(<<>>, a), b) = <<a, b>>
  <2> TAKE a, b
  <2> QED BY AppendTwo, a \in {a, b}, b \in {a, b}, Zenon
<1>2. \A a, b, c, d : Append(Append(<<a, b>>, c), d) = <<a, b, c, d>>
  <2> TAKE a, b, c, d
  <2> DEFINE S == {a, b, c, d}
  <2> QED BY AppendFour, a \in S, b \in S, c \in S, d \in S, Zenon
<1> QED BY <1>1, <1>2

\* A flight with a Finished and nothing missing before it is the whole flight.
LEMMA WholeFlight ==
    ASSUME cookie \in BOOLEAN, base_seq = HelloSeq + 1, reasm \subseteq FlightMsgs, flight_complete
    PROVE  {m.name : m \in reasm} = Messages
<1>1. HelloSeq \in Nat
  BY DEF HelloSeq
<1>2. /\ FlightSeq("ee") = HelloSeq + 1 /\ FlightSeq("auth") = HelloSeq + 2
      /\ FlightSeq("fin") = HelloSeq + 3
  BY DEF FlightSeq
<1>3. \A m \in reasm : \/ m.name = "ee" /\ m.mseq = HelloSeq + 1
                       \/ m.name = "auth" /\ m.mseq = HelloSeq + 2
                       \/ m.name = "fin" /\ m.mseq = HelloSeq + 3
  BY <1>2 DEF FlightMsgs, Messages, Msg
<1>4. PICK f \in reasm : f.name = "fin" /\ \A seq \in base_seq..f.mseq : \E x \in reasm : x.mseq = seq
  BY DEF flight_complete, Finisheds
<1>5. f.mseq = HelloSeq + 3
  BY <1>1, <1>3, <1>4
<1>6. HelloSeq + 1 \in base_seq..f.mseq /\ HelloSeq + 2 \in base_seq..f.mseq
  BY <1>1, <1>5
<1>7. (\E x \in reasm : x.name = "ee") /\ (\E x \in reasm : x.name = "auth")
  BY <1>1, <1>3, <1>4, <1>6
<1>8. \A x \in reasm : x.name \in Messages
  BY <1>3 DEF Messages
<1> QED BY <1>4, <1>7, <1>8 DEF Messages

-----------------------------------------------------------------------------
(* The server's side.                                                      *)

\* The values of a function on finitely many numbers are finitely many.
LEMMA FiniteImage ==
    ASSUME NEW n \in Nat, NEW f, DOMAIN f = 1..n
    PROVE  IsFiniteSet({f[i] : i \in 1..n})
<1> DEFINE T == {f[i] : i \in 1..n}
           g == [i \in 1..n |-> f[i]]
<1>1. g \in Surjection(1..n, T)
  BY DEF Surjection
<1>2. IsFiniteSet(1..n)
  BY FS_Interval
<1> HIDE DEF g, T
<1>3. IsFiniteSet(T)
  BY <1>1, <1>2, FS_Surjection
<1> QED BY <1>3 DEF T

\* The shape of a layout.
Cell == [kind : {"sh", "ep2"}, n : Nat, names : SUBSET Messages]

\* A layout is a sequence of datagrams with at least one record each.
LEMMA LayoutShape ==
    ASSUME NEW layout \in Layouts
    PROVE  /\ Len(layout) \in Nat /\ DOMAIN layout = 1..Len(layout)
           /\ \A i \in 1..Len(layout) :
                /\ layout[i] \in Seq(Cell) /\ layout[i] # <<>>
                /\ Len(layout[i]) \in Nat /\ DOMAIN layout[i] = 1..Len(layout[i]) /\ Len(layout[i]) > 0
                /\ \A j \in 1..Len(layout[i]) : layout[i][j] \in Cell
<1>1. layout \in Seq(Seq(Cell) \ {<<>>})
  BY HandshakeAssumption, Zenon DEF Cell
<1>2. \A S : \A s \in Seq(S) : Len(s) \in Nat /\ DOMAIN s = 1..Len(s) /\ \A i \in 1..Len(s) : s[i] \in S
  OBVIOUS
<1>3. /\ Len(layout) \in Nat /\ DOMAIN layout = 1..Len(layout)
      /\ \A i \in 1..Len(layout) : layout[i] \in Seq(Cell) \ {<<>>}
  BY <1>1, <1>2
<1>4. \A s \in Seq(Cell) : s # <<>> => Len(s) > 0
  BY EmptySeq
<1> QED BY <1>2, <1>3, <1>4

\* A flight has finitely many records.
LEMMA NumberedFinite ==
    ASSUME NEW layout \in Layouts
    PROVE  IsFiniteSet(Numbered(layout))
<1> DEFINE D == 1..Len(layout)
           tos == [i \in D |-> Range(layout[i])]
<1>1. \A i \in D : IsFiniteSet(Range(layout[i]))
  <2> TAKE i \in D
  <2>1. Len(layout[i]) \in Nat /\ DOMAIN layout[i] = 1..Len(layout[i])
    BY LayoutShape
  <2>2. IsFiniteSet({layout[i][j] : j \in 1..Len(layout[i])})
    BY <2>1, FiniteImage
  <2> QED BY <2>1, <2>2 DEF Range
<1>2. DOMAIN tos = 1..Len(layout) /\ Len(layout) \in Nat /\ DOMAIN layout = D
  BY LayoutShape
<1>3. \A i \in D : tos[i] = Range(layout[i])
  OBVIOUS
<1> HIDE DEF tos
<1>4. IsFiniteSet({tos[i] : i \in D})
  BY <1>2, FiniteImage
<1> DEFINE TT == {Range(layout[i]) : i \in D}
<1>5. IsFiniteSet(TT)
  BY <1>3, <1>4, Zenon
<1>6. \A T \in TT : IsFiniteSet(T)
  BY <1>1
<1>7. IsFiniteSet(UNION TT)
  <2> HIDE DEF TT
  <2> QED BY <1>5, <1>6, FS_UNION
<1>8. Numbered(layout) \in SUBSET UNION TT
  BY <1>2 DEF Numbered
<1> QED BY <1>7, <1>8, FS_Subset

\* What the server seals for a cell of a layout.
Seal(r) == Rec("ep2", Cardinality(sealed) + r.n, {Msg(n, FlightSeq(n)) : n \in r.names})

\* The cells that are sealed, and what becomes of each cell.
LEMMA CellSealed ==
    ASSUME NEW layout \in Layouts
    PROVE  /\ \A r \in Numbered(layout) :
                /\ r.kind = "ep2" /\ r.n \in Nat /\ r.names \subseteq Messages
                /\ \E i \in 1..Len(layout) : \E j \in 1..Len(layout[i]) : r = layout[i][j]
           /\ \A i \in 1..Len(layout) : \A j \in 1..Len(layout[i]) :
                IF layout[i][j].kind = "ep2"
                THEN layout[i][j] \in Numbered(layout) /\ SealRecord(layout[i][j]) = Seal(layout[i][j])
                ELSE SealRecord(layout[i][j]) = Rec("sh", 0, {Msg("sh", HelloSeq)})
<1>1. /\ DOMAIN layout = 1..Len(layout)
      /\ \A i \in 1..Len(layout) : /\ DOMAIN layout[i] = 1..Len(layout[i])
                                   /\ \A j \in 1..Len(layout[i]) : layout[i][j] \in Cell
  BY LayoutShape
<1>2. ASSUME NEW r \in Numbered(layout)
      PROVE  /\ r.kind = "ep2" /\ r.n \in Nat /\ r.names \subseteq Messages
             /\ \E i \in 1..Len(layout) : \E j \in 1..Len(layout[i]) : r = layout[i][j]
  <2>1. PICK i \in 1..Len(layout) : r \in Range(layout[i])
    BY <1>1 DEF Numbered
  <2>2. PICK j \in 1..Len(layout[i]) : r = layout[i][j]
    BY <1>1, <2>1 DEF Range
  <2>3. r \in Cell /\ r.kind = "ep2"
    BY <1>1, <2>2 DEF Numbered
  <2> QED BY <2>2, <2>3 DEF Cell
<1>3. ASSUME NEW i \in 1..Len(layout), NEW j \in 1..Len(layout[i])
      PROVE  IF layout[i][j].kind = "ep2"
             THEN layout[i][j] \in Numbered(layout) /\ SealRecord(layout[i][j]) = Seal(layout[i][j])
             ELSE SealRecord(layout[i][j]) = Rec("sh", 0, {Msg("sh", HelloSeq)})
  <2>1. layout[i][j] \in Range(layout[i])
    BY <1>1 DEF Range
  <2>2. layout[i][j].kind = "ep2" => layout[i][j] \in Numbered(layout)
    BY <1>1, <2>1 DEF Numbered
  <2>3. layout[i][j].kind = "sh" \/ layout[i][j].kind = "ep2"
    BY <1>1 DEF Cell
  <2> QED BY <2>2, <2>3 DEF SealRecord, Seal
<1> QED BY <1>2, <1>3, Zenon

\* Sealing a set of cells with numbers of their own gives as many records, with
\* numbers nobody used before.
LEMMA SealingNext ==
    ASSUME Sealing, cookie \in BOOLEAN, NEW layout \in Layouts, UNCHANGED cookie,
           sealed' = sealed \cup {Seal(r) : r \in Numbered(layout)}
    PROVE  Sealing'
<1> DEFINE N == Numbered(layout)
           c == Cardinality(sealed)
           new == {Seal(r) : r \in N}
<1>1. c \in Nat /\ IsFiniteSet(sealed) /\ \A r \in sealed : r.seq \in Nat /\ r.seq < c
  BY FS_CardinalityType DEF Sealing
<1>2. IsFiniteSet(N) /\ \A r \in N : r.n \in Nat /\ r.names \subseteq Messages
  BY NumberedFinite, CellSealed
<1>3. /\ \A r, s \in N : r.n = s.n => r = s
      /\ \A r \in N : r.n < Cardinality(N)
  BY LayoutAssumption
<1>4. \A r \in N : /\ Seal(r).seq = c + r.n
                   /\ Seal(r).msgs = {Msg(n, FlightSeq(n)) : n \in r.names}
  BY DEF Seal, Rec
<1>5. IsFiniteSet(new) /\ Cardinality(new) = Cardinality(N)
  <2> DEFINE f == [r \in N |-> Seal(r)]
  <2>1. \A r, s \in N : Seal(r) = Seal(s) => r = s
    <3> TAKE r, s \in N
    <3>1. Seal(r) = Seal(s) => c + r.n = c + s.n
      BY <1>4
    <3> QED BY <1>1, <1>2, <1>3, <3>1
  <2>2. f \in Bijection(N, new)
    <3>1. f \in [N -> new] /\ \A r \in N : f[r] = Seal(r)
      OBVIOUS
    <3>2. \A r, s \in N : f[r] = f[s] => r = s
      BY <2>1, <3>1
    <3>3. \A t \in new : \E r \in N : f[r] = t
      BY <3>1
    <3> HIDE DEF N, f, new
    <3> QED BY <3>1, <3>2, <3>3 DEF Bijection, Injection, IsInjective, Surjection
  <2>3. ExistsBijection(N, new)
    BY <2>2 DEF ExistsBijection
  <2> QED BY <1>2, <2>3, FS_Bijection
<1>6. \A r \in new : /\ r.seq \in Nat /\ r.seq >= c /\ r.seq < c + Cardinality(new)
                     /\ r.msgs \subseteq FlightMsgs
  <2> SUFFICES ASSUME NEW r \in N
               PROVE  /\ Seal(r).seq \in Nat /\ Seal(r).seq >= c /\ Seal(r).seq < c + Cardinality(new)
                      /\ Seal(r).msgs \subseteq FlightMsgs
    BY Zenon
  <2>1. r.n \in Nat /\ r.n < Cardinality(N) /\ Cardinality(N) \in Nat
    BY <1>2, <1>3, FS_CardinalityType
  <2>2. Seal(r).msgs \subseteq FlightMsgs
    BY <1>2, <1>4 DEF FlightMsgs
  <2> HIDE DEF N, new
  <2> QED BY <1>1, <1>4, <1>5, <2>1, <2>2
<1>7. \A r, s \in new : r.seq = s.seq => r = s
  <2> SUFFICES ASSUME NEW r \in N, NEW s \in N, Seal(r).seq = Seal(s).seq
               PROVE  Seal(r) = Seal(s)
    OBVIOUS
  <2>1. r.n = s.n
    BY <1>1, <1>2, <1>4
  <2> QED BY <1>3, <2>1
<1>8. sealed' = sealed \cup new
  OBVIOUS
<1>9. FlightMsgs' = FlightMsgs
  BY DEF FlightMsgs, Msg, FlightSeq, HelloSeq
<1> HIDE DEF N, new
<1>10. sealed \cap new = {}
  BY <1>1, <1>6
<1>11. /\ IsFiniteSet(sealed \cup new)
       /\ Cardinality(sealed \cup new) = c + Cardinality(new) - Cardinality(sealed \cap new)
  BY <1>1, <1>5, FS_Union
<1>12. Cardinality(sealed \cap new) = 0 /\ Cardinality(new) \in Nat
  BY <1>5, <1>10, FS_EmptySet, FS_CardinalityType, Zenon
<1>13. IsFiniteSet(sealed') /\ Cardinality(sealed') = c + Cardinality(new)
  <2>1. c + Cardinality(new) - Cardinality(sealed \cap new) = c + Cardinality(new)
    BY <1>1, <1>12
  <2> HIDE DEF c
  <2> QED BY <1>8, <1>11, <2>1
<1>14. \A r \in sealed' : r.seq \in Nat /\ r.seq < Cardinality(sealed') /\ r.msgs \subseteq FlightMsgs'
  <2>1. \A r \in sealed : r.msgs \subseteq FlightMsgs
    BY DEF Sealing
  <2>2. \A r \in sealed : r.seq < c + Cardinality(new)
    BY <1>1, <1>12
  <2> QED BY <1>1, <1>6, <1>8, <1>9, <1>13, <2>1, <2>2
<1>15. \A r, s \in sealed' : r.seq = s.seq => r = s
  <2>1. \A r, s \in sealed : r.seq = s.seq => r = s
    BY DEF Sealing
  <2>2. \A r \in sealed, s \in new : r.seq # s.seq
    BY <1>1, <1>6
  <2> QED BY <1>7, <1>8, <2>1, <2>2
<1> QED BY <1>13, <1>14, <1>15 DEF Sealing

\* What one sending of the flight adds.
LEMMA FlightSent ==
    ASSUME cookie \in BOOLEAN, NEW layout \in Layouts, SendFlight(layout), IsFiniteSet(sealed)
    PROVE  /\ sealed' = sealed \cup {Seal(r) : r \in Numbered(layout)}
           /\ to_client \subseteq to_client'
           /\ \A d \in to_client' \ to_client :
                /\ d \in Seq(Record) /\ d # <<>> /\ Head(d).kind # "hrr"
                /\ Head(d).kind = "sh" => Head(d).msgs = {Msg("sh", HelloSeq)}
                /\ \A k \in 1..Len(d) : d[k].kind = "ep2" => d[k] \in sealed'
<1> DEFINE N == Numbered(layout)
           L(i) == Len(layout[i])
           sent == [i \in 1..Len(layout) |-> [j \in 1..L(i) |-> SealRecord(layout[i][j])]]
           new == {Seal(r) : r \in N}
<1>1. /\ to_client' = to_client \cup Range(sent)
      /\ sealed' = sealed \cup {r \in UNION {Range(sent[i]) : i \in 1..Len(sent)} : r.kind = "ep2"}
  BY DEF SendFlight
<1>2. /\ Len(layout) \in Nat
      /\ \A i \in 1..Len(layout) : L(i) \in Nat /\ L(i) > 0
  BY LayoutShape
<1>3. /\ DOMAIN sent = 1..Len(layout) /\ Len(sent) = Len(layout)
      /\ \A i \in 1..Len(layout) : sent[i] = [j \in 1..L(i) |-> SealRecord(layout[i][j])]
  BY <1>2
<1> HIDE DEF sent
<1>4. \A i \in 1..Len(layout) : /\ DOMAIN sent[i] = 1..L(i)
                                /\ \A j \in 1..L(i) : sent[i][j] = SealRecord(layout[i][j])
  BY <1>3
<1>5. \A r \in N : /\ Seal(r).kind = "ep2"
                   /\ \E i \in 1..Len(layout) : \E j \in 1..L(i) : r = layout[i][j]
  BY CellSealed DEF Seal, Rec
<1>6. \A i \in 1..Len(layout) : \A j \in 1..L(i) :
        IF layout[i][j].kind = "ep2"
        THEN layout[i][j] \in N /\ sent[i][j] = Seal(layout[i][j])
        ELSE sent[i][j] = Rec("sh", 0, {Msg("sh", HelloSeq)})
  <2> TAKE i \in 1..Len(layout)
  <2> TAKE j \in 1..L(i)
  <2>1. sent[i][j] = SealRecord(layout[i][j])
    BY <1>4
  <2>2. j \in 1..Len(layout[i])
    OBVIOUS
  <2>3. IF layout[i][j].kind = "ep2"
        THEN layout[i][j] \in N /\ SealRecord(layout[i][j]) = Seal(layout[i][j])
        ELSE SealRecord(layout[i][j]) = Rec("sh", 0, {Msg("sh", HelloSeq)})
    BY <2>2, CellSealed, Zenon
  <2> HIDE DEF N, L
  <2> QED BY <2>1, <2>3
<1> HIDE DEF N
<1>7. {r \in UNION {Range(sent[i]) : i \in 1..Len(sent)} : r.kind = "ep2"} = new
  <2>1. ASSUME NEW i \in 1..Len(layout), NEW r \in Range(sent[i]), r.kind = "ep2"
        PROVE  r \in new
    <3>1. PICK j \in 1..L(i) : r = sent[i][j]
      BY <1>4, <2>1 DEF Range
    <3>2. Rec("sh", 0, {Msg("sh", HelloSeq)}).kind = "sh"
      BY DEF Rec
    <3> QED BY <1>6, <2>1, <3>1, <3>2
  <2>2. ASSUME NEW r \in N
        PROVE  Seal(r) \in UNION {Range(sent[i]) : i \in 1..Len(sent)} /\ Seal(r).kind = "ep2"
    <3>1. PICK i \in 1..Len(layout) : \E j \in 1..L(i) : r = layout[i][j]
      BY <1>5
    <3>2. PICK j \in 1..L(i) : r = layout[i][j]
      BY <3>1
    <3>3. r.kind = "ep2"
      BY CellSealed DEF N
    <3>4. Seal(r) = sent[i][j]
      BY <1>6, <3>2, <3>3
    <3>5. Seal(r) \in Range(sent[i])
      BY <1>4, <3>4 DEF Range
    <3> QED BY <1>3, <1>5, <3>5
  <2> QED BY <1>3, <2>1, <2>2
<1>8. sealed' = sealed \cup new
  BY <1>1, <1>7
<1>9. ASSUME NEW d \in to_client' \ to_client
      PROVE  /\ d \in Seq(Record) /\ d # <<>> /\ Head(d).kind # "hrr"
             /\ Head(d).kind = "sh" => Head(d).msgs = {Msg("sh", HelloSeq)}
             /\ \A k \in 1..Len(d) : d[k].kind = "ep2" => d[k] \in sealed'
  <2>1. PICK i \in 1..Len(layout) : d = sent[i]
    BY <1>1, <1>3 DEF Range
  <2>2. /\ L(i) \in Nat /\ L(i) > 0 /\ DOMAIN d = 1..L(i)
        /\ d = [j \in 1..L(i) |-> SealRecord(layout[i][j])]
    BY <1>2, <1>3, <1>4, <2>1
  <2>3. \A j \in 1..L(i) : IF layout[i][j].kind = "ep2"
                           THEN layout[i][j] \in N /\ d[j] = Seal(layout[i][j])
                           ELSE d[j] = Rec("sh", 0, {Msg("sh", HelloSeq)})
    BY <1>6, <2>1, Zenon
  <2>4. HelloSeq \in Nat /\ \A n \in Messages : FlightSeq(n) \in Nat
    BY DEF HelloSeq, FlightSeq, Messages
  <2>5. Cardinality(sealed) \in Nat
    BY FS_CardinalityType
  <2>6. Rec("sh", 0, {Msg("sh", HelloSeq)}) \in Record
    BY <2>4 DEF Rec, Msg, Record
  <2>7. \A r \in N : Seal(r) \in Record
    <3> TAKE r \in N
    <3>1. r.n \in Nat /\ r.names \subseteq Messages
      BY CellSealed DEF N
    <3>2. {Msg(n, FlightSeq(n)) : n \in r.names} \subseteq [name : {"hrr", "sh", "ee", "auth", "fin"}, mseq : Nat]
      BY <2>4, <3>1 DEF Msg, Messages
    <3> QED BY <2>5, <3>1, <3>2 DEF Seal, Rec, Record
  <2>8. \A j \in 1..L(i) : d[j] \in Record
    BY <2>3, <2>6, <2>7
  <2>9. d \in Seq(Record) /\ Len(d) = L(i)
    <3>1. d \in [1..L(i) -> Record]
      BY <2>2, <2>8, Zenon
    <3> QED BY <2>2, <3>1
  <2>10. d # <<>> /\ Head(d) = d[1]
    BY <2>2, <2>9
  <2>11. d[1].kind # "hrr" /\ (d[1].kind = "sh" => d[1].msgs = {Msg("sh", HelloSeq)})
    BY <1>5, <2>2, <2>3 DEF Rec
  <2>12. \A k \in 1..L(i) : d[k].kind = "ep2" => d[k] \in new
    BY <2>3 DEF Rec
  <2> QED BY <1>8, <2>9, <2>10, <2>11, <2>12
<1> QED BY <1>1, <1>8, <1>9, SMTT(30) DEF N

-----------------------------------------------------------------------------
(* The steps.                                                              *)

\* A step that fails the handshake leaves all else alone.
LEMMA FailKeeps ==
    ASSUME HInv, NEW e, Fail(e), e \in {"Protocol", "Handshake", "CertVerify"} => pc \in {"wait1", "wait2"}
    PROVE  HInv'
<1>1. pc' = "failed" /\ error' = e /\ UNCHANGED <<local, to_server, to_client, server>>
  BY DEF Fail
<1>2. Hellos'
  <2>1. FlightNotAborted'
    BY <1>1, NoHelloYet, Zenon DEF HInv, Hellos, FlightNotAborted, local
  <2>2. FinishedAcceptable'
    BY <1>1, Zenon DEF HInv, Hellos, FinishedAcceptable, SrvAccepts, ServerHellos, server
  <2> QED BY <1>1, <2>1, <2>2, Zenon DEF HInv, Hellos, HellosAgree, Accepted, server
<1>3. Replies'
  BY <1>1 DEF HInv, Replies, Has, HelloSeq, server
<1>4. Sealing'
  BY <1>1, ZenonT(40) DEF HInv, Sealing, FlightMsgs, FlightSeq, HelloSeq, server
<1>5. Acking'
  BY <1>1 DEF HInv, Acking, local, server
<1> QED BY <1>2, <1>3, <1>4, <1>5 DEF HInv

\* A step that seals and delivers nothing, and only adds to what was sent.
LEMMA NetworkKeeps ==
    ASSUME HInv, UNCHANGED <<to_client, server>>, to_server \subseteq to_server'
    PROVE  Replies' /\ Sealing'
<1>1. Has("ch2") => Has("ch2")'
  BY DEF Has
<1>2. Replies'
  BY <1>1 DEF HInv, Replies, HelloSeq, server
<1>3. Sealing'
  BY ZenonT(40) DEF HInv, Sealing, FlightMsgs, FlightSeq, HelloSeq, server
<1> QED BY <1>2, <1>3

\* The server's answers do not depend on what else was sent.
LEMMA AcceptableKept ==
    ASSUME FinishedAcceptable, UNCHANGED cookie, NEW m,
           to_server' = to_server \cup {m}, m.name = "fin" => SrvAccepts(m)
    PROVE  FinishedAcceptable'
BY DEF FinishedAcceptable, SrvAccepts, ServerHellos

\* Sending a ClientHello, ch2 only from wait2 on.
LEMMA HelloKeeps ==
    ASSUME HInv, NEW ch \in {"ch1", "ch2"}, SendHello(ch),
           UNCHANGED <<error, transcript, base_seq, client_fin_msg_seq, reasm, acked_seqs, to_client, server>>,
           \/ pc = "start" /\ pc' = "wait1" /\ ch = "ch1"
           \/ pc = "wait1" /\ pc' = "wait1" /\ ch = "ch1"
           \/ pc \in {"wait2", "flight"} /\ pc' = pc
    PROVE  HInv'
<1>1. to_server' = to_server \cup {[name |-> ch]}
  BY DEF SendHello
<1>2. Replies' /\ Sealing'
  BY <1>1, NetworkKeeps
<1>3. Acking'
  BY DEF HInv, Acking, server
<1>4. Hellos'
  <2>1. [name |-> ch].name = ch /\ ch # "fin"
    OBVIOUS
  <2>2. FinishedAcceptable'
    BY <1>1, <2>1, AcceptableKept, Zenon DEF HInv, Hellos, server
  <2>3. ~Has("ch2") /\ ch = "ch1" => ~Has("ch2")'
    BY <1>1, <2>1 DEF Has
  <2>4. FlightNotAborted'
    BY Zenon DEF HInv, Hellos, FlightNotAborted
  <2>5. HellosAgree'
    BY Zenon DEF HInv, Hellos, HellosAgree, Accepted, ServerHellos, server
  <2>6. Accepted' => client_fin_msg_seq' = (IF cookie' THEN 2 ELSE 1) /\ base_seq' = HelloSeq' + 1
    BY Zenon DEF HInv, Hellos, Accepted, HelloSeq, server
  <2> QED BY <2>2, <2>3, <2>4, <2>5, <2>6, Zenon DEF HInv, Hellos, server
<1> QED BY <1>2, <1>3, <1>4 DEF HInv

\* A HelloRetryRequest.
LEMMA RetryKeeps ==
    ASSUME HInv, NEW d \in to_client, Retry(d)
    PROVE  HInv'
<1>1. /\ pc = "wait1" /\ Head(d).kind = "hrr" /\ pc' = "wait2"
      /\ transcript' = <<"message_hash", "hrr">> /\ to_server' = to_server \cup {[name |-> "ch2"]}
      /\ UNCHANGED <<error, base_seq, client_fin_msg_seq, reasm, acked_seqs, to_client, server>>
  BY DEF Retry, SendHello
<1>2. Replies' /\ Sealing'
  BY <1>1, NetworkKeeps
<1>3. Acking'
  BY <1>1 DEF HInv, Acking, server
<1>4. Hellos'
  <2>1. [name |-> "ch2"].name # "fin"
    OBVIOUS
  <2>2. FinishedAcceptable'
    BY <1>1, <2>1, AcceptableKept, Zenon DEF HInv, Hellos, server
  <2>3. cookie
    BY <1>1 DEF HInv, Replies
  <2>4. error' = "" /\ cookie' = cookie
    BY <1>1, Zenon DEF HInv, Hellos, server
  <2>5. FlightNotAborted'
    BY <2>4, Zenon DEF FlightNotAborted
  <2> QED BY <1>1, <2>2, <2>3, <2>4, <2>5, Zenon DEF HInv, Hellos, HellosAgree, Accepted
<1> QED BY <1>2, <1>3, <1>4 DEF HInv

\* A ServerHello, with what follows it in its datagram.
LEMMA AcceptKeeps ==
    ASSUME HInv, NEW d \in to_client, AcceptHello(d)
    PROVE  HInv'
<1>1. /\ pc \in {"wait1", "wait2"} /\ Head(d).kind = "sh" /\ pc' = "flight"
      /\ transcript' = Append(Append(transcript, Awaited), "sh")
      /\ client_fin_msg_seq' = IF pc = "wait1" THEN 1 ELSE 2
      /\ base_seq' = (CHOOSE m \in Head(d).msgs : TRUE).mseq + 1
      /\ Feed(Tail(d), transcript', {}, 0, {})
      /\ UNCHANGED <<error, to_server, to_client, server>>
  BY DEF AcceptHello
<1>2. Replies' /\ Sealing'
  BY <1>1, NetworkKeeps
<1>3. Acking'
  <2>1. d \in Seq(Record) /\ d # <<>> /\ \A k \in 1..Len(d) : d[k].kind = "ep2" => d[k] \in sealed
    BY DEF HInv, Replies
  <2>2. /\ Len(Tail(d)) \in Nat
        /\ \A k \in 1..Len(Tail(d)) : Tail(d)[k].kind = "ep2" => Tail(d)[k] \in sealed
    BY <2>1, TailOf
  <2>3. Sealing /\ UNCHANGED sealed
    BY <1>1 DEF HInv, server
  <2>4. PICK t : t = Tail(d)
    BY Zenon
  <2>5. PICK none : none = {}
    BY Zenon
  <2>6. Feed(t, transcript', none, 0, none)
    BY <1>1, <2>4, <2>5
  <2>7. Len(t) \in Nat /\ \A k \in 1..Len(t) : t[k].kind = "ep2" => t[k] \in sealed
    BY <2>2, <2>4
  <2>8. /\ \A s \in none : \E r \in sealed : r.seq = s /\ r.msgs \subseteq none
        /\ \A m \in none : \E r \in sealed : m \in r.msgs /\ (r.seq \in none \/ r.seq >= MAX_ACK_RECORDS)
    BY <2>5
  <2> QED BY <2>3, <2>6, <2>7, <2>8, FeedAcks, SMTT(30)
<1>4. Hellos'
  <2>1. pc = "wait1" => ~cookie
    BY <1>1, Zenon DEF HInv, Hellos, Replies
  <2>2. cookie' = cookie /\ cookie \in BOOLEAN /\ error' = ""
    BY <1>1, Zenon DEF HInv, Hellos, server
  <2>3. pc = "wait2" => cookie
    BY Zenon DEF HInv, Hellos
  <2>4. transcript' = ServerHellos
    <3>1. CASE pc = "wait1"
      <4>1. transcript = <<>> /\ Awaited = "ch1" /\ ServerHellos = <<"ch1", "sh">>
        BY <2>1, <3>1, Zenon DEF HInv, Hellos, Awaited, ServerHellos
      <4> QED BY <1>1, <4>1, HellosHashed
    <3>2. CASE pc = "wait2"
      <4>1. /\ transcript = <<"message_hash", "hrr">> /\ Awaited = "ch2"
            /\ ServerHellos = <<"message_hash", "hrr", "ch2", "sh">>
        BY <2>3, <3>2, Zenon DEF HInv, Hellos, Awaited, ServerHellos
      <4> QED BY <1>1, <4>1, HellosHashed
    <3> QED BY <1>1, <3>1, <3>2
  <2>5. HellosAgree'
    <3>1. ServerHellos' = ServerHellos
      BY <2>2, Zenon DEF ServerHellos
    <3>2. ServerHellos \o <<>> = ServerHellos
      BY DEF ServerHellos
    <3> QED BY <1>1, <2>4, <3>1, <3>2 DEF HellosAgree
  <2>6. base_seq' = HelloSeq' + 1
    <3>1. Head(d).msgs = {Msg("sh", HelloSeq)}
      BY <1>1, Zenon DEF HInv, Replies
    <3>2. (CHOOSE m \in Head(d).msgs : TRUE) = Msg("sh", HelloSeq)
      BY <3>1
    <3>3. HelloSeq' = HelloSeq
      BY <2>2, Zenon DEF HelloSeq
    <3>4. Msg("sh", HelloSeq).mseq = HelloSeq
      BY DEF Msg
    <3>5. base_seq' = (CHOOSE m \in Head(d).msgs : TRUE).mseq + 1
      BY <1>1
    <3> QED BY <3>2, <3>3, <3>4, <3>5, Zenon
  <2>7. client_fin_msg_seq' = (IF cookie' THEN 2 ELSE 1)
    BY <1>1, <2>1, <2>2, <2>3, Zenon
  <2>8. FinishedAcceptable'
    BY <1>1, <2>2, Zenon DEF HInv, Hellos, FinishedAcceptable, SrvAccepts, ServerHellos
  <2>9. FlightNotAborted'
    BY <2>2, Zenon DEF FlightNotAborted
  <2> QED BY <1>1, <2>2, <2>5, <2>6, <2>7, <2>8, <2>9, Zenon DEF Hellos
<1> QED BY <1>2, <1>3, <1>4 DEF HInv

\* A datagram of the flight.
LEMMA DatagramKeeps ==
    ASSUME HInv, NEW d \in to_client, FlightDatagram(d)
    PROVE  HInv'
<1>1. /\ Feed(IF Head(d).kind = "ep2" THEN d ELSE Tail(d), transcript, reasm, srv_seq, acked_seqs)
      /\ UNCHANGED <<pc, error, transcript, base_seq, client_fin_msg_seq, to_server, to_client, server>>
  BY DEF FlightDatagram
<1>2. Replies' /\ Sealing'
  BY <1>1, NetworkKeeps
<1>3. Acking'
  <2>1. d \in Seq(Record) /\ d # <<>> /\ \A k \in 1..Len(d) : d[k].kind = "ep2" => d[k] \in sealed
    BY DEF HInv, Replies
  <2> DEFINE e == IF Head(d).kind = "ep2" THEN d ELSE Tail(d)
  <2>2. Len(e) \in Nat /\ \A k \in 1..Len(e) : e[k].kind = "ep2" => e[k] \in sealed
    BY <2>1, TailOf
  <2>3. Sealing /\ UNCHANGED sealed
    BY <1>1 DEF HInv, server
  <2>4. /\ \A s \in acked_seqs : \E r \in sealed : r.seq = s /\ r.msgs \subseteq reasm
        /\ \A m \in reasm : \E r \in sealed :
             m \in r.msgs /\ (r.seq \in acked_seqs \/ r.seq >= MAX_ACK_RECORDS)
    BY DEF HInv, Acking
  <2>5. Feed(e, transcript, reasm, srv_seq, acked_seqs)
    BY <1>1
  <2> HIDE DEF e
  <2> QED BY <2>2, <2>3, <2>4, <2>5, FeedAcks
<1>4. Hellos'
  <2>1. FinishedAcceptable' /\ FlightNotAborted' /\ HellosAgree'
    BY <1>1, Zenon DEF HInv, Hellos, FinishedAcceptable, SrvAccepts, ServerHellos, FlightNotAborted,
                HellosAgree, Accepted, server
  <2> QED BY <1>1, <2>1, Zenon DEF HInv, Hellos, Accepted, Has, HelloSeq, server
<1> QED BY <1>2, <1>3, <1>4 DEF HInv

\* The checks on the whole flight.
LEMMA VerifyKeeps ==
    ASSUME HInv, NEW trusted, VerifyFlight(trusted)
    PROVE  HInv'
<1>1. pc = "flight" /\ flight_complete
  BY DEF VerifyFlight
<1>2. cookie \in BOOLEAN /\ base_seq = HelloSeq + 1 /\ transcript = ServerHellos
  <2>1. cookie \in BOOLEAN /\ base_seq = HelloSeq + 1 /\ transcript = ServerHellos \o <<>>
    BY <1>1, Zenon DEF HInv, Hellos, HellosAgree, Accepted
  <2>2. ServerHellos \o <<>> = ServerHellos
    BY DEF ServerHellos
  <2> QED BY <2>1, <2>2
<1>3. reasm \subseteq FlightMsgs
  BY DEF HInv, Acking, Sealing
<1>4. {m.name : m \in reasm} = Messages
  BY <1>1, <1>2, <1>3, WholeFlight
<1>5. CASE Fail("StrategyRejected")
  BY <1>5, FailKeeps
<1>6. CASE ~Fail("StrategyRejected")
  <2>1. /\ pc' = "finish" /\ transcript' = transcript \o <<"ee", "auth", "fin">>
        /\ UNCHANGED <<error, base_seq, client_fin_msg_seq, reasm, acked_seqs, to_server, to_client, server>>
    BY <1>2, <1>4, <1>6 DEF VerifyFlight
  <2>2. Replies' /\ Sealing'
    BY <2>1, NetworkKeeps
  <2>3. Acking'
    BY <2>1 DEF HInv, Acking, server
  <2>4. ServerHellos' = ServerHellos /\ HelloSeq' = HelloSeq /\ cookie' = cookie /\ error' = ""
    BY <1>1, <2>1, Zenon DEF ServerHellos, HelloSeq, server, HInv, Hellos
  <2>5. HellosAgree'
    BY <1>2, <2>1, <2>4, Zenon DEF HellosAgree
  <2>6. FinishedAcceptable' /\ FlightNotAborted'
    BY <2>1, <2>4, Zenon DEF HInv, Hellos, FinishedAcceptable, SrvAccepts, FlightNotAborted
  <2>7. client_fin_msg_seq' = (IF cookie' THEN 2 ELSE 1) /\ base_seq' = HelloSeq' + 1
    BY <1>1, <2>1, <2>4, Zenon DEF HInv, Hellos, Accepted
  <2>8. Hellos'
    BY <1>2, <2>1, <2>4, <2>5, <2>6, <2>7, Zenon DEF Hellos
  <2> QED BY <2>2, <2>3, <2>8, SMTT(30) DEF HInv
<1> QED BY <1>5, <1>6

\* The client Finished and the ACK.
LEMMA SendKeeps ==
    ASSUME HInv, SendFinished \/ SendAck
    PROVE  HInv'
<1> DEFINE fin == [name |-> "fin", mseq |-> client_fin_msg_seq, transcript |-> transcript]
           ack == [name |-> "ack", seqs |-> acked_seqs]
<1>1. /\ pc \in {"finish", "ack"} /\ pc' \in {"ack", "done"}
      /\ (pc = "finish" /\ to_server' = to_server \cup {fin}) \/ to_server' = to_server \cup {ack}
      /\ UNCHANGED <<error, local, to_client, server>>
  BY DEF SendFinished, SendAck
<1>2. UNCHANGED <<error, transcript, base_seq, client_fin_msg_seq, reasm, acked_seqs, cookie, sealed>>
  BY <1>1 DEF local, server
<1>3. Replies' /\ Sealing'
  BY <1>1, NetworkKeeps
<1>4. Acking'
  BY <1>2 DEF HInv, Acking
<1>5. ServerHellos' = ServerHellos /\ HelloSeq' = HelloSeq
  BY <1>2, SMTT(30) DEF ServerHellos, HelloSeq
<1>6. /\ transcript = ServerHellos \o <<"ee", "auth", "fin">>
      /\ client_fin_msg_seq = (IF cookie THEN 2 ELSE 1) /\ base_seq = HelloSeq + 1
      /\ error = "" /\ cookie \in BOOLEAN /\ FinishedAcceptable
  BY <1>1, Zenon DEF HInv, Hellos, HellosAgree, Accepted
<1>7. FinishedAcceptable'
  <2>1. SrvAccepts(fin) /\ ack.name # "fin"
    BY <1>6, Zenon DEF SrvAccepts
  <2> HIDE DEF fin, ack
  <2> QED BY <1>1, <1>2, <1>6, <2>1, AcceptableKept, Zenon
<1>8. HellosAgree' /\ FlightNotAborted'
  BY <1>1, <1>2, <1>5, <1>6, Zenon DEF HellosAgree, FlightNotAborted
<1>9. Hellos'
  BY <1>1, <1>2, <1>5, <1>6, <1>7, <1>8, Zenon DEF Hellos
<1> QED BY <1>3, <1>4, <1>9, SMTT(30) DEF HInv

\* The server's steps.
LEMMA ServerKeeps ==
    ASSUME HInv, Server
    PROVE  HInv'
<1>1. /\ UNCHANGED <<pc, error, transcript, base_seq, client_fin_msg_seq, reasm, acked_seqs, to_server, cookie>>
      /\ cookie \in BOOLEAN /\ IsFiniteSet(sealed)
  BY Zenon DEF Server, SrvRetry, SrvFlight, SendFlight, SrvFinished, local, server, HInv, Hellos, Sealing
<1>2. ServerHellos' = ServerHellos /\ HelloSeq' = HelloSeq /\ (Has("ch2")' <=> Has("ch2"))
  BY <1>1 DEF ServerHellos, HelloSeq, Has
<1>3. Hellos'
  <2>1. FinishedAcceptable' /\ FlightNotAborted' /\ HellosAgree'
    BY <1>1, <1>2, Zenon DEF HInv, Hellos, FinishedAcceptable, SrvAccepts, FlightNotAborted, HellosAgree, Accepted
  <2> QED BY <1>1, <1>2, <2>1, Zenon DEF HInv, Hellos, Accepted
<1>4. CASE SrvRetry
  <2> DEFINE hrr == <<Rec("hrr", 0, {Msg("hrr", 0)})>>
  <2>1. cookie /\ to_client' = to_client \cup {hrr} /\ UNCHANGED sealed
    BY <1>4 DEF SrvRetry, server
  <2>2. Rec("hrr", 0, {Msg("hrr", 0)}) \in Record
    BY DEF Rec, Msg, Record
  <2>3. /\ hrr \in Seq(Record) /\ hrr # <<>> /\ Head(hrr).kind = "hrr"
        /\ \A k \in 1..Len(hrr) : hrr[k].kind # "ep2"
    BY <2>2, SMTT(30) DEF Rec
  <2> HIDE DEF hrr
  <2>4. Replies'
    BY <1>1, <1>2, <2>1, <2>3 DEF HInv, Replies, Msg
  <2>5. Sealing'
    BY <1>1, <1>2, <2>1, ZenonT(40) DEF HInv, Sealing, FlightMsgs, FlightSeq
  <2>6. Acking'
    BY <1>1, <2>1 DEF HInv, Acking
  <2> QED BY <1>3, <2>4, <2>5, <2>6 DEF HInv
<1>5. CASE \E layout \in Layouts : SrvFlight(layout)
  <2>1. PICK layout \in Layouts : SrvFlight(layout)
    BY <1>5
  <2>2. SendFlight(layout) /\ (cookie => Has("ch2"))
    BY <2>1 DEF SrvFlight
  <2>3. /\ sealed' = sealed \cup {Seal(r) : r \in Numbered(layout)}
        /\ to_client \subseteq to_client'
        /\ \A d \in to_client' \ to_client :
             /\ d \in Seq(Record) /\ d # <<>> /\ Head(d).kind # "hrr"
             /\ Head(d).kind = "sh" => Head(d).msgs = {Msg("sh", HelloSeq)}
             /\ \A k \in 1..Len(d) : d[k].kind = "ep2" => d[k] \in sealed'
    BY <1>1, <2>2, FlightSent, SMTT(30)
  <2>4. Sealing'
    BY <1>1, <2>3, SealingNext, SMTT(30) DEF HInv
  <2>5. Replies'
    BY <1>1, <1>2, <2>2, <2>3, SMTT(30) DEF HInv, Replies, Msg
  <2>6. Acking'
    BY <1>1, <2>3 DEF HInv, Acking
  <2> QED BY <1>3, <2>4, <2>5, <2>6 DEF HInv
<1>6. CASE SrvFinished
  <2>1. UNCHANGED <<to_client, sealed>>
    BY <1>6, SMTT(30) DEF SrvFinished
  <2>2. Replies'
    BY <1>1, <1>2, <2>1 DEF HInv, Replies, Msg
  <2>3. Sealing'
    BY <1>1, <1>2, <2>1, ZenonT(40) DEF HInv, Sealing, FlightMsgs, FlightSeq
  <2>4. Acking'
    BY <1>1, <2>1 DEF HInv, Acking
  <2> QED BY <1>3, <2>2, <2>3, <2>4 DEF HInv
<1> QED BY <1>4, <1>5, <1>6, SMTT(30) DEF Server

-----------------------------------------------------------------------------
(* The invariant and what follows from it.                                 *)

\* The start of connect.
LEMMA InitHInv == ASSUME Init PROVE HInv
<1>1. /\ pc = "start" /\ error = "" /\ transcript = <<>> /\ reasm = {} /\ acked_seqs = {}
      /\ to_server = {} /\ to_client = {} /\ cookie \in BOOLEAN /\ sealed = {}
  BY Zenon DEF Init
<1>2. Hellos
  BY <1>1, Zenon DEF Hellos, HellosAgree, Accepted, FinishedAcceptable, FlightNotAborted, Has
<1>3. Sealing
  BY <1>1, FS_EmptySet, Zenon DEF Sealing
<1> QED BY <1>1, <1>2, <1>3, Zenon DEF HInv, Replies, Acking

\* Every step keeps the invariant.
LEMMA NextHInv == ASSUME HInv, [Next]_vars PROVE HInv'
<1>1. CASE Receive
  <2>1. CASE ReplyTimeout
    <3>1. CASE Fail("Timeout")
      BY <3>1, FailKeeps
    <3>2. CASE ~Fail("Timeout")
      BY <2>1, <3>2, HelloKeeps, SMTT(30) DEF ReplyTimeout, Awaited
    <3> QED BY <3>1, <3>2
  <2>2. CASE FlightTimeout
    <3>1. CASE Fail("Timeout")
      BY <3>1, FailKeeps
    <3>2. CASE ~Fail("Timeout")
      <4>1. PICK ch \in {"ch1", "ch2"} : ch = IF client_fin_msg_seq = 1 THEN "ch1" ELSE "ch2"
        OBVIOUS
      <4> QED BY <2>2, <3>2, <4>1, HelloKeeps DEF FlightTimeout, InFlight
    <3> QED BY <3>1, <3>2
  <2>3. ASSUME NEW d \in to_client, Reply(d) PROVE HInv'
    <3>1. CASE BadReply(d)
      BY <3>1, FailKeeps DEF BadReply
    <3> QED BY <2>3, <3>1, RetryKeeps, AcceptKeeps DEF Reply
  <2> QED BY <1>1, <2>1, <2>2, <2>3, DatagramKeeps DEF Receive
<1>2. CASE Proceed
  <2>1. CASE Connect
    BY <2>1, HelloKeeps DEF Connect
  <2>2. CASE TooManyDatagrams \/ TransportFails
    BY <2>2, FailKeeps DEF TooManyDatagrams, TransportFails
  <2> QED BY <1>2, <2>1, <2>2, SendKeeps, VerifyKeeps, SMTT(30) DEF Proceed
<1>3. CASE UNCHANGED vars
  <2>1. /\ UNCHANGED <<pc, error, to_server, to_client>>
        /\ UNCHANGED <<transcript, base_seq, client_fin_msg_seq, reasm, acked_seqs, cookie, sealed>>
    BY <1>3 DEF vars, local, server
  <2>2. HelloSeq' = HelloSeq /\ ServerHellos' = ServerHellos
    BY <2>1, SMTT(30) DEF HelloSeq, ServerHellos
  <2>3. Hellos'
    BY <2>1, <2>2, ZenonT(40) DEF HInv, Hellos, HellosAgree, Accepted, FinishedAcceptable, SrvAccepts, FlightNotAborted, Has
  <2>4. Replies'
    BY <2>1, <2>2, Zenon DEF HInv, Replies, Msg, Has
  <2>5. Sealing'
    <3>1. sealed' = sealed /\ FlightMsgs' = FlightMsgs
      BY <2>1, <2>2, Zenon DEF FlightMsgs, FlightSeq, Msg
    <3> QED BY <3>1, Zenon DEF HInv, Sealing
  <2>6. Acking'
    BY <2>1 DEF HInv, Acking
  <2> QED BY <2>3, <2>4, <2>5, <2>6, SMTT(30) DEF HInv
<1> QED BY <1>1, <1>2, <1>3, ServerKeeps DEF Next, Client, Returned

\* The invariant holds throughout.
THEOREM HandshakeInvariance == Spec => []HInv
<1>1. Init => HInv
  BY InitHInv
<1>2. HInv /\ [Next]_vars => HInv'
  BY NextHInv
<1> QED BY <1>1, <1>2, PTL DEF Spec

\* Once connect has taken a ServerHello both sides have hashed the same hellos,
\* with and without a HelloRetryRequest (dtls/client.rs 240-385).
THEOREM TranscriptsAgree == Spec => []HellosAgree
<1>1. HInv => HellosAgree
  BY Zenon DEF HInv, Hellos
<1> QED BY <1>1, HandshakeInvariance, PTL

\* The server can use every client Finished that is sent: the right
\* message_seq over the right transcript (dtls/client.rs 497-526).
THEOREM FinishedUsable == Spec => []FinishedAcceptable
<1>1. HInv => FinishedAcceptable
  BY Zenon DEF HInv, Hellos
<1> QED BY <1>1, HandshakeInvariance, PTL

\* The ACK names exactly the records that were taken, by the numbers the
\* server gave them (dtls/client.rs 822-829 and 528-577).
THEOREM AckStaysExact == Spec => []AckExact
<1>1. HInv => AckExact
  <2> SUFFICES ASSUME HInv PROVE AckExact
    OBVIOUS
  <2>1. ASSUME NEW r \in sealed, r.seq \in acked_seqs PROVE r.msgs \subseteq reasm
    <3>1. PICK s \in sealed : s.seq = r.seq /\ s.msgs \subseteq reasm
      BY <2>1 DEF HInv, Acking
    <3> QED BY <3>1 DEF HInv, Sealing
  <2> QED BY <2>1 DEF HInv, Acking, AckExact
<1> QED BY <1>1, HandshakeInvariance, PTL

\* Behind the ServerHello an honest server's handshake is not aborted by what
\* the network repeats or reorders (dtls/client.rs 411-495).
THEOREM AcceptedNotAborted == Spec => []FlightNotAborted
<1>1. HInv => FlightNotAborted
  BY Zenon DEF HInv, Hellos
<1> QED BY <1>1, HandshakeInvariance, PTL
====
