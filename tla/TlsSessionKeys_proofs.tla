------------------------ MODULE TlsSessionKeys_proofs ------------------------
(***************************************************************************)
(* Proofs about the session, first part: the shapes of the state, the life *)
(* of a session, and that in both directions the records are the ones the  *)
(* receiver's keys and counters expect next, step by step.                 *)
(***************************************************************************)
EXTENDS TlsSession, Joining_proofs, TLAPS

\* What bodies and streams are made of.
Words == STRING \cup Tokens \cup {"last", "good", "forged"}

MsgKinds == {"sh", "ccs", "flight", "fin", "app", "hs", "close", "ku", "alert", "damaged"}

Msg == [kind: MsgKinds, gen: Nat, seq: Nat, body: Seq(Words)]

\* Shapes of the variables that the arguments need.
Types ==
    /\ pend \in Seq(Msg) /\ wire \in Seq(Msg) /\ s2c \in Seq(Msg)
    /\ parked \in Seq(Words) /\ todo \in Seq(Words)
    /\ down \in Seq(Words) /\ got_down \in Seq(Words)
    /\ up \in Seq(Words) /\ got_up \in Seq(Words)
    /\ send_gen \in Nat /\ seq_out \in Nat /\ recv_gen \in Nat /\ seq_in \in Nat
    /\ srv_gen \in Nat /\ srv_seq \in Nat /\ srv_rgen \in Nat /\ srv_rseq \in Nat
    /\ srv_pos \in Nat /\ fails \in Nat /\ bad \in Nat /\ requests \in Nat
    /\ state \in {"WaitServerHello", "WaitFlight", "App", "Closed"}
    /\ ended \in BOOLEAN

\* The client's Finished is among the records w.
FinishedOn(w) == \E i \in 1..Len(w) : LastOfFlight(w[i])

\* Where the engine stands in the life of a session: before the server's
\* flight is verified nothing has been sealed; connect runs until the final
\* flight is out; an engine in the Closed state is closed for good.
Lifecycle ==
    /\ state \in {"WaitServerHello", "WaitFlight"} =>
         /\ call \in {"connect", "gone"} /\ ~closed /\ ~hs_done
         /\ pend = <<>> /\ wire = <<>> /\ parked = <<>>
         /\ send_gen = 0 /\ seq_out = 0 /\ recv_gen = 0
    /\ state = "App" /\ call = "connect" =>
         /\ hs_done /\ ~closed
         /\ fin_unsent <=> pend # <<>>
    /\ state = "App" =>
         \/ /\ call = "connect" /\ fin_unsent /\ pend # <<>> /\ LastOfFlight(pend[Len(pend)])
         \/ FinishedOn(wire)
    /\ state = "Closed" => closed /\ pend = <<>>
    /\ torn => state = "Closed"
    /\ pend # <<>> => call \notin {"idle", "gone"}

-----------------------------------------------------------------------------
(* Records in the order of their keys.  What a receiver expects next is a  *)
(* key generation, a record number, the phase of the session and the piece *)
(* of a post-handshake message that waits for its rest.                    *)

Key(gen, seq, phase, stage) == [gen |-> gen, seq |-> seq, phase |-> phase, stage |-> stage]

\* The record is the last one under its keys.
Rotates(r) ==
    \/ r.kind = "ku"
    \/ r.kind = "fin" /\ r.body # <<>>
    \/ r.kind = "hs" /\ LastOf(r.body) \in {"K2r", "K2n"}

PhaseOf(r) == CASE r.kind = "sh" -> "start"
                [] r.kind \in {"ccs", "flight", "fin"} -> "hello"
                [] OTHER -> "data"

\* What is expected after the record r.
After(r) ==
    Key(IF Rotates(r) THEN r.gen + 1 ELSE r.gen,
        IF Rotates(r) THEN 0 ELSE IF r.kind \in {"sh", "ccs"} THEN r.seq ELSE r.seq + 1,
        CASE r.kind \in {"sh", "ccs", "flight"} -> "hello"
          [] r.kind = "fin" -> IF r.body = <<>> THEN "hello" ELSE "data"
          [] r.kind = "close" -> "closed"
          [] OTHER -> "data",
        IF r.kind = "hs" THEN Staged(LastOf(r.body)) ELSE "")

\* r is a record that may come where k is expected.
Fits(k, r) ==
    /\ r.gen = k.gen /\ r.seq = k.seq /\ PhaseOf(r) = k.phase
    /\ r.kind # "hs" => k.stage = ""

\* Every record of w comes where it is expected, the first one where k is.
Chained(k, w) ==
    /\ w # <<>> => Fits(k, w[1])
    /\ \A i \in 1..(Len(w) - 1) : Fits(After(w[i]), w[i + 1])

\* What is expected after the records w.
Expected(k, w) == IF w = <<>> THEN k ELSE After(w[Len(w)])

-----------------------------------------------------------------------------
(* The client's records.                                                   *)

Sent == wire \o pend

FirstKey == Key(0, 0, "hello", "")

ClientRecord(r) ==
    /\ r.kind \in {"fin", "app", "ku", "close"}
    /\ r.kind = "fin" => r.body \in {<<>>, <<"last">>}

\* What the server's own count of the records it has read comes to.
ServerExpects == IF srv_pos = 0 THEN FirstKey ELSE After(wire[srv_pos])

\* The records on the wire and the pending ones form one chain, which ends at
\* the keys the engine seals its next record with; the server is at a place
\* of that chain and has met no record it did not expect.
SendChain ==
    /\ \A i \in 1..Len(Sent) : ClientRecord(Sent[i])
    /\ Chained(FirstKey, Sent)
    /\ ~closed => Expected(FirstKey, Sent)
                    = Key(send_gen, seq_out, IF state = "App" THEN "data" ELSE "hello", "")
    /\ srv_pos <= Len(wire)
    /\ srv_rgen = ServerExpects.gen /\ srv_rseq = ServerExpects.seq
    /\ ~desync

-----------------------------------------------------------------------------
(* The server's records.                                                   *)

ClientPhase == CASE state = "WaitServerHello" -> "start"
                 [] state = "WaitFlight" -> "hello"
                 [] OTHER -> "data"

\* What the engine's receive keys and its state are ready for.
ClientExpects == Key(recv_gen, seq_in, ClientPhase, ph)

ServerRecord(r) ==
    /\ r.kind \in {"sh", "ccs", "flight", "fin", "app", "hs", "close"}
    /\ r.kind = "fin" => r.body = <<"good">>
    /\ r.kind = "flight" => r.body = <<>>

\* While the server keeps to the protocol and the engine is open, the records
\* under way form a chain from what the client expects to what the server
\* sends next.
RecvChain ==
    /\ srv \in {"start", "hello"} => srv_gen = 0 /\ srv_stage = ""
    /\ bad = 0 =>
         /\ result # "err"
         /\ \A i \in 1..Len(s2c) : ServerRecord(s2c[i])
         /\ ~closed =>
              /\ Chained(ClientExpects, s2c)
              /\ Expected(ClientExpects, s2c) = Key(srv_gen, srv_seq, srv, srv_stage)

-----------------------------------------------------------------------------
(* The application's data.                                                 *)

\* Everything write_all took is on the wire or pending, as long as no call
\* has failed or the engine is open; so is an answer to every KeyUpdate
\* request.  The server has read what the records up to its place carry.
UpFlow ==
    /\ \E rest \in Seq(Words) : up = AppItems(Sent) \o rest
    /\ (fails = 0 \/ ~closed) =>
         AppItems(Sent) = up /\ Cardinality(KeyUpdates(Sent)) = requests
    /\ got_up = AppItems(SubSeq(wire, 1, srv_pos))

\* The client has read a prefix of what the server wrote; as long as the engine
\* is open, and after the server's close_notify, nothing is missing.
DownFlow ==
    /\ \E rest \in Seq(Words) : down = (got_down \o parked) \o rest
    /\ (~closed \/ peer_closed) => down = (got_down \o parked) \o AppItems(s2c)
    /\ \A i \in 1..Len(s2c) : s2c[i].kind = "close" => i = Len(s2c) /\ srv = "closed"
    /\ peer_closed => closed /\ srv = "closed" /\ s2c = <<>>
    /\ ended => peer_closed

SInv == Types /\ Lifecycle /\ SendChain /\ RecvChain /\ UpFlow /\ DownFlow

-----------------------------------------------------------------------------
(* Lemmas about chains.                                                    *)

\* A chain grows by a record that fits its end.
LEMMA ChainAppend ==
    ASSUME NEW w \in Seq(Msg), NEW r \in Msg, NEW k, Chained(k, w), Fits(Expected(k, w), r)
    PROVE  Chained(k, Append(w, r)) /\ Expected(k, Append(w, r)) = After(r)
<1> DEFINE v == Append(w, r)
<1>1. /\ Len(w) \in Nat /\ Len(v) = Len(w) + 1 /\ v[Len(w) + 1] = r /\ v # <<>>
      /\ \A i \in 1..Len(w) : v[i] = w[i]
  OBVIOUS
<1> HIDE DEF v
<1>2. Expected(k, v) = After(r)
  BY <1>1 DEF Expected
<1>3. CASE w = <<>>
  <2>1. Len(w) = 0 /\ Fits(k, r)
    BY <1>3 DEF Expected
  <2> QED BY <1>1, <1>2, <2>1 DEF Chained, v
<1>4. CASE w # <<>>
  <2>1. Len(w) >= 1 /\ Fits(k, w[1]) /\ Fits(After(w[Len(w)]), r)
    BY <1>4 DEF Expected, Chained
  <2>2. ASSUME NEW i \in 1..(Len(v) - 1) PROVE Fits(After(v[i]), v[i + 1])
    <3>1. CASE i = Len(w)
      BY <1>1, <2>1, <3>1
    <3>2. CASE i # Len(w)
      <4>1. i \in 1..(Len(w) - 1) /\ i \in 1..Len(w) /\ i + 1 \in 1..Len(w)
        BY <1>1, <3>2
      <4> QED BY <1>1, <4>1 DEF Chained
    <3> QED BY <3>1, <3>2
  <2>3. Fits(k, v[1])
    BY <1>1, <2>1
  <2> QED BY <1>2, <2>2, <2>3 DEF Chained, v
<1> QED BY <1>3, <1>4

\* A prefix of a chain is a chain.
LEMMA ChainPrefix ==
    ASSUME NEW w \in Seq(Msg), NEW k, Chained(k, w), NEW n \in 0..Len(w)
    PROVE  Chained(k, SubSeq(w, 1, n))
<1> DEFINE v == SubSeq(w, 1, n)
<1>1. Len(v) = n /\ \A i \in 1..n : v[i] = w[i]
  OBVIOUS
<1>2. v # <<>> => n >= 1 /\ w # <<>>
  BY <1>1
<1> HIDE DEF v
<1>3. v # <<>> => Fits(k, v[1])
  BY <1>1, <1>2 DEF Chained
<1>4. ASSUME NEW i \in 1..(Len(v) - 1) PROVE Fits(After(v[i]), v[i + 1])
  <2>1. i \in 1..n /\ i + 1 \in 1..n /\ i \in 1..(Len(w) - 1)
    BY <1>1
  <2> QED BY <1>1, <2>1 DEF Chained
<1> QED BY <1>3, <1>4 DEF Chained, v

\* The rest of a chain is a chain from what is expected after its first record.
LEMMA ChainTail ==
    ASSUME NEW w \in Seq(Msg), NEW k, Chained(k, w), w # <<>>
    PROVE  /\ Fits(k, Head(w))
           /\ Chained(After(Head(w)), Tail(w))
           /\ Expected(After(Head(w)), Tail(w)) = Expected(k, w)
<1> DEFINE v == Tail(w)
<1>1. /\ Len(w) \in Nat /\ Len(w) >= 1 /\ Head(w) = w[1] /\ Len(v) = Len(w) - 1
      /\ \A i \in 1..Len(v) : v[i] = w[i + 1]
      /\ (v = <<>> <=> Len(v) = 0)
  <2>1. Len(w) \in Nat /\ Len(w) >= 1 /\ Head(w) = w[1]
    OBVIOUS
  <2>2. v \in Seq(Msg) /\ Len(v) = Len(w) - 1 /\ \A i \in 1..Len(v) : v[i] = w[i + 1]
    BY HeadTailProperties
  <2> HIDE DEF v
  <2>3. v = <<>> <=> Len(v) = 0
    BY <2>2
  <2> QED BY <2>1, <2>2, <2>3
<1> HIDE DEF v
<1>2. Fits(k, Head(w))
  BY <1>1 DEF Chained
<1>3. v # <<>> => Fits(After(Head(w)), v[1])
  <2>1. v # <<>> => 1 \in 1..Len(v) /\ 1 \in 1..(Len(w) - 1)
    BY <1>1
  <2> QED BY <1>1, <2>1 DEF Chained
<1>4. ASSUME NEW i \in 1..(Len(v) - 1) PROVE Fits(After(v[i]), v[i + 1])
  <2>1. i \in 1..Len(v) /\ i + 1 \in 1..Len(v) /\ i + 1 \in 1..(Len(w) - 1)
    BY <1>1
  <2> QED BY <1>1, <2>1 DEF Chained
<1>5. Expected(After(Head(w)), v) = Expected(k, w)
  <2>1. CASE v = <<>>
    <3>0. Len(w) = 1
      BY <1>1, <2>1
    <3>1. w[Len(w)] = Head(w)
      BY <1>1, <3>0
    <3> QED BY <2>1, <3>1 DEF Expected
  <2>2. CASE v # <<>>
    <3>1. Len(v) \in 1..Len(v) /\ Len(v) + 1 = Len(w)
      BY <1>1, <2>2
    <3> QED BY <1>1, <2>2, <3>1 DEF Expected
  <2> QED BY <2>1, <2>2
<1> QED BY <1>2, <1>3, <1>4, <1>5 DEF Chained, v

-----------------------------------------------------------------------------
(* Lemmas about the items of records.                                      *)

\* The items of a record are a sequence.
LEMMA ItemsSeq ==
    ASSUME NEW r \in Msg
    PROVE  ItemsOf(r) \in Seq(Words)
<1>1. r.body \in Seq(Words)
  BY DEF Msg
<1>2. <<>> \in Seq(Words)
  OBVIOUS
<1> QED BY <1>1, <1>2 DEF ItemsOf

\* The sequences that AppItems flattens.
LEMMA ItemsParts ==
    ASSUME NEW w \in Seq(Msg)
    PROVE  /\ [i \in 1..Len(w) |-> ItemsOf(w[i])] \in Seq(Seq(Words))
           /\ Len([i \in 1..Len(w) |-> ItemsOf(w[i])]) = Len(w)
<1>1. \A i \in 1..Len(w) : ItemsOf(w[i]) \in Seq(Words)
  <2>1. \A i \in 1..Len(w) : w[i] \in Msg
    OBVIOUS
  <2> QED BY <2>1, ItemsSeq
<1> QED BY <1>1

\* The items of records are a sequence.
LEMMA ItemsType ==
    ASSUME NEW w \in Seq(Msg)
    PROVE  AppItems(w) \in Seq(Words)
BY ItemsParts, JoinedType, Zenon DEF AppItems

\* No record, no item.
LEMMA ItemsEmpty == AppItems(<<>>) = <<>>
<1>1. [i \in 1..Len(<<>>) |-> ItemsOf(<<>>[i])] = <<>>
  OBVIOUS
<1> QED BY <1>1, JoinedEmpty DEF AppItems

\* The items of two runs of records, one after the other.
LEMMA ItemsConcat ==
    ASSUME NEW w \in Seq(Msg), NEW v \in Seq(Msg)
    PROVE  AppItems(w \o v) = AppItems(w) \o AppItems(v)
<1> DEFINE a == [i \in 1..Len(w) |-> ItemsOf(w[i])]
           b == [i \in 1..Len(v) |-> ItemsOf(v[i])]
           c == [i \in 1..Len(w \o v) |-> ItemsOf((w \o v)[i])]
<1>1. /\ a \in Seq(Seq(Words)) /\ b \in Seq(Seq(Words)) /\ c \in Seq(Seq(Words))
      /\ Len(a) = Len(w) /\ Len(b) = Len(v) /\ Len(c) = Len(w \o v)
  <2>1. w \o v \in Seq(Msg)
    OBVIOUS
  <2> QED BY <2>1, ItemsParts
<1>2. Len(w \o v) = Len(w) + Len(v) /\ Len(w) \in Nat /\ Len(v) \in Nat
  OBVIOUS
<1>3. ASSUME NEW i \in 1..Len(c) PROVE c[i] = (a \o b)[i]
  <2>1. CASE i <= Len(w)
    <3>1. i \in 1..Len(w) /\ (w \o v)[i] = w[i] /\ i \in 1..Len(w \o v)
      BY <1>1, <1>2, <2>1
    <3>2. c[i] = ItemsOf(w[i]) /\ a[i] = ItemsOf(w[i])
      BY <3>1
    <3> HIDE DEF a, b, c
    <3>3. (a \o b)[i] = a[i]
      BY <1>1, <3>1
    <3> QED BY <3>2, <3>3
  <2>2. CASE i > Len(w)
    <3>1. i - Len(w) \in 1..Len(v) /\ (w \o v)[i] = v[i - Len(w)] /\ i \in 1..Len(w \o v)
      BY <1>1, <1>2, <2>2
    <3>2. c[i] = ItemsOf(v[i - Len(w)]) /\ b[i - Len(w)] = ItemsOf(v[i - Len(w)])
      BY <3>1
    <3> HIDE DEF a, b, c
    <3>3. (a \o b)[i] = b[i - Len(w)]
      <4>1. i \in 1..(Len(a) + Len(b)) /\ ~(i <= Len(a))
        BY <1>1, <1>2, <2>2
      <4>2. (a \o b)[i] = b[i - Len(a)]
        BY <1>1, <4>1, ConcatProperties, Zenon
      <4> QED BY <1>1, <4>2
    <3> QED BY <3>2, <3>3
  <2> QED BY <1>1, <1>2, <2>1, <2>2
<1> HIDE DEF a, b, c
<1>4. c = a \o b
  <2> DEFINE d == a \o b
  <2>1. d \in Seq(Seq(Words)) /\ Len(d) = Len(c) /\ \A i \in 1..Len(c) : c[i] = d[i]
    BY <1>1, <1>2, <1>3
  <2> HIDE DEF d
  <2>2. c = d
    BY <1>1, <2>1, SeqEqual
  <2> QED BY <2>2 DEF d
<1>5. Joined(c) = Joined(a) \o Joined(b)
  BY <1>1, <1>4, JoinedConcat
<1> QED BY <1>5, Zenon DEF AppItems, a, b, c

\* The items of a single record.
LEMMA ItemsOne ==
    ASSUME NEW r \in Msg
    PROVE  AppItems(<<r>>) = ItemsOf(r)
<1>1. ItemsOf(r) \in Seq(Words) /\ <<>> \in Seq(Seq(Words))
  BY ItemsSeq
<1>2. [i \in 1..Len(<<r>>) |-> ItemsOf(<<r>>[i])] = Append(<<>>, ItemsOf(r))
  OBVIOUS
<1>3. Joined(Append(<<>>, ItemsOf(r))) = Joined(<<>>) \o ItemsOf(r)
  BY <1>1, JoinedAppend, Zenon
<1>4. Joined(<<>>) \o ItemsOf(r) = ItemsOf(r)
  BY <1>1, JoinedEmpty, ConcatEmptySeq
<1> QED BY <1>2, <1>3, <1>4, Zenon DEF AppItems

\* One more record adds its items.
LEMMA ItemsAppend ==
    ASSUME NEW w \in Seq(Msg), NEW r \in Msg
    PROVE  AppItems(Append(w, r)) = AppItems(w) \o ItemsOf(r)
<1>1. <<r>> \in Seq(Msg) /\ Append(w, r) = w \o <<r>>
  OBVIOUS
<1> QED BY <1>1, ItemsConcat, ItemsOne, Zenon

\* Records without application data have no items.
LEMMA ItemsNone ==
    ASSUME NEW w \in Seq(Msg), \A i \in 1..Len(w) : w[i].kind # "app"
    PROVE  AppItems(w) = <<>>
<1> DEFINE P == {n \in Nat : n <= Len(w) => AppItems(SubSeq(w, 1, n)) = <<>>}
<1>1. 0 \in P
  <2>1. SubSeq(w, 1, 0) = <<>>
    OBVIOUS
  <2> QED BY <2>1, ItemsEmpty, Zenon
<1>2. ASSUME NEW n \in P PROVE n + 1 \in P
  <2>1. SUFFICES ASSUME n + 1 <= Len(w) PROVE AppItems(SubSeq(w, 1, n + 1)) = <<>>
    OBVIOUS
  <2>2. /\ SubSeq(w, 1, n) \in Seq(Msg) /\ w[n + 1] \in Msg
        /\ SubSeq(w, 1, n + 1) = Append(SubSeq(w, 1, n), w[n + 1])
    BY <2>1
  <2>3. AppItems(SubSeq(w, 1, n)) = <<>> /\ ItemsOf(w[n + 1]) = <<>>
    BY <1>2, <2>1 DEF ItemsOf
  <2>4. AppItems(SubSeq(w, 1, n + 1)) = <<>> \o <<>>
    BY <2>2, <2>3, ItemsAppend, Zenon
  <2>5. <<>> \o <<>> = <<>>
    OBVIOUS
  <2> QED BY <2>4, <2>5
<1>3. P = Nat
  <2>1. P \in SUBSET Nat
    OBVIOUS
  <2> HIDE DEF P
  <2> QED BY <1>1, <1>2, <2>1, Induction
<1>4. SubSeq(w, 1, Len(w)) = w /\ Len(w) \in Nat /\ Len(w) <= Len(w)
  OBVIOUS
<1>5. Len(w) \in P
  BY <1>3, <1>4
<1>6. AppItems(SubSeq(w, 1, Len(w))) = <<>>
  BY <1>4, <1>5
<1> QED BY <1>4, <1>6, Zenon

-----------------------------------------------------------------------------
(* Shapes.                                                                 *)

\* Every call that returns leaves connect for good, or for the idle state.
LEMMA Returned ==
    ASSUME NEW r, Return(r)
    PROVE  /\ call' \in {"idle", "gone"}
           /\ call = "connect" /\ r # "ok" => call' = "gone"
           /\ todo' = <<>> /\ result' = r
BY DEF Return

\* A record is a record.
LEMMA RecType ==
    ASSUME NEW kind \in MsgKinds, NEW gen \in Nat, NEW seq \in Nat, NEW body \in Seq(Words)
    PROVE  /\ Rec(kind, gen, seq, body) \in Msg
           /\ Rec(kind, gen, seq, body).kind = kind /\ Rec(kind, gen, seq, body).gen = gen
           /\ Rec(kind, gen, seq, body).seq = seq /\ Rec(kind, gen, seq, body).body = body
BY DEF Rec, Msg

\* The bodies that are used are sequences of words.
LEMMA BodyTypes ==
    /\ <<>> \in Seq(Words) /\ <<"last">> \in Seq(Words)
    /\ <<"good">> \in Seq(Words) /\ <<"forged">> \in Seq(Words)
    /\ \A body \in HsBodies : body \in Seq(Words)
    /\ DownData \in Seq(Words) /\ UpData \in Seq(Words)
<1>1. Tokens \subseteq Words /\ STRING \subseteq Words
      /\ "last" \in Words /\ "good" \in Words /\ "forged" \in Words
  BY DEF Words
<1>2. \A body \in HsBodies : body \in Seq(Tokens)
  BY SessionAssumption
<1>3. \A body \in Seq(Tokens) : body \in Seq(Words)
  BY <1>1, SeqMonotonic
<1>4. \A body \in Seq(STRING) : body \in Seq(Words)
  BY <1>1, SeqMonotonic, Zenon
<1>5. DownData \in Seq(Words) /\ UpData \in Seq(Words)
  BY <1>4, SessionAssumption
<1>6. <<>> \in Seq(Words) /\ <<"last">> \in Seq(Words)
      /\ <<"good">> \in Seq(Words) /\ <<"forged">> \in Seq(Words)
  BY <1>1
<1> QED BY <1>2, <1>3, <1>5, <1>6

\* Emit adds one record to the server's stream.
LEMMA Emitted ==
    ASSUME Types, NEW kind \in MsgKinds, NEW body \in Seq(Words), Emit(kind, body)
    PROVE  /\ Rec(kind, srv_gen, srv_seq, body) \in Msg
           /\ s2c' = Append(s2c, Rec(kind, srv_gen, srv_seq, body)) /\ s2c' \in Seq(Msg)
           /\ UNCHANGED <<state, closed, pend, hs_done, fin_unsent, parked, ph>>
           /\ UNCHANGED <<send_gen, seq_out, recv_gen, seq_in>>
           /\ UNCHANGED <<call, todo, result, calls, wire, torn, eof, fails>>
           /\ UNCHANGED <<srv_rgen, srv_rseq, srv_pos, desync, got_down, up, got_up, ended,
                          peer_closed, requests>>
<1>1. Rec(kind, srv_gen, srv_seq, body) \in Msg
  BY RecType DEF Types
<1>2. s2c' = Append(s2c, Rec(kind, srv_gen, srv_seq, body)) /\ s2c \in Seq(Msg)
  BY DEF Emit, Types
<1>3. s2c' \in Seq(Msg)
  BY <1>1, <1>2, AppendProperties
<1> QED BY <1>1, <1>2, <1>3 DEF Emit, engine, keys, api

\* The shapes are kept by what the engine does with the server's records.
LEMMA TypesHead ==
    ASSUME Types, s2c # <<>>
    PROVE  /\ Head(s2c) \in Msg /\ Head(s2c).body \in Seq(Words)
           /\ Head(s2c).gen \in Nat /\ Head(s2c).seq \in Nat
           /\ Tail(s2c) \in Seq(Msg)
<1>1. Head(s2c) \in Msg /\ Tail(s2c) \in Seq(Msg)
  BY HeadTailProperties DEF Types
<1> QED BY <1>1 DEF Msg

\* Shapes under a write to the transport.
LEMMA TypesSending ==
    ASSUME Types, SendOk \/ SendFails
    PROVE  Types'
<1>1. pend \in Seq(Msg) /\ wire \in Seq(Msg)
  BY DEF Types
<1>2. CASE SendOk
  <2>1. wire \o pend \in Seq(Msg) /\ <<>> \in Seq(Msg)
    BY <1>1
  <2> QED BY <1>2, <2>1 DEF SendOk, Types, keys, api, server, history
<1>3. CASE SendFails
  <2>1. PICK k \in 0..Len(pend) :
          /\ wire' = wire \o SubSeq(pend, 1, k)
          /\ torn' \in IF k < Len(pend) THEN BOOLEAN ELSE {FALSE}
    BY <1>3, Zenon DEF SendFails
  <2>2. SubSeq(pend, 1, k) \in Seq(Msg)
    BY <1>1
  <2>3. wire' \in Seq(Msg) /\ <<>> \in Seq(Msg)
    BY <1>1, <2>1, <2>2, ConcatProperties, EmptySeq
  <2>4. todo' \in Seq(Words)
    BY <1>3, Returned, BodyTypes, Zenon DEF SendFails
  <2> QED BY <1>3, <2>3, <2>4 DEF SendFails, Types, keys, server
<1> QED BY <1>2, <1>3

\* Shapes under connect.
LEMMA TypesConnect ==
    ASSUME Types, Connect
    PROVE  Types'
<1> USE DEF engine, keys, api, pipe, server, history
<1>1. CASE ReadServerHello \/ SkipCcs \/ FeedFlight
  <2>1. s2c # <<>> /\ s2c' = Tail(s2c)
    BY <1>1 DEF ReadServerHello, SkipCcs, FeedFlight
  <2>2. s2c' \in Seq(Msg)
    BY <2>1, TypesHead
  <2>3. CASE ReadServerHello
    BY <2>2, <2>3 DEF ReadServerHello, Types
  <2>4. CASE SkipCcs
    BY <2>2, <2>4 DEF SkipCcs, Types
  <2>5. CASE FeedFlight
    BY <2>2, <2>5 DEF FeedFlight, Types
  <2> QED BY <1>1, <2>3, <2>4, <2>5
<1>2. ASSUME NEW n \in FinRecords, FinishFlight(n) PROVE Types'
  <2>1. n \in Nat
    BY SessionAssumption
  <2>2. s2c' \in Seq(Msg)
    BY <1>2, TypesHead DEF FinishFlight
  <2>3. ASSUME NEW i \in 1..n
        PROVE  Rec("fin", 0, i - 1, IF i = n THEN <<"last">> ELSE <<>>) \in Msg
    <3> DEFINE body == IF i = n THEN <<"last">> ELSE <<>>
    <3>1. body \in Seq(Words) /\ i - 1 \in Nat /\ "fin" \in MsgKinds /\ 0 \in Nat
      BY BodyTypes DEF MsgKinds
    <3> HIDE DEF body
    <3>2. Rec("fin", 0, i - 1, body) \in Msg
      BY <3>1, RecType
    <3> QED BY <3>2 DEF body
  <2>4. pend' \in Seq(Msg)
    BY <1>2, <2>1, <2>3, SMTT(30) DEF FinishFlight
  <2> QED BY <1>2, <2>2, <2>4 DEF FinishFlight, Types
<1>3. CASE HandshakeDone \/ ConnectFails \/ ConnectReadFails
  <2>1. todo' \in Seq(Words)
    BY <1>3, Returned, BodyTypes, Zenon DEF HandshakeDone, ConnectFails, ConnectReadFails
  <2>2. CASE HandshakeDone
    BY <2>1, <2>2 DEF HandshakeDone, Types
  <2>3. CASE ConnectFails
    BY <2>1, <2>3 DEF ConnectFails, Types
  <2>4. CASE ConnectReadFails
    BY <2>1, <2>4 DEF ConnectReadFails, Types
  <2> QED BY <1>3, <2>2, <2>3, <2>4
<1> QED BY <1>1, <1>2, <1>3 DEF Connect

\* Shapes under read.
LEMMA TypesRead ==
    ASSUME Types, Read
    PROVE  Types'
<1> USE DEF engine, keys, api, pipe, server, history
<1>1. CASE DataRefused
  <2>1. s2c # <<>> /\ Refuse(Head(s2c))
    BY <1>1, Zenon DEF DataRefused
  <2>2. todo' \in Seq(Words)
    BY <2>1, Returned, BodyTypes, Zenon DEF Refuse
  <2>3. s2c' \in Seq(Msg) /\ seq_in' \in Nat
    <3>1. CASE Opens(Head(s2c))
      <4>1. s2c' = Tail(s2c) /\ seq_in' = seq_in + 1
        BY <2>1, <3>1 DEF Refuse
      <4> QED BY <2>1, <4>1, TypesHead DEF Types
    <3>2. CASE ~Opens(Head(s2c))
      BY <2>1, <3>2 DEF Refuse, Types
    <3> QED BY <3>1, <3>2
  <2> QED BY <2>1, <2>2, <2>3 DEF Refuse, Types
<1>2. CASE DataApp
  <2>1. parked' \in Seq(Words) /\ s2c' \in Seq(Msg)
    BY <1>2, TypesHead, Zenon DEF DataApp, Consume
  <2>2. seq_in' = seq_in + 1 /\ UNCHANGED <<pend, send_gen, seq_out, recv_gen>>
        /\ UNCHANGED history
    BY <1>2, Zenon DEF DataApp
  <2>3. Consume
    BY <1>2, Zenon DEF DataApp
  <2> QED BY <2>1, <2>2, <2>3 DEF Consume, Types
<1>3. CASE DataCloseNotify \/ DataTicket
  <2>1. s2c' \in Seq(Msg)
    BY <1>3, TypesHead, Zenon DEF DataCloseNotify, DataTicket, Consume
  <2>2. CASE DataCloseNotify
    <3>1. seq_in' = seq_in + 1 /\ Consume
          /\ UNCHANGED <<pend, parked, send_gen, seq_out, recv_gen>>
          /\ UNCHANGED <<down, got_down, up, got_up, ended, requests>>
      BY <2>2, Zenon DEF DataCloseNotify
    <3> QED BY <2>1, <3>1 DEF Consume, Types
  <2>3. CASE DataTicket
    BY <2>1, <2>3 DEF DataTicket, Consume, Types
  <2> QED BY <1>3, <2>2, <2>3
<1>4. CASE DataKeyUpdate
  <2>1. s2c' \in Seq(Msg)
    BY <1>4, TypesHead, Zenon DEF DataKeyUpdate, Consume
  <2>2. Rec("ku", send_gen, seq_out, <<>>) \in Msg
    BY RecType, BodyTypes, Zenon DEF Types, MsgKinds
  <2>3. pend' \in Seq(Msg) /\ send_gen' \in Nat /\ seq_out' \in Nat /\ requests' \in Nat
    <3>1. CASE LastOf(Head(s2c).body) = "K2r"
      <4>1. /\ pend' = <<Rec("ku", send_gen, seq_out, <<>>)>>
            /\ send_gen' = send_gen + 1 /\ seq_out' = 0 /\ requests' = requests + 1
        BY <1>4, <3>1, Zenon DEF DataKeyUpdate
      <4> QED BY <2>2, <4>1 DEF Types
    <3>2. CASE LastOf(Head(s2c).body) # "K2r"
      BY <1>4, <3>2, Zenon DEF DataKeyUpdate, Types
    <3> QED BY <3>1, <3>2
  <2>4. /\ recv_gen' = recv_gen + 1 /\ seq_in' = 0 /\ Consume
        /\ UNCHANGED <<parked, down, got_down, up, got_up, ended>>
    BY <1>4, Zenon DEF DataKeyUpdate
  <2> QED BY <2>1, <2>3, <2>4 DEF Consume, Types
<1>5. ASSUME NEW n \in 1..Len(DownData), ReadApp(n) PROVE Types'
  <2>1. parked \in Seq(Words) /\ got_down \in Seq(Words) /\ n \in Nat /\ n <= Len(parked)
        /\ n >= 1
    BY <1>5, SessionAssumption DEF Types, ReadApp
  <2>2. SubSeq(parked, 1, n) \in Seq(Words)
    BY <2>1
  <2>3. SubSeq(parked, n + 1, Len(parked)) \in Seq(Words)
    BY <2>1
  <2>4. got_down' \in Seq(Words) /\ parked' \in Seq(Words)
    BY <1>5, <2>1, <2>2, <2>3 DEF ReadApp
  <2>5. todo' \in Seq(Words)
    BY <1>5, Returned, BodyTypes, Zenon DEF ReadApp
  <2> QED BY <1>5, <2>4, <2>5 DEF ReadApp, Types
<1>6. CASE ReadZero \/ ReadEof \/ ReadNothing
  <2>1. todo' \in Seq(Words)
    BY <1>6, Returned, BodyTypes, Zenon DEF ReadZero, ReadEof, ReadNothing
  <2>2. CASE ReadZero
    BY <2>1, <2>2 DEF ReadZero, Types
  <2>3. CASE ReadEof
    BY <2>1, <2>3 DEF ReadEof, Types
  <2>4. CASE ReadNothing
    BY <2>1, <2>4 DEF ReadNothing, Types
  <2> QED BY <1>6, <2>2, <2>3, <2>4
<1> QED BY <1>1, <1>2, <1>3, <1>4, <1>5, <1>6 DEF Read

\* write_app takes a non-empty chunk off the front of what is left to write.
LEMMA Chunk ==
    ASSUME Types, WriteChunk
    PROVE  \E chunk \in Seq(Words) :
             /\ Len(chunk) > 0
             /\ pend' = <<Rec("app", send_gen, seq_out, chunk)>>
             /\ todo' \in Seq(Words)
             /\ up' = up \o chunk
<1> DEFINE n == IF Len(todo) < ChunkLimit THEN Len(todo) ELSE ChunkLimit
           chunk == SubSeq(todo, 1, n)
<1>1. todo \in Seq(Words) /\ todo # <<>>
  BY DEF Types, WriteChunk
<1>2. n \in Nat /\ n >= 1 /\ n <= Len(todo)
  BY <1>1, SessionAssumption
<1>3. /\ pend' = <<Rec("app", send_gen, seq_out, chunk)>>
      /\ todo' = SubSeq(todo, n + 1, Len(todo)) /\ up' = up \o chunk
  BY DEF WriteChunk
<1> HIDE DEF n
<1>4. chunk \in Seq(Words) /\ Len(chunk) = n
  BY <1>1, <1>2
<1>5. todo' \in Seq(Words)
  BY <1>1, <1>2, <1>3
<1> HIDE DEF chunk
<1>6. Len(chunk) > 0
  BY <1>2, <1>4
<1> QED BY <1>3, <1>4, <1>5, <1>6, SMTT(30)

\* Shapes under write_all, close and drop.
LEMMA TypesWrite ==
    ASSUME Types, WriteChunk \/ WriteEnds \/ CloseNotify \/ CloseEnds
    PROVE  Types'
<1> USE DEF engine, keys, api, pipe, server, history
<1>1. CASE WriteChunk
  <2>1. PICK chunk \in Seq(Words) :
          /\ pend' = <<Rec("app", send_gen, seq_out, chunk)>>
          /\ todo' \in Seq(Words) /\ up' = up \o chunk
    BY <1>1, Chunk
  <2>2. Rec("app", send_gen, seq_out, chunk) \in Msg /\ up \in Seq(Words)
    BY RecType DEF Types, MsgKinds
  <2>3. pend' \in Seq(Msg) /\ up' \in Seq(Words)
    BY <2>1, <2>2
  <2> QED BY <1>1, <2>1, <2>3, SMTT(30) DEF WriteChunk, Types
<1>2. CASE WriteEnds \/ CloseEnds
  <2>1. todo' \in Seq(Words)
    BY <1>2, Returned, BodyTypes, Zenon DEF WriteEnds, CloseEnds
  <2>2. CASE WriteEnds
    BY <2>1, <2>2 DEF WriteEnds, Types
  <2>3. CASE CloseEnds
    BY <2>1, <2>3 DEF CloseEnds, Types
  <2> QED BY <1>2, <2>2, <2>3, SMTT(30)
<1>3. CASE CloseNotify
  <2>1. Rec("close", send_gen, seq_out, <<>>) \in Msg
    BY RecType, BodyTypes, Zenon DEF Types, MsgKinds
  <2>2. pend' \in Seq(Msg)
    BY <1>3, <2>1 DEF CloseNotify
  <2> QED BY <1>3, <2>2 DEF CloseNotify, Types
<1> QED BY <1>1, <1>2, <1>3, SMTT(30)

\* Shapes under the application's calls.
LEMMA TypesCall ==
    ASSUME Types, Call \/ DropStream \/ Gone \/ SrvEof
    PROVE  Types'
<1> USE DEF engine, keys, api, pipe, server, history
<1>1. CASE Call
  <2>1. todo' \in Seq(Words)
    <3>1. CASE UNCHANGED todo
      BY <3>1 DEF Types
    <3>2. ASSUME NEW n \in 0..(Len(UpData) - Len(up)),
                 todo' = SubSeq(UpData, Len(up) + 1, Len(up) + n)
          PROVE  todo' \in Seq(Words)
      <4>1. UpData \in Seq(Words) /\ Len(up) \in Nat /\ n \in Nat /\ Len(up) + n <= Len(UpData)
        BY BodyTypes DEF Types
      <4> QED BY <3>2, <4>1
    <3> QED BY <1>1, <3>1, <3>2 DEF Call
  <2> QED BY <1>1, <2>1, Zenon DEF Call, Begin, Types
<1>2. CASE DropStream \/ Gone \/ SrvEof
  <2>1. CASE DropStream
    BY <2>1, Zenon DEF DropStream, Begin, Types
  <2>2. CASE Gone
    BY <2>2 DEF Gone, Types, vars
  <2>3. CASE SrvEof
    BY <2>3 DEF SrvEof, Types
  <2> QED BY <1>2, <2>1, <2>2, <2>3, SMTT(30)
<1> QED BY <1>1, <1>2

\* SrvApp's record carries the next part of what the server has to say.
LEMMA AppBody ==
    ASSUME Types, SrvApp
    PROVE  \E body \in Seq(Words) : down' = down \o body /\ Emit("app", body)
<1>1. PICK n \in 0..(Len(DownData) - Len(down)) :
        /\ down' = down \o SubSeq(DownData, Len(down) + 1, Len(down) + n)
        /\ Emit("app", SubSeq(DownData, Len(down) + 1, Len(down) + n))
  BY Zenon DEF SrvApp
<1>2. DownData \in Seq(Words) /\ Len(down) \in Nat /\ n \in Nat /\ Len(down) + n <= Len(DownData)
  BY BodyTypes DEF Types
<1>3. SubSeq(DownData, Len(down) + 1, Len(down) + n) \in Seq(Words)
  BY <1>2
<1> QED BY <1>1, <1>3, Zenon

\* Shapes under what the server does.
LEMMA TypesServer ==
    ASSUME Types, Server
    PROVE  Types'
<1> USE DEF engine, keys, api, pipe, server, history
<1>1. ASSUME NEW kind \in MsgKinds, NEW body \in Seq(Words), Emit(kind, body),
             srv_gen' \in Nat, srv_seq' \in Nat, bad' \in Nat, down' \in Seq(Words)
      PROVE  Types'
  BY <1>1, Emitted, Zenon DEF Types
<1>2. CASE SrvHello \/ SrvCcs \/ SrvFlight \/ SrvClose
  <2>1. \E kind \in {"sh", "ccs", "flight", "close"} : Emit(kind, <<>>)
    BY <1>2, Zenon DEF SrvHello, SrvCcs, SrvFlight, SrvClose
  <2>2. srv_gen' \in Nat /\ srv_seq' \in Nat /\ bad' \in Nat /\ down' \in Seq(Words)
    <3>1. UNCHANGED <<srv_gen, bad, down>>
      BY <1>2, Zenon DEF SrvHello, SrvCcs, SrvFlight, SrvClose
    <3>2. srv_seq' = srv_seq \/ srv_seq' = srv_seq + 1
      BY <1>2, Zenon DEF SrvHello, SrvCcs, SrvFlight, SrvClose
    <3> QED BY <3>1, <3>2 DEF Types
  <2> QED BY <1>1, <2>1, <2>2, BodyTypes, Zenon DEF MsgKinds
<1>3. CASE SrvFinished
  <2>1. \E body \in Seq(Words) : Emit("fin", body)
    BY <1>3, BodyTypes, Zenon DEF SrvFinished
  <2>2. srv_gen' \in Nat /\ srv_seq' \in Nat /\ bad' \in Nat /\ down' \in Seq(Words)
    BY <1>3 DEF SrvFinished, Types
  <2> QED BY <1>1, <2>1, <2>2 DEF MsgKinds
<1>4. CASE SrvApp
  <2>1. PICK body \in Seq(Words) : down' = down \o body /\ Emit("app", body)
    BY <1>4, AppBody, Zenon
  <2>2. down' \in Seq(Words)
    BY <2>1 DEF Types
  <2>3. srv_gen' \in Nat /\ srv_seq' \in Nat /\ bad' \in Nat
    <3>1. srv_gen' = srv_gen /\ srv_seq' = srv_seq + 1
      BY <1>4, Zenon DEF SrvApp
    <3>2. bad' = bad \/ bad' = bad + 1
      BY <1>4, Zenon DEF SrvApp
    <3> QED BY <3>1, <3>2 DEF Types
  <2> QED BY <1>1, <2>1, <2>2, <2>3 DEF MsgKinds
<1>5. ASSUME NEW body \in HsBodies, SrvPostHandshake(body) PROVE Types'
  <2>1. Emit("hs", body) /\ bad' = bad /\ down' = down
    BY <1>5 DEF SrvPostHandshake
  <2>2. srv_gen' \in Nat /\ srv_seq' \in Nat
    BY <1>5 DEF SrvPostHandshake, Types
  <2>3. bad' \in Nat /\ down' \in Seq(Words) /\ body \in Seq(Words)
    BY <2>1, BodyTypes DEF Types
  <2> QED BY <1>1, <2>1, <2>2, <2>3 DEF MsgKinds
<1>6. CASE SrvBad
  <2>1. PICK kind \in {"alert", "ccs", "damaged"} :
          Emit(kind, <<>>) /\ srv_seq' = IF kind = "ccs" THEN srv_seq ELSE srv_seq + 1
    BY <1>6 DEF SrvBad
  <2>2. kind \in MsgKinds /\ srv_seq' \in Nat
    BY <2>1 DEF MsgKinds, Types
  <2>3. srv_gen' \in Nat /\ bad' \in Nat /\ down' \in Seq(Words)
    BY <1>6 DEF SrvBad, Types
  <2> QED BY <1>1, <2>1, <2>2, <2>3, BodyTypes, Zenon
<1>7. CASE SrvReads
  <2> DEFINE r == wire[srv_pos + 1]
  <2>1. r \in Msg
    BY <1>7 DEF SrvReads, Types
  <2>2. r.body \in Seq(Words)
    BY <2>1, SMTT(30) DEF Msg
  <2>3. got_up' = IF r.kind = "app" THEN got_up \o r.body ELSE got_up
    BY <1>7 DEF SrvReads
  <2> HIDE DEF r
  <2>4. got_up' \in Seq(Words)
    <3>1. got_up \in Seq(Words)
      BY DEF Types
    <3>2. got_up \o r.body \in Seq(Words)
      BY <2>2, <3>1, ConcatProperties
    <3> QED BY <2>3, <3>1, <3>2
  <2>5. srv_pos' \in Nat /\ srv_rgen' \in Nat /\ srv_rseq' \in Nat
    <3>1. srv_pos' = srv_pos + 1
      BY <1>7 DEF SrvReads
    <3>2. \/ srv_rgen' = srv_rgen + 1 /\ srv_rseq' = 0
          \/ srv_rgen' = srv_rgen /\ srv_rseq' = srv_rseq + 1
      BY <1>7 DEF SrvReads
    <3> QED BY <3>1, <3>2, SMTT(30) DEF Types
  <2> QED BY <1>7, <2>4, <2>5 DEF SrvReads, Types
<1> QED BY <1>2, <1>3, <1>4, <1>5, <1>6, <1>7 DEF Server

\* Every step keeps the shapes.
LEMMA TypesNext ==
    ASSUME Types, [Next]_vars
    PROVE  Types'
<1>1. CASE UNCHANGED vars
  BY <1>1 DEF vars, engine, keys, api, pipe, server, history, Types
<1> QED BY <1>1, TypesSending, TypesConnect, TypesRead, TypesWrite, TypesCall, TypesServer, SMTT(30)
        DEF Next, Client

-----------------------------------------------------------------------------
(* The life of a session.                                                  *)

\* More records keep the Finished among them, and the last one may be it.
LEMMA FinishedGrows ==
    ASSUME NEW w \in Seq(Msg), NEW v \in Seq(Msg)
    PROVE  /\ FinishedOn(w) => FinishedOn(w \o v)
           /\ v # <<>> /\ LastOfFlight(v[Len(v)]) => FinishedOn(w \o v)
<1>1. Len(w) \in Nat /\ Len(v) \in Nat /\ Len(w \o v) = Len(w) + Len(v)
  BY ConcatProperties
<1>2. \A i \in 1..Len(w) : (w \o v)[i] = w[i] /\ i \in 1..Len(w \o v)
  BY <1>1, ConcatProperties
<1>3. v # <<>> => /\ Len(w) + Len(v) \in 1..Len(w \o v)
                  /\ (w \o v)[Len(w) + Len(v)] = v[Len(v)]
  <2>1. SUFFICES ASSUME v # <<>> PROVE /\ Len(w) + Len(v) \in 1..Len(w \o v)
                                       /\ (w \o v)[Len(w) + Len(v)] = v[Len(v)]
    OBVIOUS
  <2>2. Len(v) >= 1 /\ (Len(w) + Len(v)) - Len(w) = Len(v)
    BY <1>1, <2>1
  <2>3. Len(w) + Len(v) \in 1..(Len(w) + Len(v)) /\ ~(Len(w) + Len(v) <= Len(w))
    BY <1>1, <2>2
  <2>4. (w \o v)[Len(w) + Len(v)] = v[(Len(w) + Len(v)) - Len(w)]
    BY <2>3, ConcatProperties
  <2> QED BY <1>1, <2>2, <2>3, <2>4
<1> QED BY <1>2, <1>3 DEF FinishedOn

\* A step that leaves the engine, its keys and the wire alone.
LEMMA LifecycleFrame ==
    ASSUME Lifecycle,
           UNCHANGED <<state, closed, hs_done, fin_unsent, pend, wire, parked>>,
           UNCHANGED <<send_gen, seq_out, recv_gen, torn>>,
           \/ call' = call
           \/ pend = <<>> /\ call' = "gone"
           \/ pend = <<>> /\ call \notin {"connect", "gone"} /\ call' # "connect"
    PROVE  Lifecycle'
BY DEF Lifecycle, FinishedOn

\* Sending a record, or failing to, keeps the order of a session's life.
LEMMA LifecycleSending ==
    ASSUME Types, Lifecycle, SendOk \/ SendFails
    PROVE  Lifecycle'
<1>1. CASE SendOk
  <2>1. FinishedOn(wire) => FinishedOn(wire \o pend)
    BY FinishedGrows DEF Types
  <2>2. pend # <<>> /\ LastOfFlight(pend[Len(pend)]) => FinishedOn(wire \o pend)
    BY FinishedGrows DEF Types
  <2>3. /\ wire' = wire \o pend /\ pend' = <<>> /\ fin_unsent' = FALSE /\ pend # <<>>
        /\ call \notin {"idle", "gone"}
        /\ UNCHANGED <<state, closed, hs_done, parked, send_gen, seq_out, recv_gen, call, torn>>
    BY <1>1 DEF SendOk, keys, api
  <2>4. FinishedOn(wire)' <=> FinishedOn(wire \o pend)
    BY <2>3 DEF FinishedOn
  <2> HIDE DEF FinishedOn
  <2>5. state = "App" => FinishedOn(wire)'
    BY <2>1, <2>2, <2>4 DEF Lifecycle
  <2>6. state \notin {"WaitServerHello", "WaitFlight"}
    BY <2>3, SMTT(30) DEF Lifecycle
  <2> QED BY <2>3, <2>5, <2>6 DEF Lifecycle
<1>2. CASE SendFails
  BY <1>2, Returned DEF SendFails, Lifecycle
<1> QED BY <1>1, <1>2

\* Every step of connect keeps the order of a session's life.
LEMMA LifecycleConnect ==
    ASSUME Types, Lifecycle, Connect
    PROVE  Lifecycle'
<1> USE DEF engine, keys, api, pipe
<1>1. CASE ReadServerHello
  BY <1>1 DEF ReadServerHello, HsFraming, Lifecycle
<1>2. CASE SkipCcs \/ FeedFlight
  BY <1>2, LifecycleFrame DEF SkipCcs, FeedFlight
<1>3. ASSUME NEW n \in FinRecords, FinishFlight(n) PROVE Lifecycle'
  <2>1. n \in Nat \ {0}
    BY SessionAssumption, SMTT(30)
  <2>2. /\ state' = "App" /\ call = "connect" /\ UNCHANGED <<closed, call, torn>> /\ ~closed
        /\ state = "WaitFlight" /\ hs_done' = TRUE /\ fin_unsent' = TRUE
    BY <1>3 DEF FinishFlight, HsFraming
  <2>3. pend' = [i \in 1..n |-> Rec("fin", 0, i - 1, IF i = n THEN <<"last">> ELSE <<>>)]
    BY <1>3 DEF FinishFlight
  <2>4. Len(pend') = n /\ pend'[n] = Rec("fin", 0, n - 1, <<"last">>) /\ pend' # <<>>
    BY <2>1, <2>3
  <2>5. LastOfFlight(pend'[Len(pend')])
    BY <2>4 DEF LastOfFlight, Rec
  <2>6. ~torn
    BY <2>2 DEF Lifecycle
  <2> QED BY <2>2, <2>4, <2>5, <2>6 DEF Lifecycle
<1>4. CASE HandshakeDone
  <2>1. call' \in {"idle", "gone"} /\ hs_done
    BY <1>4, Returned DEF HandshakeDone
  <2>2. state \notin {"WaitServerHello", "WaitFlight"}
    BY <2>1 DEF Lifecycle
  <2> QED BY <1>4, <2>1, <2>2 DEF HandshakeDone, Lifecycle
<1>5. CASE ConnectFails
  <2>1. HsFailure # "ok"
    BY DEF HsFailure
  <2>2. call' = "gone"
    BY <1>5, <2>1, Returned DEF ConnectFails
  <2> QED BY <1>5, <2>2, LifecycleFrame DEF ConnectFails
<1>6. CASE ConnectReadFails
  <2>1. call' = "gone" /\ pend = <<>>
    BY <1>6, Returned DEF ConnectReadFails, HsFraming
  <2> QED BY <1>6, <2>1, LifecycleFrame DEF ConnectReadFails
<1> QED BY <1>1, <1>2, <1>3, <1>4, <1>5, <1>6, SMTT(30) DEF Connect

\* A call other than connect runs in the App state, until a write has failed.
LEMMA OnceConnected ==
    ASSUME Types, Lifecycle, call \notin {"connect", "gone"}
    PROVE  state \in {"App", "Closed"} /\ (~closed => state = "App")
BY DEF Types, Lifecycle

\* Every step of read keeps the order of a session's life.
LEMMA LifecycleRead ==
    ASSUME Types, Lifecycle, Read
    PROVE  Lifecycle'
<1> USE DEF engine, keys, api, pipe
<1>1. ASSUME Framing, UNCHANGED <<state, hs_done, fin_unsent, wire, torn, call>>,
             pend' = <<>> \/ ~closed'
      PROVE  Lifecycle'
  <2>1. state = "App" /\ call \in {"read", "try_read"} /\ pend = <<>>
    BY <1>1, OnceConnected DEF Framing, Reading
  <2> QED BY <1>1, <2>1 DEF Lifecycle, FinishedOn
<1>2. CASE DataRefused
  <2>1. Framing /\ Refuse(Head(s2c))
    BY <1>2, Zenon DEF DataRefused
  <2>2. /\ call' \in {"idle", "gone"} /\ pend = <<>> /\ state = "App"
        /\ call \in {"read", "try_read"}
        /\ UNCHANGED <<state, hs_done, fin_unsent, pend, wire, torn>>
    BY <2>1, Returned, OnceConnected DEF Refuse, Framing, Reading
  <2> QED BY <2>2 DEF Lifecycle, FinishedOn
<1>3. CASE DataApp \/ DataCloseNotify \/ DataTicket
  <2>1. Framing /\ Consume /\ pend' = pend
    BY <1>3, Zenon DEF DataApp, DataCloseNotify, DataTicket
  <2> QED BY <1>1, <2>1, SMTT(30) DEF Consume, Framing
<1>4. CASE DataKeyUpdate
  <2>1. Framing /\ Consume /\ closed' = closed
    BY <1>4, Zenon DEF DataKeyUpdate
  <2> QED BY <1>1, <2>1, SMTT(30) DEF Consume, Framing
<1>5. ASSUME NEW n \in 1..Len(DownData), ReadApp(n) PROVE Lifecycle'
  <2>1. /\ call' \in {"idle", "gone"} /\ pend = <<>> /\ call \in {"read", "try_read"}
        /\ UNCHANGED <<state, closed, hs_done, fin_unsent, pend, wire, torn>>
    BY <1>5, Returned DEF ReadApp, Reading
  <2>2. state \in {"App", "Closed"}
    BY <2>1, OnceConnected, SMTT(30)
  <2> QED BY <2>1, <2>2 DEF Lifecycle, FinishedOn
<1>6. CASE ReadZero \/ ReadEof \/ ReadNothing
  <2>1. /\ call' \in {"idle", "gone"} /\ pend = <<>> /\ call \in {"read", "try_read"}
    BY <1>6, Returned DEF ReadZero, ReadEof, ReadNothing, Reading, Framing
  <2> QED BY <1>6, <2>1, LifecycleFrame, SMTT(30) DEF ReadZero, ReadEof, ReadNothing
<1> QED BY <1>2, <1>3, <1>4, <1>5, <1>6, SMTT(30) DEF Read

\* Writing and closing keep the order of a session's life.
LEMMA LifecycleWrite ==
    ASSUME Types, Lifecycle, WriteChunk \/ WriteEnds \/ CloseNotify \/ CloseEnds
    PROVE  Lifecycle'
<1> USE DEF engine, keys, api, pipe
<1>1. CASE WriteChunk
  <2>1. /\ state = "App" /\ call = "write"
        /\ UNCHANGED <<state, closed, hs_done, fin_unsent, call, wire, torn>>
    BY <1>1, SMTT(30) DEF WriteChunk
  <2> QED BY <2>1, SMTT(30) DEF Lifecycle, FinishedOn
<1>2. CASE WriteEnds \/ CloseEnds
  <2>1. call' \in {"idle", "gone"} /\ pend = <<>> /\ call \notin {"connect", "gone"}
    BY <1>2, Returned, SMTT(30) DEF WriteEnds, CloseEnds
  <2> QED BY <1>2, <2>1, LifecycleFrame, SMTT(30) DEF WriteEnds, CloseEnds
<1>3. CASE CloseNotify
  <2>1. /\ state = "App" /\ call \in {"close", "drop"} /\ call' \in {"close2", "drop2"}
        /\ UNCHANGED <<state, hs_done, fin_unsent, wire, torn>>
    BY <1>3 DEF CloseNotify
  <2> QED BY <2>1, SMTT(30) DEF Lifecycle, FinishedOn
<1> QED BY <1>1, <1>2, <1>3

\* Every step keeps the order of a session's life.
LEMMA LifecycleNext ==
    ASSUME Types, Lifecycle, [Next]_vars
    PROVE  Lifecycle'
<1> USE DEF engine, keys, api, pipe
<1>1. CASE Call \/ DropStream
  <2>1. call = "idle" /\ call' \in {"read", "try_read", "close", "write", "drop"}
    BY <1>1, Zenon DEF Call, DropStream, Begin
  <2>2. pend = <<>>
    BY <2>1, SMTT(30) DEF Lifecycle
  <2> QED BY <1>1, <2>1, <2>2, LifecycleFrame, Zenon DEF Call, DropStream, Begin
<1>2. CASE Gone \/ SrvEof \/ UNCHANGED vars
  BY <1>2, LifecycleFrame DEF Gone, SrvEof, vars
<1>3. CASE Server
  <2>1. /\ UNCHANGED <<state, closed, hs_done, fin_unsent, pend, wire, parked>>
        /\ UNCHANGED <<send_gen, seq_out, recv_gen, torn, call>>
    <3>1. ASSUME NEW kind, NEW body, Emit(kind, body)
          PROVE  /\ UNCHANGED <<state, closed, hs_done, fin_unsent, pend, wire, parked>>
                 /\ UNCHANGED <<send_gen, seq_out, recv_gen, torn, call>>
      BY <3>1, SMTT(30) DEF Emit
    <3>2. CASE SrvReads
      BY <3>2, Zenon DEF SrvReads
    <3>3. CASE ~SrvReads
      <4>1. \E kind, body : Emit(kind, body)
        BY <1>3, <3>3, Zenon DEF Server, SrvHello, SrvCcs, SrvFlight, SrvFinished, SrvApp,
                          SrvPostHandshake, SrvClose, SrvBad
      <4> QED BY <3>1, <4>1, SMTT(30)
    <3> QED BY <3>2, <3>3
  <2> QED BY <2>1, LifecycleFrame
<1> QED BY <1>1, <1>2, <1>3, LifecycleSending, LifecycleConnect, LifecycleRead, LifecycleWrite, SMTT(30)
        DEF Next, Client

-----------------------------------------------------------------------------
(* The client's records stay in the order of their keys.                   *)

\* What the chain sees of a step that neither seals nor sends nor reads.
LEMMA SendFrame ==
    ASSUME SendChain,
           UNCHANGED <<wire, pend, send_gen, seq_out, srv_pos, srv_rgen, srv_rseq, desync>>,
           ~closed' => ~closed /\ (state' = "App" <=> state = "App")
    PROVE  SendChain'
<1>1. Sent' = Sent /\ ServerExpects' = ServerExpects
  BY DEF Sent, ServerExpects
<1> QED BY <1>1, Zenon DEF SendChain

\* What is sent, once more, by its parts.
LEMMA SentParts ==
    ASSUME Types
    PROVE  /\ Sent \in Seq(Msg) /\ Len(Sent) = Len(wire) + Len(pend)
           /\ \A i \in 1..Len(wire) : i \in 1..Len(Sent) /\ Sent[i] = wire[i]
           /\ SubSeq(Sent, 1, Len(wire)) = wire
           /\ (pend = <<>> => Sent = wire)
<1>1. wire \in Seq(Msg) /\ pend \in Seq(Msg) /\ Len(wire) \in Nat /\ Len(pend) \in Nat
  BY DEF Types
<1>2. /\ Sent \in Seq(Msg) /\ Len(Sent) = Len(wire) + Len(pend)
      /\ \A i \in 1..(Len(wire) + Len(pend)) :
           Sent[i] = IF i <= Len(wire) THEN wire[i] ELSE pend[i - Len(wire)]
  BY <1>1, ConcatProperties, SMTT(30) DEF Sent
<1>3. \A i \in 1..Len(wire) : i \in 1..Len(Sent) /\ Sent[i] = wire[i]
  BY <1>1, <1>2
<1>4. SubSeq(Sent, 1, Len(wire)) = wire
  <2> DEFINE u == SubSeq(Sent, 1, Len(wire))
  <2>1. u \in Seq(Msg) /\ Len(u) = Len(wire) /\ \A i \in 1..Len(wire) : u[i] = Sent[i]
    BY <1>1, <1>2, <1>3
  <2> HIDE DEF u
  <2>2. u = wire
    BY <1>1, <1>3, <2>1, SeqEqual
  <2> QED BY <2>2 DEF u
<1>5. pend = <<>> => Sent = wire
  BY <1>1, ConcatEmptySeq DEF Sent
<1> QED BY <1>2, <1>3, <1>4, <1>5

\* A record of the data phase comes where one is expected.
LEMMA DataFits ==
    ASSUME NEW r \in Msg, r.kind = "app" \/ r.kind = "ku" \/ r.kind = "close"
    PROVE  Fits(Key(r.gen, r.seq, "data", ""), r) /\ ClientRecord(r)
BY DEF Fits, PhaseOf, Key, ClientRecord

\* A record of the final flight comes where one is expected.
LEMMA FinFits ==
    ASSUME NEW r, NEW s, r.kind = "fin", r.gen = 0, r.seq = s
    PROVE  Fits(Key(0, s, "hello", ""), r)
BY DEF Fits, PhaseOf, Key

\* A record without a body.
LEMMA BareRecord ==
    ASSUME NEW kind \in MsgKinds, NEW gen \in Nat, NEW seq \in Nat
    PROVE  /\ Rec(kind, gen, seq, <<>>) \in Msg
           /\ Rec(kind, gen, seq, <<>>).kind = kind /\ Rec(kind, gen, seq, <<>>).gen = gen
           /\ Rec(kind, gen, seq, <<>>).seq = seq
<1>1. \A b \in Seq(Words) : /\ Rec(kind, gen, seq, b) \in Msg
                            /\ Rec(kind, gen, seq, b).kind = kind
                            /\ Rec(kind, gen, seq, b).gen = gen
                            /\ Rec(kind, gen, seq, b).seq = seq
  BY RecType
<1>2. <<>> \in Seq(Words)
  BY BodyTypes
<1> QED BY <1>1, <1>2, Zenon

\* One more of the client's records.
LEMMA ClientAppend ==
    ASSUME NEW w \in Seq(Msg), NEW r \in Msg, ClientRecord(r),
           \A i \in 1..Len(w) : ClientRecord(w[i])
    PROVE  \A i \in 1..Len(Append(w, r)) : ClientRecord(Append(w, r)[i])
<1>1. /\ Len(Append(w, r)) = Len(w) + 1 /\ Append(w, r)[Len(w) + 1] = r
      /\ \A i \in 1..Len(w) : Append(w, r)[i] = w[i]
  BY AppendProperties
<1>2. Len(w) \in Nat /\ \A i \in 1..(Len(w) + 1) : i \in 1..Len(w) \/ i = Len(w) + 1
  OBVIOUS
<1> QED BY <1>1, <1>2

\* A data-phase record, sealed with the current send keys.
LEMMA SealsNext ==
    ASSUME Types, Types', SendChain, ~closed, state = "App", pend = <<>>,
           NEW r \in Msg, ClientRecord(r), Fits(Key(send_gen, seq_out, "data", ""), r),
           pend' = <<r>>,
           UNCHANGED <<wire, state, srv_pos, srv_rgen, srv_rseq, desync>>,
           closed' \/ After(r) = Key(send_gen', seq_out', "data", "")
    PROVE  SendChain' /\ Sent' = Append(Sent, r)
<1>1. Sent = wire /\ Sent \in Seq(Msg)
  BY SentParts, Zenon
<1>2. Sent' = Append(Sent, r)
  <2>1. wire \in Seq(Msg)
    BY Zenon DEF Types
  <2>2. Sent' = wire \o <<r>>
    BY Zenon DEF Sent
  <2> QED BY <1>1, <2>1, <2>2, AppendIsConcat, Zenon
<1>3. Expected(FirstKey, Sent) = Key(send_gen, seq_out, "data", "")
  BY Zenon DEF SendChain
<1>4. Fits(Expected(FirstKey, Sent), r)
  BY <1>3, Zenon
<1>5. Chained(FirstKey, Sent') /\ Expected(FirstKey, Sent') = After(r)
  BY <1>1, <1>2, <1>4, ChainAppend, ZenonT(40) DEF SendChain
<1>6. \A i \in 1..Len(Sent') : ClientRecord(Sent'[i])
  <2>1. \A i \in 1..Len(Sent) : ClientRecord(Sent[i])
    BY Zenon DEF SendChain
  <2> QED BY <1>1, <1>2, <2>1, ClientAppend, Zenon
<1>7. ServerExpects' = ServerExpects
  BY Zenon DEF ServerExpects
<1> QED BY <1>2, <1>5, <1>6, <1>7, Zenon DEF SendChain

\* Writing moves the pending records to the wire, or some of the first of them.
LEMMA SendChainSending ==
    ASSUME Types, Types', SendChain, SendOk \/ SendFails
    PROVE  SendChain'
<1>0. pend \in Seq(Msg) /\ wire \in Seq(Msg) /\ Sent \in Seq(Msg)
      /\ Len(wire) \in Nat /\ Len(pend) \in Nat /\ srv_pos \in Nat
  <2>1. Sent \in Seq(Msg)
    BY SentParts
  <2>2. pend \in Seq(Msg) /\ wire \in Seq(Msg) /\ srv_pos \in Nat
    BY DEF Types
  <2> QED BY <2>1, <2>2
<1>1. PICK k \in 0..Len(pend) :
        /\ wire' = wire \o SubSeq(pend, 1, k) /\ pend' = <<>>
        /\ UNCHANGED <<srv_pos, srv_rgen, srv_rseq, desync>>
        /\ ~closed' => k = Len(pend) /\ UNCHANGED <<closed, state, send_gen, seq_out>>
  <2>1. CASE SendOk
    <3>1. SubSeq(pend, 1, Len(pend)) = pend
      BY <1>0
    <3>2. Len(pend) \in 0..Len(pend)
      BY <1>0, SMTT(30)
    <3> QED BY <2>1, <3>1, <3>2, Zenon DEF SendOk, keys, server
  <2>2. CASE SendFails
    BY <2>2 DEF SendFails, server
  <2> QED BY <2>1, <2>2, SMTT(30)
<1>2. /\ SubSeq(pend, 1, k) \in Seq(Msg) /\ Len(SubSeq(pend, 1, k)) = k
      /\ \A i \in 1..k : SubSeq(pend, 1, k)[i] = pend[i]
  BY <1>0
<1>3. Sent' = wire' /\ wire' \in Seq(Msg) /\ Len(wire') = Len(wire) + k
      /\ \A i \in 1..(Len(wire) + k) :
           wire'[i] = IF i <= Len(wire) THEN wire[i] ELSE SubSeq(pend, 1, k)[i - Len(wire)]
  <2>1. wire' \in Seq(Msg) /\ Len(wire') = Len(wire) + k
        /\ \A i \in 1..(Len(wire) + k) :
             wire'[i] = IF i <= Len(wire) THEN wire[i] ELSE SubSeq(pend, 1, k)[i - Len(wire)]
    <3>1. PICK p \in Seq(Msg) : p = SubSeq(pend, 1, k)
      BY <1>2, Zenon
    <3>2. Len(p) = k /\ wire' = wire \o p
      BY <1>1, <1>2, <3>1
    <3> QED BY <1>0, <3>1, <3>2, ConcatProperties
  <2>2. Sent' = wire' \o <<>>
    BY <1>1 DEF Sent
  <2> QED BY <2>1, <2>2, ConcatEmptySeq, SMTT(30)
<1>4. Len(Sent) = Len(wire) + Len(pend) /\ Len(wire) + k \in 0..Len(Sent)
      /\ \A i \in 1..(Len(wire) + Len(pend)) :
           Sent[i] = IF i <= Len(wire) THEN wire[i] ELSE pend[i - Len(wire)]
  <2>1. Len(Sent) = Len(wire) + Len(pend)
        /\ \A i \in 1..(Len(wire) + Len(pend)) :
             Sent[i] = IF i <= Len(wire) THEN wire[i] ELSE pend[i - Len(wire)]
    BY <1>0, ConcatProperties DEF Sent
  <2> QED BY <1>0, <2>1
<1>5. \A i \in 1..(Len(wire) + k) : wire'[i] = Sent[i]
  <2>1. ASSUME NEW i \in 1..(Len(wire) + k) PROVE wire'[i] = Sent[i]
    <3>1. CASE i <= Len(wire)
      BY <1>0, <1>3, <1>4, <3>1, SMTT(30)
    <3>2. CASE ~(i <= Len(wire))
      <4>1. i - Len(wire) \in 1..k /\ i \in 1..(Len(wire) + Len(pend))
        BY <1>0, <3>2, SMTT(30)
      <4> QED BY <1>2, <1>3, <1>4, <3>2, <4>1
    <3> QED BY <3>1, <3>2, SMTT(30)
  <2> QED BY <2>1
<1>6. Sent' = SubSeq(Sent, 1, Len(wire) + k)
  <2> DEFINE u == SubSeq(Sent, 1, Len(wire) + k)
  <2>1. u \in Seq(Msg) /\ Len(u) = Len(wire) + k /\ \A i \in 1..(Len(wire) + k) : u[i] = Sent[i]
    BY <1>0, <1>4, SMTT(30)
  <2> HIDE DEF u
  <2>2. wire' = u
    BY <1>3, <1>5, <2>1, SeqEqual, SMTT(30)
  <2> QED BY <1>3, <2>2 DEF u
<1>7. Chained(FirstKey, Sent')
  BY <1>0, <1>4, <1>6, ChainPrefix, ZenonT(40) DEF SendChain
<1>8. \A i \in 1..Len(Sent') : ClientRecord(Sent'[i])
  <2>1. \A i \in 1..(Len(wire) + k) : i \in 1..Len(Sent)
    BY <1>0, <1>4, SMTT(30)
  <2> QED BY <1>3, <1>5, <2>1, Zenon DEF SendChain
<1>9. ~closed' => Sent' = Sent
  <2>1. SubSeq(Sent, 1, Len(Sent)) = Sent
    BY <1>0
  <2> QED BY <1>1, <1>4, <1>6, <2>1, Zenon
<1>10. srv_pos' <= Len(wire') /\ ServerExpects' = ServerExpects
  <2>1. srv_pos <= Len(wire)
    BY Zenon DEF SendChain
  <2>2. srv_pos' <= Len(wire')
    <3>1. \A a, b, c \in Nat : a <= b => a <= b + c
      OBVIOUS
    <3> QED BY <1>0, <1>1, <1>3, <2>1, <3>1
  <2>3. srv_pos # 0 => wire'[srv_pos] = wire[srv_pos]
    BY <1>0, <1>3, <2>1, SMTT(30)
  <2> QED BY <1>1, <2>2, <2>3, Zenon DEF ServerExpects
<1> QED BY <1>1, <1>7, <1>8, <1>9, <1>10, Zenon DEF SendChain

\* The final flight is sealed with the handshake keys, the Finished last.
LEMMA SendChainFinish ==
    ASSUME Types, Types', Lifecycle, SendChain, NEW n \in FinRecords, FinishFlight(n)
    PROVE  SendChain'
<1>1. n \in Nat /\ n >= 1
  BY SessionAssumption, SMTT(30)
<1>2. /\ state = "WaitFlight" /\ state' = "App" /\ send_gen' = 1 /\ seq_out' = 0
      /\ UNCHANGED <<wire, closed, srv_pos, srv_rgen, srv_rseq, desync>>
  BY DEF FinishFlight, server
<1>3. wire = <<>>
  BY <1>2, SMTT(30) DEF Lifecycle
<1> DEFINE fin(i) == Rec("fin", 0, i - 1, IF i = n THEN <<"last">> ELSE <<>>)
<1>4. pend' = [i \in 1..n |-> fin(i)] /\ pend' \in Seq(Msg)
  BY DEF FinishFlight, Types
<1>5. Sent' = pend' /\ Len(Sent') = n /\ \A i \in 1..n : Sent'[i] = fin(i)
  <2>1. Sent' = <<>> \o pend'
    BY <1>2, <1>3 DEF Sent
  <2>2. Sent' = pend'
    BY <1>4, <2>1, ConcatEmptySeq
  <2>3. Len(pend') = n /\ \A i \in 1..n : pend'[i] = fin(i)
    BY <1>1, <1>4, SMTT(30)
  <2> QED BY <2>2, <2>3
<1>6. \A i \in 1..n : /\ fin(i).kind = "fin" /\ fin(i).gen = 0 /\ fin(i).seq = i - 1
                      /\ fin(i).body = IF i = n THEN <<"last">> ELSE <<>>
  BY DEF Rec
<1> HIDE DEF fin
<1>7. <<"last">> # <<>>
  OBVIOUS
<1>8. \A i \in 1..n : ClientRecord(fin(i))
  BY <1>6 DEF ClientRecord
<1>9. After(fin(n)) = Key(1, 0, "data", "")
  <2>1. fin(n).kind = "fin" /\ fin(n).gen = 0 /\ fin(n).body = <<"last">>
    BY <1>1, <1>6, SMTT(30)
  <2>2. Rotates(fin(n))
    BY <1>7, <2>1, SMTT(30) DEF Rotates
  <2> QED BY <1>7, <2>1, <2>2 DEF After
<1>10. ASSUME NEW i \in 1..(n - 1) PROVE Fits(After(fin(i)), fin(i + 1))
  <2>1. /\ fin(i).kind = "fin" /\ fin(i).gen = 0 /\ fin(i).seq = i - 1 /\ fin(i).body = <<>>
        /\ fin(i + 1).kind = "fin" /\ fin(i + 1).gen = 0 /\ fin(i + 1).seq = i
    <3>1. i \in 1..n /\ i # n /\ i + 1 \in 1..n /\ (i + 1) - 1 = i
      BY <1>1, SMTT(30)
    <3> QED BY <1>6, <3>1
  <2>2. ~Rotates(fin(i))
    BY <2>1 DEF Rotates
  <2>3. After(fin(i)) = Key(0, (i - 1) + 1, "hello", "")
    BY <2>1, <2>2 DEF After
  <2>4. (i - 1) + 1 = i
    BY <1>1
  <2> QED BY <2>1, <2>3, <2>4, FinFits, Zenon
<1>11. Fits(FirstKey, fin(1))
  <2>1. fin(1).kind = "fin" /\ fin(1).gen = 0 /\ fin(1).seq = 0
    BY <1>1, <1>6, SMTT(30)
  <2> QED BY <2>1 DEF Fits, FirstKey, Key, PhaseOf
<1>12. Chained(FirstKey, Sent') /\ Expected(FirstKey, Sent') = Key(1, 0, "data", "")
  <2>1. Sent' # <<>> /\ 1 \in 1..n /\ n \in 1..n
    BY <1>1, <1>5
  <2>2. \A i \in 1..(n - 1) : i \in 1..n /\ i + 1 \in 1..n
    BY <1>1
  <2> QED BY <1>5, <1>9, <1>10, <1>11, <2>1, <2>2, Zenon DEF Chained, Expected
<1>13. \A i \in 1..Len(Sent') : ClientRecord(Sent'[i])
  BY <1>5, <1>8
<1>14. srv_pos' <= Len(wire') /\ ServerExpects' = ServerExpects
  BY <1>2, Zenon DEF SendChain, ServerExpects
<1> QED BY <1>2, <1>12, <1>13, <1>14, Zenon DEF SendChain

\* The server reads the record it expects.
LEMMA SendChainReads ==
    ASSUME Types, SendChain, SrvReads
    PROVE  SendChain'
<1> DEFINE r == wire[srv_pos + 1]
<1>1. /\ srv_pos \in Nat /\ srv_pos < Len(wire) /\ Len(wire) \in Nat /\ srv_pos' = srv_pos + 1
      /\ srv_rgen \in Nat /\ srv_rseq \in Nat
      /\ UNCHANGED <<wire, pend, closed, state, send_gen, seq_out>>
  <2>1. srv_pos \in Nat /\ Len(wire) \in Nat /\ srv_rgen \in Nat /\ srv_rseq \in Nat
    BY SMTT(30) DEF Types
  <2>2. srv_pos < Len(wire) /\ srv_pos' = srv_pos + 1
    BY ZenonT(40) DEF SrvReads
  <2>3. UNCHANGED <<wire, pend, closed, state, send_gen, seq_out>>
    BY ZenonT(40) DEF SrvReads, engine, keys, pipe
  <2> QED BY <2>1, <2>2, <2>3
<1>2. desync' = (desync \/ r.gen # srv_rgen \/ r.seq # srv_rseq)
  BY Zenon DEF SrvReads
<1>3. /\ r.kind = "ku" \/ LastOfFlight(r) => srv_rgen' = srv_rgen + 1 /\ srv_rseq' = 0
      /\ ~(r.kind = "ku" \/ LastOfFlight(r)) => srv_rgen' = srv_rgen /\ srv_rseq' = srv_rseq + 1
  BY SMTT(30) DEF SrvReads
<1>4. srv_pos + 1 \in 1..Len(Sent) /\ r = Sent[srv_pos + 1] /\ ClientRecord(r)
  <2>1. srv_pos + 1 \in 1..Len(wire)
    BY <1>1
  <2>2. srv_pos + 1 \in 1..Len(Sent) /\ r = Sent[srv_pos + 1]
    BY <2>1, SentParts
  <2> QED BY <2>2, Zenon DEF SendChain
<1>5. Fits(ServerExpects, r)
  <2>1. CASE srv_pos = 0
    <3>1. Sent # <<>> /\ r = Sent[1]
      BY <1>1, <1>4, <2>1, SMTT(30)
    <3> HIDE DEF r
    <3> QED BY <2>1, <3>1, Zenon DEF SendChain, Chained, ServerExpects
  <2>2. CASE srv_pos # 0
    <3>1. srv_pos \in 1..(Len(Sent) - 1) /\ srv_pos \in 1..Len(wire)
      BY <1>1, <1>4, <2>2, SentParts, SMTT(30) DEF Types
    <3>2. Fits(After(Sent[srv_pos]), Sent[srv_pos + 1]) /\ Sent[srv_pos] = wire[srv_pos]
      BY <3>1, SentParts, Zenon DEF SendChain, Chained
    <3> HIDE DEF r
    <3> QED BY <1>4, <2>2, <3>2, SMTT(30) DEF ServerExpects
  <2> QED BY <2>1, <2>2, SMTT(30)
<1> HIDE DEF r
<1>6. r.gen = srv_rgen /\ r.seq = srv_rseq
  BY <1>5, Zenon DEF Fits, SendChain
<1>7. ~desync'
  BY <1>2, <1>6, Zenon DEF SendChain
<1>8. Rotates(r) <=> (r.kind = "ku" \/ LastOfFlight(r))
  <2>1. <<"last">> # <<>>
    OBVIOUS
  <2> QED BY <1>4, <2>1 DEF ClientRecord, Rotates, LastOfFlight
<1>9. After(r).gen = srv_rgen' /\ After(r).seq = srv_rseq'
  <2>1. r.kind \notin {"sh", "ccs"}
    BY <1>4 DEF ClientRecord
  <2>2. CASE Rotates(r)
    BY <1>3, <1>6, <1>8, <2>2 DEF After, Key
  <2>3. CASE ~Rotates(r)
    BY <1>3, <1>6, <1>8, <2>1, <2>3, SMTT(30) DEF After, Key
  <2> QED BY <2>2, <2>3, SMTT(30)
<1>10. ServerExpects' = After(r)
  BY <1>1 DEF ServerExpects, r
<1>11. Sent' = Sent
  BY <1>1 DEF Sent
<1>12. srv_pos' <= Len(wire')
  BY <1>1
<1> QED BY <1>1, <1>7, <1>9, <1>10, <1>11, <1>12, Zenon DEF SendChain

\* Every step keeps the client's records in the order of their keys.
LEMMA SendChainNext ==
    ASSUME Types, Types', Lifecycle, SendChain, [Next]_vars
    PROVE  SendChain'
<1>0. send_gen \in Nat /\ seq_out \in Nat /\ <<>> \in Seq(Words)
      /\ "ku" \in MsgKinds /\ "app" \in MsgKinds /\ "close" \in MsgKinds
  <2>1. send_gen \in Nat /\ seq_out \in Nat
    BY DEF Types
  <2>2. "ku" \in MsgKinds /\ "app" \in MsgKinds /\ "close" \in MsgKinds
    BY DEF MsgKinds
  <2> QED BY <2>1, <2>2, BodyTypes, SMTT(30)
<1> USE DEF engine, keys, api, pipe, server
<1>1. CASE SendOk \/ SendFails
  BY <1>1, SendChainSending
<1>2. CASE Connect
  <2>1. CASE \E n \in FinRecords : FinishFlight(n)
    BY <2>1, SendChainFinish, SMTT(30)
  <2>2. CASE ReadServerHello
    BY <2>2, SendFrame, SMTT(30) DEF ReadServerHello
  <2>3. CASE SkipCcs \/ FeedFlight
    BY <2>3, SendFrame DEF SkipCcs, FeedFlight
  <2>4. CASE HandshakeDone \/ ConnectFails \/ ConnectReadFails
    <3>1. CASE HandshakeDone
      <4>1. /\ UNCHANGED <<wire, pend, send_gen, seq_out, srv_pos, srv_rgen, srv_rseq, desync>>
            /\ ~closed' => ~closed /\ (state' = "App" <=> state = "App")
        BY <3>1, SMTT(30) DEF HandshakeDone
      <4> QED BY <4>1, SendFrame, SMTT(30)
    <3>2. CASE ConnectFails
      <4>1. /\ UNCHANGED <<wire, pend, send_gen, seq_out, srv_pos, srv_rgen, srv_rseq, desync>>
            /\ ~closed' => ~closed /\ (state' = "App" <=> state = "App")
        BY <3>2, SMTT(30) DEF ConnectFails
      <4> QED BY <4>1, SendFrame
    <3>3. CASE ConnectReadFails
      <4>1. /\ UNCHANGED <<wire, pend, send_gen, seq_out, srv_pos, srv_rgen, srv_rseq, desync>>
            /\ ~closed' => ~closed /\ (state' = "App" <=> state = "App")
        BY <3>3 DEF ConnectReadFails
      <4> QED BY <4>1, SendFrame
    <3> QED BY <2>4, <3>1, <3>2, <3>3, SMTT(30)
  <2> QED BY <1>2, <2>1, <2>2, <2>3, <2>4 DEF Connect
<1>3. CASE Read
  <2>1. CASE DataRefused
    <3>1. Refuse(Head(s2c))
      BY <2>1, Zenon DEF DataRefused
    <3> QED BY <3>1, SendFrame DEF Refuse
  <2>2. CASE DataApp \/ DataTicket
    <3>1. Consume /\ UNCHANGED <<closed, pend, send_gen, seq_out>>
      BY <2>2, Zenon DEF DataApp, DataTicket
    <3> QED BY <3>1, SendFrame, SMTT(30) DEF Consume
  <2>3. CASE DataCloseNotify
    <3>1. Consume /\ closed' /\ UNCHANGED <<pend, send_gen, seq_out>>
      BY <2>3, Zenon DEF DataCloseNotify
    <3> QED BY <3>1, SendFrame DEF Consume
  <2>4. CASE DataKeyUpdate
    <3>1. Consume /\ closed' = closed /\ ~closed /\ pend = <<>> /\ call \in {"read", "try_read"}
      BY <2>4, Zenon DEF DataKeyUpdate, Framing, Reading
    <3>2. state = "App"
      BY <3>1, OnceConnected, SMTT(30)
    <3>3. CASE LastOf(Head(s2c).body) = "K2r"
      <4> DEFINE r == Rec("ku", send_gen, seq_out, <<>>)
      <4>1. pend' = <<r>> /\ send_gen' = send_gen + 1 /\ seq_out' = 0
        BY <2>4, <3>3, Zenon DEF DataKeyUpdate
      <4>2. r \in Msg /\ r.kind = "ku" /\ r.gen = send_gen /\ r.seq = seq_out
        BY <1>0, BareRecord
      <4> HIDE DEF r
      <4>3. After(r) = Key(send_gen', seq_out', "data", "")
        <5>1. Rotates(r)
          BY <4>2 DEF Rotates
        <5> QED BY <4>1, <4>2, <5>1, SMTT(30) DEF After
      <4>4. ClientRecord(r) /\ Fits(Key(send_gen, seq_out, "data", ""), r)
        BY <4>2, DataFits, Zenon
      <4>5. UNCHANGED <<wire, state, srv_pos, srv_rgen, srv_rseq, desync>>
        BY <3>1, SMTT(30) DEF Consume
      <4> QED BY <3>1, <3>2, <4>1, <4>2, <4>3, <4>4, <4>5, SealsNext, ZenonT(40)
    <3>4. CASE LastOf(Head(s2c).body) # "K2r"
      <4>1. UNCHANGED <<pend, send_gen, seq_out>>
        BY <2>4, <3>4, Zenon DEF DataKeyUpdate
      <4> QED BY <3>1, <4>1, SendFrame, SMTT(30) DEF Consume
    <3> QED BY <3>3, <3>4, SMTT(30)
  <2>5. CASE \E n \in 1..Len(DownData) : ReadApp(n)
    BY <2>5, SendFrame, SMTT(30) DEF ReadApp
  <2>6. CASE ReadZero \/ ReadEof \/ ReadNothing
    <3>1. CASE ReadZero
      <4>1. /\ UNCHANGED <<wire, pend, send_gen, seq_out, srv_pos, srv_rgen, srv_rseq, desync>>
            /\ ~closed' => ~closed /\ (state' = "App" <=> state = "App")
        BY <3>1, SMTT(30) DEF ReadZero
      <4> QED BY <4>1, SendFrame
    <3>2. CASE ReadEof
      <4>1. /\ UNCHANGED <<wire, pend, send_gen, seq_out, srv_pos, srv_rgen, srv_rseq, desync>>
            /\ ~closed' => ~closed /\ (state' = "App" <=> state = "App")
        BY <3>2, SMTT(30) DEF ReadEof
      <4> QED BY <4>1, SendFrame
    <3>3. CASE ReadNothing
      <4>1. /\ UNCHANGED <<wire, pend, send_gen, seq_out, srv_pos, srv_rgen, srv_rseq, desync>>
            /\ ~closed' => ~closed /\ (state' = "App" <=> state = "App")
        BY <3>3, SMTT(30) DEF ReadNothing
      <4> QED BY <4>1, SendFrame
    <3> QED BY <2>6, <3>1, <3>2, <3>3
  <2> QED BY <1>3, <2>1, <2>2, <2>3, <2>4, <2>5, <2>6, SMTT(30) DEF Read
<1>4. CASE WriteChunk
  <2>1. PICK chunk \in Seq(Words) : pend' = <<Rec("app", send_gen, seq_out, chunk)>>
    BY <1>4, Chunk, SMTT(30)
  <2> DEFINE r == Rec("app", send_gen, seq_out, chunk)
  <2>2. r \in Msg /\ r.kind = "app" /\ r.gen = send_gen /\ r.seq = seq_out
    BY <1>0, RecType, SMTT(30)
  <2>3. /\ ~closed /\ state = "App" /\ pend = <<>> /\ send_gen' = send_gen
        /\ seq_out' = seq_out + 1
        /\ UNCHANGED <<wire, state, srv_pos, srv_rgen, srv_rseq, desync>>
    BY <1>4 DEF WriteChunk
  <2>4. pend' = <<r>>
    BY <2>1
  <2> HIDE DEF r
  <2>5. After(r) = Key(send_gen', seq_out', "data", "")
    <3>1. ~Rotates(r)
      BY <2>2 DEF Rotates
    <3> QED BY <2>2, <2>3, <3>1, SMTT(30) DEF After
  <2>6. ClientRecord(r) /\ Fits(Key(send_gen, seq_out, "data", ""), r)
    BY <2>2, DataFits, Zenon
  <2> QED BY <2>2, <2>3, <2>4, <2>5, <2>6, SealsNext, Zenon
<1>5. CASE WriteEnds \/ CloseEnds
  <2>1. CASE WriteEnds
    <3>1. /\ UNCHANGED <<wire, pend, send_gen, seq_out, srv_pos, srv_rgen, srv_rseq, desync>>
          /\ ~closed' => ~closed /\ (state' = "App" <=> state = "App")
      BY <2>1, SMTT(30) DEF WriteEnds
    <3> QED BY <3>1, SendFrame
  <2>2. CASE CloseEnds
    <3>1. /\ UNCHANGED <<wire, pend, send_gen, seq_out, srv_pos, srv_rgen, srv_rseq, desync>>
          /\ ~closed' => ~closed /\ (state' = "App" <=> state = "App")
      BY <2>2, SMTT(30) DEF CloseEnds
    <3> QED BY <3>1, SendFrame
  <2> QED BY <1>5, <2>1, <2>2, SMTT(30)
<1>6. CASE CloseNotify
  <2> DEFINE r == Rec("close", send_gen, seq_out, <<>>)
  <2>1. r \in Msg /\ r.kind = "close" /\ r.gen = send_gen /\ r.seq = seq_out
    BY <1>0, BareRecord, SMTT(30)
  <2>2. /\ ~closed /\ state = "App" /\ pend = <<>> /\ pend' = <<r>> /\ closed'
        /\ UNCHANGED <<wire, state, srv_pos, srv_rgen, srv_rseq, desync>>
    BY <1>6 DEF CloseNotify
  <2> HIDE DEF r
  <2>3. ClientRecord(r) /\ Fits(Key(send_gen, seq_out, "data", ""), r)
    BY <2>1, DataFits, Zenon
  <2> QED BY <2>1, <2>2, <2>3, SealsNext, Zenon
<1>7. CASE Call \/ DropStream
  <2>1. UNCHANGED <<wire, pend, send_gen, seq_out, srv_pos, srv_rgen, srv_rseq, desync,
                    closed, state>>
    BY <1>7, Zenon DEF Call, DropStream, Begin
  <2> QED BY <2>1, SendFrame, SMTT(30)
<1>8. CASE Gone \/ SrvEof \/ UNCHANGED vars
  <2>1. CASE Gone
    <3>1. /\ UNCHANGED <<wire, pend, send_gen, seq_out, srv_pos, srv_rgen, srv_rseq, desync>>
          /\ ~closed' => ~closed /\ (state' = "App" <=> state = "App")
      BY <2>1, SMTT(30) DEF Gone, vars
    <3> QED BY <3>1, SendFrame
  <2>2. CASE SrvEof
    <3>1. /\ UNCHANGED <<wire, pend, send_gen, seq_out, srv_pos, srv_rgen, srv_rseq, desync>>
          /\ ~closed' => ~closed /\ (state' = "App" <=> state = "App")
      BY <2>2, SMTT(30) DEF SrvEof
    <3> QED BY <3>1, SendFrame
  <2>3. CASE UNCHANGED vars
    <3>1. /\ UNCHANGED <<wire, pend, send_gen, seq_out, srv_pos, srv_rgen, srv_rseq, desync>>
          /\ ~closed' => ~closed /\ (state' = "App" <=> state = "App")
      BY <2>3 DEF vars
    <3> QED BY <3>1, SendFrame
  <2> QED BY <1>8, <2>1, <2>2, <2>3, SMTT(30)
<1>9. CASE Server
  <2>1. CASE SrvReads
    BY <2>1, SendChainReads, SMTT(30)
  <2>2. CASE ~SrvReads
    <3>1. \E kind, body : Emit(kind, body)
      BY <1>9, <2>2, Zenon DEF Server, SrvHello, SrvCcs, SrvFlight, SrvFinished, SrvApp,
                        SrvPostHandshake, SrvClose, SrvBad
    <3>2. /\ UNCHANGED <<wire, pend, send_gen, seq_out, srv_pos, srv_rgen, srv_rseq, desync>>
          /\ ~closed' => ~closed /\ (state' = "App" <=> state = "App")
      BY <3>1 DEF Emit
    <3> QED BY <3>2, SendFrame
  <2> QED BY <2>1, <2>2
<1> QED BY <1>1, <1>2, <1>3, <1>4, <1>5, <1>6, <1>7, <1>8, <1>9, SMTT(30) DEF Next, Client

-----------------------------------------------------------------------------
(* The server's records are the ones the client expects.                   *)

\* What is expected after each kind of record.
LEMMA AfterHello ==
    ASSUME NEW r \in Msg, r.kind = "sh" \/ r.kind = "ccs"
    PROVE  After(r) = Key(r.gen, r.seq, "hello", "")
BY Zenon DEF After, Rotates

\* After a record of the encrypted flight: the next of the flight.
LEMMA AfterFlight ==
    ASSUME NEW r \in Msg, r.kind = "flight"
    PROVE  After(r) = Key(r.gen, r.seq + 1, "hello", "")
BY DEF After, Rotates

\* After the server's Finished: the first record under the application keys.
LEMMA AfterFin ==
    ASSUME NEW r \in Msg, r.kind = "fin", r.body # <<>>
    PROVE  After(r) = Key(r.gen + 1, 0, "data", "")
BY DEF After, Rotates

\* After application data: the next record of the data phase.
LEMMA AfterApp ==
    ASSUME NEW r \in Msg, r.kind = "app"
    PROVE  After(r) = Key(r.gen, r.seq + 1, "data", "")
BY DEF After, Rotates

\* After close_notify: nothing.
LEMMA AfterClose ==
    ASSUME NEW r \in Msg, r.kind = "close"
    PROVE  After(r) = Key(r.gen, r.seq + 1, "closed", "")
BY DEF After, Rotates

\* After a ticket: the next record, with what the ticket's end left staged.
LEMMA AfterTicket ==
    ASSUME NEW r \in Msg, r.kind = "hs", LastOf(r.body) \notin {"K2r", "K2n"}
    PROVE  After(r) = Key(r.gen, r.seq + 1, "data", Staged(LastOf(r.body)))
BY DEF After, Rotates

\* After a KeyUpdate: the first record of the next generation.
LEMMA AfterUpdate ==
    ASSUME NEW r \in Msg, r.kind = "hs", LastOf(r.body) \in {"K2r", "K2n"}
    PROVE  After(r) = Key(r.gen + 1, 0, "data", "")
<1>1. Staged(LastOf(r.body)) = ""
  BY Zenon DEF Staged
<1> QED BY <1>1, Zenon DEF After, Rotates

\* The kinds of a phase.
LEMMA PhaseKinds ==
    ASSUME NEW r \in Msg, ServerRecord(r)
    PROVE  /\ PhaseOf(r) = "start" => r.kind = "sh"
           /\ PhaseOf(r) = "hello" => r.kind \in {"ccs", "flight", "fin"}
           /\ PhaseOf(r) = "data" => r.kind \in {"app", "hs", "close"}
BY SMTT(30) DEF ServerRecord, PhaseOf

\* The next record of a server that keeps to the protocol.
LEMMA NextRecord ==
    ASSUME Types, RecvChain, bad = 0, ~closed, s2c # <<>>
    PROVE  /\ Head(s2c) \in Msg /\ ServerRecord(Head(s2c))
           /\ Head(s2c).gen = recv_gen /\ Head(s2c).seq = seq_in
           /\ PhaseOf(Head(s2c)) = ClientPhase
           /\ Head(s2c).kind # "hs" => ph = ""
<1>1. s2c \in Seq(Msg) /\ Head(s2c) = s2c[1] /\ 1 \in 1..Len(s2c) /\ Head(s2c) \in Msg
  BY HeadTailProperties DEF Types
<1>2. ServerRecord(Head(s2c))
  BY <1>1, Zenon DEF RecvChain
<1>3. Fits(ClientExpects, Head(s2c))
  BY <1>1, ChainTail, Zenon DEF RecvChain
<1> HIDE DEF RecvChain
<1> QED BY <1>1, <1>2, <1>3, Zenon DEF Fits, ClientExpects, Key

\* A step that takes no record from the server.
LEMMA RecvFrame ==
    ASSUME RecvChain, UNCHANGED <<s2c, srv, srv_stage, srv_gen, srv_seq, bad>>,
           bad = 0 => result' # "err",
           bad = 0 /\ ~closed' => ~closed /\ ClientExpects' = ClientExpects
    PROVE  RecvChain'
BY Zenon DEF RecvChain

\* A step that takes the next record.
LEMMA RecvTail ==
    ASSUME Types, RecvChain, s2c # <<>>, s2c' = Tail(s2c),
           UNCHANGED <<srv, srv_stage, srv_gen, srv_seq, bad>>,
           bad = 0 => result' # "err",
           bad = 0 /\ ~closed' => ~closed /\ ClientExpects' = After(Head(s2c))
    PROVE  RecvChain'
<1>1. /\ s2c \in Seq(Msg) /\ Len(s2c) \in Nat /\ Len(s2c') = Len(s2c) - 1
      /\ \A i \in 1..Len(s2c') : s2c'[i] = s2c[i + 1] /\ i + 1 \in 1..Len(s2c)
  <2>1. s2c \in Seq(Msg) /\ Len(s2c) \in Nat
    BY DEF Types
  <2>2. Len(s2c') = Len(s2c) - 1 /\ \A i \in 1..Len(s2c') : s2c'[i] = s2c[i + 1]
    BY <2>1, HeadTailProperties, SMTT(30)
  <2> QED BY <2>1, <2>2, SMTT(30)
<1>2. bad = 0 => \A i \in 1..Len(s2c') : ServerRecord(s2c'[i])
  BY <1>1, Zenon DEF RecvChain
<1>3. ASSUME bad = 0, ~closed'
      PROVE  /\ Chained(ClientExpects', s2c')
             /\ Expected(ClientExpects', s2c') = Key(srv_gen, srv_seq, srv, srv_stage)
  <2>1. /\ Chained(ClientExpects, s2c)
        /\ Expected(ClientExpects, s2c) = Key(srv_gen, srv_seq, srv, srv_stage)
    BY <1>3, Zenon DEF RecvChain
  <2>2. /\ Chained(After(Head(s2c)), Tail(s2c))
        /\ Expected(After(Head(s2c)), Tail(s2c)) = Expected(ClientExpects, s2c)
    BY <1>1, <2>1, ChainTail, SMTT(30)
  <2> QED BY <1>3, <2>1, <2>2, SMTT(30)
<1>4. srv' \in {"start", "hello"} => srv_gen' = 0 /\ srv_stage' = ""
  BY ZenonT(40) DEF RecvChain
<1> QED BY <1>2, <1>3, <1>4, Zenon DEF RecvChain

\* One more of the server's records.
LEMMA ServerAppend ==
    ASSUME NEW w \in Seq(Msg), NEW r \in Msg, ServerRecord(r),
           \A i \in 1..Len(w) : ServerRecord(w[i])
    PROVE  \A i \in 1..Len(Append(w, r)) : ServerRecord(Append(w, r)[i])
<1>1. /\ Len(Append(w, r)) = Len(w) + 1 /\ Append(w, r)[Len(w) + 1] = r
      /\ \A i \in 1..Len(w) : Append(w, r)[i] = w[i]
  BY AppendProperties
<1>2. Len(w) \in Nat /\ \A i \in 1..(Len(w) + 1) : i \in 1..Len(w) \/ i = Len(w) + 1
  OBVIOUS
<1> QED BY <1>1, <1>2

\* The server seals one more record.
LEMMA RecvAppend ==
    ASSUME Types, RecvChain, NEW r \in Msg, s2c' = Append(s2c, r),
           UNCHANGED <<result, closed>>, ClientExpects' = ClientExpects,
           (srv' = "start" \/ srv' = "hello") => srv_gen' = 0 /\ srv_stage' = "",
           bad' = 0 => /\ bad = 0 /\ ServerRecord(r)
                       /\ Fits(Key(srv_gen, srv_seq, srv, srv_stage), r)
                       /\ After(r) = Key(srv_gen', srv_seq', srv', srv_stage')
    PROVE  RecvChain'
<1>1. s2c \in Seq(Msg)
  BY ZenonT(40) DEF Types
<1>3. bad' = 0 => \A i \in 1..Len(s2c') : ServerRecord(s2c'[i])
  BY <1>1, ServerAppend, Zenon DEF RecvChain
<1>4. ASSUME bad' = 0, ~closed'
      PROVE  /\ Chained(ClientExpects', s2c')
             /\ Expected(ClientExpects', s2c') = Key(srv_gen', srv_seq', srv', srv_stage')
  <2>1. /\ Chained(ClientExpects, s2c)
        /\ Expected(ClientExpects, s2c) = Key(srv_gen, srv_seq, srv, srv_stage)
    BY <1>4, Zenon DEF RecvChain
  <2>2. /\ Chained(ClientExpects, Append(s2c, r))
        /\ Expected(ClientExpects, Append(s2c, r)) = After(r)
    BY <1>1, <1>4, <2>1, ChainAppend, Zenon
  <2> QED BY <1>4, <2>2, Zenon
<1>5. bad' = 0 => result' # "err"
  BY Zenon DEF RecvChain
<1> QED BY <1>3, <1>4, <1>5, Zenon DEF RecvChain

\* Return changes nothing but the call.
LEMMA RecvReturn ==
    ASSUME RecvChain, NEW r, Return(r), r # "err", UNCHANGED <<engine, keys, s2c, server>>
    PROVE  RecvChain'
<1>1. result' = r
  BY SMTT(30) DEF Return
<1>2. UNCHANGED <<s2c, srv, srv_stage, srv_gen, srv_seq, bad, closed, state, ph, recv_gen, seq_in>>
  BY DEF engine, keys, server
<1>3. ClientExpects' = ClientExpects
  BY <1>2, SMTT(30) DEF ClientExpects, ClientPhase
<1> QED BY <1>1, <1>2, <1>3, RecvFrame

\* connect fails with an error of the engine only on a record it refuses.
LEMMA Refusal ==
    ASSUME HsFailure = "err"
    PROVE  /\ ~closed /\ s2c # <<>> /\ state \in {"WaitServerHello", "WaitFlight"}
           /\ HsRefuses(Head(s2c))
<1>1. CASE parked # <<>>
  <2>1. HsFailure = "internal"
    BY <1>1 DEF HsFailure
  <2> QED BY <2>1
<1>2. CASE parked = <<>> /\ closed
  <2>1. HsFailure = "closed"
    BY <1>2 DEF HsFailure
  <2> QED BY <2>1
<1>3. CASE parked = <<>> /\ ~closed /\ s2c = <<>>
  <2>1. HsFailure = "eof" \/ HsFailure = "none"
    BY <1>3, SMTT(30) DEF HsFailure
  <2> QED BY <2>1, SMTT(30)
<1>4. CASE parked = <<>> /\ ~closed /\ s2c # <<>> /\ state \notin {"WaitServerHello", "WaitFlight"}
  <2>1. HsFailure = "internal"
    BY <1>4 DEF HsFailure
  <2> QED BY <2>1
<1>5. CASE /\ parked = <<>> /\ ~closed /\ s2c # <<>> /\ state \in {"WaitServerHello", "WaitFlight"}
           /\ ~HsRefuses(Head(s2c))
  <2>1. HsFailure = "none"
    BY <1>5, SMTT(30) DEF HsFailure
  <2> QED BY <2>1
<1> QED BY <1>1, <1>2, <1>3, <1>4, <1>5, SMTT(30)

\* connect takes the server's records in order and refuses none.
LEMMA RecvConnect ==
    ASSUME Types, Lifecycle, RecvChain, Connect
    PROVE  RecvChain'
<1> DEFINE r == Head(s2c)
<1>0. bad = 0 => result # "err"
  BY Zenon DEF RecvChain
<1>1. CASE ReadServerHello
  <2>1. /\ s2c # <<>> /\ s2c' = Tail(s2c) /\ r.kind = "sh" /\ state' = "WaitFlight" /\ ~closed
        /\ UNCHANGED <<srv, srv_stage, srv_gen, srv_seq, bad, result, closed, ph, recv_gen, seq_in>>
    BY <1>1 DEF ReadServerHello, HsFraming, keys, api, server
  <2>2. ASSUME bad = 0 PROVE ClientExpects' = After(r)
    <3>1. r \in Msg /\ r.gen = recv_gen /\ r.seq = seq_in /\ ph = ""
      BY <2>1, <2>2, NextRecord, ZenonT(40)
    <3>2. After(r) = Key(r.gen, r.seq, "hello", "")
      BY <2>1, <3>1, AfterHello, Zenon
    <3> HIDE DEF r
    <3> QED BY <2>1, <3>1, <3>2, ZenonT(40) DEF ClientExpects, ClientPhase
  <2> QED BY <1>0, <2>1, <2>2, RecvTail, SMTT(30)
<1>2. CASE SkipCcs
  <2>1. /\ s2c # <<>> /\ s2c' = Tail(s2c) /\ r.kind = "ccs" /\ state = "WaitFlight" /\ ~closed
        /\ UNCHANGED <<state, srv, srv_stage, srv_gen, srv_seq, bad, result, closed, ph,
                       recv_gen, seq_in>>
    BY <1>2 DEF SkipCcs, HsFraming, engine, keys, api, server
  <2>2. ASSUME bad = 0 PROVE ClientExpects' = After(r)
    <3>1. r \in Msg /\ r.gen = recv_gen /\ r.seq = seq_in /\ ph = ""
      BY <2>1, <2>2, NextRecord, ZenonT(40)
    <3>2. After(r) = Key(r.gen, r.seq, "hello", "")
      BY <2>1, <3>1, AfterHello, Zenon
    <3> HIDE DEF r
    <3> QED BY <2>1, <3>1, <3>2, ZenonT(40) DEF ClientExpects, ClientPhase
  <2> QED BY <1>0, <2>1, <2>2, RecvTail, SMTT(30)
<1>3. CASE FeedFlight
  <2>1. /\ s2c # <<>> /\ s2c' = Tail(s2c) /\ r.kind = "flight" /\ state = "WaitFlight" /\ ~closed
        /\ seq_in' = seq_in + 1
        /\ UNCHANGED <<state, srv, srv_stage, srv_gen, srv_seq, bad, result, closed, ph, recv_gen>>
    BY <1>3 DEF FeedFlight, HsFraming, engine, api, server
  <2>2. ASSUME bad = 0 PROVE ClientExpects' = After(r)
    <3>1. r \in Msg /\ r.gen = recv_gen /\ r.seq = seq_in /\ ph = ""
      BY <2>1, <2>2, NextRecord, ZenonT(40)
    <3>2. After(r) = Key(r.gen, r.seq + 1, "hello", "")
      BY <2>1, <3>1, AfterFlight, ZenonT(40)
    <3> HIDE DEF r
    <3> QED BY <2>1, <3>1, <3>2, Zenon DEF ClientExpects, ClientPhase
  <2> QED BY <1>0, <2>1, <2>2, RecvTail, SMTT(30)
<1>4. CASE \E n \in FinRecords : FinishFlight(n)
  <2>1. /\ s2c # <<>> /\ s2c' = Tail(s2c) /\ r.kind = "fin" /\ r.body = <<"good">>
        /\ state = "WaitFlight" /\ state' = "App" /\ ~closed
        /\ recv_gen' = 1 /\ seq_in' = 0
        /\ UNCHANGED <<srv, srv_stage, srv_gen, srv_seq, bad, result, closed, ph>>
    BY <1>4, Zenon DEF FinishFlight, HsFraming, api, server
  <2>2. ASSUME bad = 0 PROVE ClientExpects' = After(r)
    <3>1. r \in Msg /\ r.gen = recv_gen /\ ph = ""
      BY <2>1, <2>2, NextRecord, ZenonT(40)
    <3>2. After(r) = Key(r.gen + 1, 0, "data", "")
      <4>1. <<"good">> # <<>>
        BY SMTT(30)
      <4> QED BY <2>1, <3>1, <4>1, AfterFin, Zenon
    <3>3. recv_gen = 0
      BY <2>1 DEF Lifecycle
    <3>4. recv_gen + 1 = 1
      BY <3>3, SMTT(30)
    <3> HIDE DEF r
    <3> QED BY <2>1, <3>1, <3>2, <3>4, ZenonT(40) DEF ClientExpects, ClientPhase
  <2> QED BY <1>0, <2>1, <2>2, RecvTail, SMTT(30)
<1>5. CASE HandshakeDone
  <2>1. /\ result' = "ok" /\ UNCHANGED <<s2c, srv, srv_stage, srv_gen, srv_seq, bad, closed, state,
                                         ph, recv_gen, seq_in>>
    BY <1>5 DEF HandshakeDone, Return, keys, pipe, server
  <2>2. ClientExpects' = ClientExpects
    BY <2>1, SMTT(30) DEF ClientExpects, ClientPhase
  <2> QED BY <2>1, <2>2, RecvFrame
<1>6. CASE ConnectFails
  <2>1. Return(HsFailure) /\ UNCHANGED <<engine, keys, s2c, server>>
    BY <1>6 DEF ConnectFails, pipe
  <2>2. result' = HsFailure
      /\ UNCHANGED <<s2c, srv, srv_stage, srv_gen, srv_seq, bad, closed, state,
                     ph, recv_gen, seq_in>>
    BY <2>1 DEF Return, engine, keys, server
  <2>3. ClientExpects' = ClientExpects
    BY <2>2 DEF ClientExpects, ClientPhase
  <2>4. ASSUME bad = 0, HsFailure = "err" PROVE FALSE
    <3>1. /\ ~closed /\ s2c # <<>> /\ state \in {"WaitServerHello", "WaitFlight"}
          /\ HsRefuses(r)
      BY <2>4, Refusal, SMTT(30)
    <3>2. /\ r \in Msg /\ ServerRecord(r) /\ r.gen = recv_gen /\ r.seq = seq_in
          /\ PhaseOf(r) = ClientPhase
      BY <2>4, <3>1, NextRecord, Zenon
    <3> HIDE DEF r
    <3>3. CASE state = "WaitServerHello"
      <4>1. r.kind = "sh"
        BY <3>2, <3>3, PhaseKinds, SMTT(30) DEF ClientPhase
      <4> QED BY <3>1, <3>3, <4>1 DEF HsRefuses
    <3>4. CASE state = "WaitFlight"
      <4>1. r.kind \in {"ccs", "flight", "fin"}
        BY <3>2, <3>4, PhaseKinds, SMTT(30) DEF ClientPhase
      <4>2. r.body # <<"forged">> \/ r.kind = "ccs"
        <5>1. <<"good">> # <<"forged">> /\ <<>> # <<"forged">>
          OBVIOUS
        <5> QED BY <3>2, <4>1, <5>1, SMTT(30) DEF ServerRecord
      <4>3. r.kind # "ccs" => Opens(r)
        BY <3>2, <4>1, SMTT(30) DEF Opens
      <4> QED BY <3>1, <3>4, <4>1, <4>2, <4>3, SMTT(30) DEF HsRefuses
    <3> QED BY <3>1, <3>3, <3>4, SMTT(30)
  <2>5. bad = 0 => result' # "err"
    BY <2>2, <2>4, SMTT(30)
  <2> QED BY <2>2, <2>3, <2>5, RecvFrame, SMTT(30)
<1>7. CASE ConnectReadFails
  <2>1. Return("io") /\ UNCHANGED <<engine, keys, s2c, server>>
    BY <1>7, SMTT(30) DEF ConnectReadFails
  <2> QED BY <2>1, RecvReturn, SMTT(30)
<1> QED BY <1>1, <1>2, <1>3, <1>4, <1>5, <1>6, <1>7, SMTT(30) DEF Connect

\* What read takes from a server that keeps to the protocol.
LEMMA ReadRecord ==
    ASSUME Types, Lifecycle, RecvChain, bad = 0, Framing, s2c # <<>>
    PROVE  /\ state = "App" /\ ~closed
           /\ Head(s2c) \in Msg /\ ServerRecord(Head(s2c)) /\ Opens(Head(s2c))
           /\ Head(s2c).gen = recv_gen /\ Head(s2c).seq = seq_in
           /\ Head(s2c).kind \in {"app", "hs", "close"}
           /\ Head(s2c).kind # "hs" => ph = ""
<1> DEFINE r == Head(s2c)
<1>1. ~closed /\ call \notin {"connect", "gone"}
  BY DEF Framing, Reading
<1>2. state = "App"
  BY <1>1, OnceConnected, SMTT(30)
<1>3. /\ r \in Msg /\ ServerRecord(r) /\ r.gen = recv_gen /\ r.seq = seq_in
      /\ PhaseOf(r) = ClientPhase /\ (r.kind # "hs" => ph = "")
  BY <1>1, NextRecord, Zenon
<1>4. ClientPhase = "data"
  BY <1>2, SMTT(30) DEF ClientPhase
<1> HIDE DEF r
<1>5. r.kind \in {"app", "hs", "close"}
  BY <1>3, <1>4, PhaseKinds, Zenon
<1>6. Opens(r)
  BY <1>3, <1>5, Zenon DEF Opens
<1> QED BY <1>1, <1>2, <1>3, <1>5, <1>6, Zenon DEF r

\* read takes the server's records in order and refuses none.
LEMMA RecvRead ==
    ASSUME Types, Lifecycle, RecvChain, Read
    PROVE  RecvChain'
<1> DEFINE r == Head(s2c)
<1>0. bad = 0 => result # "err"
  BY Zenon DEF RecvChain
<1>1. CASE DataRefused
  <2>1. /\ Framing /\ s2c # <<>> /\ Refuse(r)
        /\ (~Opens(r)) \/ (r.kind \notin {"app", "close", "hs"}) \/ (r.kind # "hs" /\ ph # "")
    BY <1>1, Zenon DEF DataRefused
  <2>2. bad # 0
    <3>1. SUFFICES ASSUME bad = 0 PROVE FALSE
      BY SMTT(30)
    <3>2. Opens(r) /\ r.kind \in {"app", "hs", "close"} /\ (r.kind # "hs" => ph = "")
      BY <2>1, <3>1, ReadRecord, ZenonT(40)
    <3> HIDE DEF r
    <3> QED BY <2>1, <3>2, Zenon
  <2>3. UNCHANGED <<srv, srv_stage, srv_gen, bad>>
    BY <2>1, Zenon DEF Refuse, server
  <2> QED BY <2>2, <2>3, Zenon DEF RecvChain
<1>2. CASE DataApp
  <2>1. /\ Framing /\ s2c # <<>> /\ s2c' = Tail(s2c) /\ r.kind = "app" /\ seq_in' = seq_in + 1
        /\ UNCHANGED <<state, srv, srv_stage, srv_gen, srv_seq, bad, result, closed, ph, recv_gen>>
    BY <1>2, Zenon DEF DataApp, Consume, api, server
  <2>2. ASSUME bad = 0 PROVE ClientExpects' = After(r) /\ ~closed
    <3>1. r \in Msg /\ r.gen = recv_gen /\ r.seq = seq_in /\ ph = "" /\ state = "App" /\ ~closed
      BY <2>1, <2>2, ReadRecord, ZenonT(40)
    <3>2. After(r) = Key(r.gen, r.seq + 1, "data", "")
      BY <2>1, <3>1, AfterApp, Zenon
    <3> HIDE DEF r
    <3> QED BY <2>1, <3>1, <3>2, ZenonT(40) DEF ClientExpects, ClientPhase
  <2>3. /\ UNCHANGED <<srv, srv_stage, srv_gen, srv_seq, bad>> /\ (bad = 0 => result' # "err")
        /\ bad = 0 /\ ~closed' => ~closed /\ ClientExpects' = After(Head(s2c))
    BY <1>0, <2>1, <2>2, Zenon
  <2> QED BY <2>1, <2>3, RecvTail, Zenon
<1>3. CASE DataCloseNotify
  <2>1. /\ s2c # <<>> /\ s2c' = Tail(s2c) /\ closed'
        /\ UNCHANGED <<srv, srv_stage, srv_gen, srv_seq, bad, result>>
    BY <1>3, ZenonT(40) DEF DataCloseNotify, Consume, api, server
  <2> QED BY <1>0, <2>1, RecvTail, SMTT(30)
<1>4. CASE DataTicket
  <2>1. /\ Framing /\ s2c # <<>> /\ s2c' = Tail(s2c) /\ seq_in' = seq_in + 1
        /\ r.kind = "hs" /\ LastOf(r.body) \notin {"K2r", "K2n"} /\ ph' = Staged(LastOf(r.body))
        /\ UNCHANGED <<state, srv, srv_stage, srv_gen, srv_seq, bad, result, closed, recv_gen>>
    BY <1>4, Zenon DEF DataTicket, Consume, api, server
  <2>2. ASSUME bad = 0 PROVE ClientExpects' = After(r) /\ ~closed
    <3>1. r \in Msg /\ r.gen = recv_gen /\ r.seq = seq_in /\ state = "App" /\ ~closed
      BY <2>1, <2>2, ReadRecord, ZenonT(40)
    <3>2. After(r) = Key(r.gen, r.seq + 1, "data", Staged(LastOf(r.body)))
      BY <2>1, <3>1, AfterTicket, ZenonT(40)
    <3> HIDE DEF r
    <3> QED BY <2>1, <3>1, <3>2, SMTT(30) DEF ClientExpects, ClientPhase
  <2> QED BY <1>0, <2>1, <2>2, RecvTail, SMTT(30)
<1>5. CASE DataKeyUpdate
  <2>1. /\ Framing /\ s2c # <<>> /\ s2c' = Tail(s2c)
        /\ recv_gen' = recv_gen + 1 /\ seq_in' = 0 /\ ph' = ""
        /\ r.kind = "hs" /\ LastOf(r.body) \in {"K2r", "K2n"}
        /\ UNCHANGED <<state, srv, srv_stage, srv_gen, srv_seq, bad, result, closed>>
    BY <1>5, Zenon DEF DataKeyUpdate, Consume, api, server
  <2>2. ASSUME bad = 0 PROVE ClientExpects' = After(r) /\ ~closed
    <3>1. r \in Msg /\ r.gen = recv_gen /\ state = "App" /\ ~closed
      BY <2>1, <2>2, ReadRecord, ZenonT(40)
    <3>2. After(r) = Key(r.gen + 1, 0, "data", "")
      BY <2>1, <3>1, AfterUpdate, Zenon
    <3> HIDE DEF r
    <3> QED BY <2>1, <3>1, <3>2, Zenon DEF ClientExpects, ClientPhase
  <2> QED BY <1>0, <2>1, <2>2, RecvTail, ZenonT(40)
<1>6. CASE \E n \in 1..Len(DownData) : ReadApp(n)
  <2>1. /\ result' = "data" /\ UNCHANGED <<s2c, srv, srv_stage, srv_gen, srv_seq, bad, closed, state,
                                           ph, recv_gen, seq_in>>
    BY <1>6 DEF ReadApp, Return, keys, pipe, server
  <2>2. ClientExpects' = ClientExpects
    BY <2>1 DEF ClientExpects, ClientPhase
  <2> QED BY <2>1, <2>2, RecvFrame
<1>7. CASE ReadZero
  <2>1. Return("zero") /\ UNCHANGED <<engine, keys, s2c, server>>
    BY <1>7 DEF ReadZero, pipe
  <2> QED BY <2>1, RecvReturn, SMTT(30)
<1>8. CASE ReadEof
  <2>1. Return("eof") /\ UNCHANGED <<engine, keys, s2c, server>>
    BY <1>8, SMTT(30) DEF ReadEof, pipe
  <2> QED BY <2>1, RecvReturn, SMTT(30)
<1>9. CASE ReadNothing
  <2>1. UNCHANGED <<engine, keys, s2c, server>> /\ (Return("none") \/ Return("io"))
    BY <1>9, SMTT(30) DEF ReadNothing
  <2> QED BY <2>1, RecvReturn, SMTT(30)
<1> QED BY <1>1, <1>2, <1>3, <1>4, <1>5, <1>6, <1>7, <1>8, <1>9, SMTT(30) DEF Read

\* What the engine sees of a record the server seals.
LEMMA EmitFrame ==
    ASSUME Types, NEW kind \in MsgKinds, NEW body \in Seq(Words), Emit(kind, body)
    PROVE  \E r \in Msg : /\ r.kind = kind /\ r.gen = srv_gen /\ r.seq = srv_seq /\ r.body = body
                          /\ s2c' = Append(s2c, r)
                          /\ UNCHANGED <<result, closed>> /\ ClientExpects' = ClientExpects
<1>1. /\ Rec(kind, srv_gen, srv_seq, body) \in Msg
      /\ s2c' = Append(s2c, Rec(kind, srv_gen, srv_seq, body))
      /\ UNCHANGED <<result, closed, state, ph, recv_gen, seq_in>>
  BY Emitted
<1>2. ClientExpects' = ClientExpects
  BY <1>1, SMTT(30) DEF ClientExpects, ClientPhase
<1>3. srv_gen \in Nat /\ srv_seq \in Nat
  BY SMTT(30) DEF Types
<1> DEFINE r == Rec(kind, srv_gen, srv_seq, body)
<1>4. r.kind = kind /\ r.gen = srv_gen /\ r.seq = srv_seq /\ r.body = body /\ r \in Msg
  BY <1>3, RecType, SMTT(30)
<1>5. s2c' = Append(s2c, r)
  BY <1>1, SMTT(30)
<1> HIDE DEF r
<1> QED BY <1>1, <1>2, <1>4, <1>5, SMTT(30)

\* A record fits a server that is where it belongs.
LEMMA ServerFits ==
    ASSUME NEW r \in Msg, NEW phase, NEW stage, PhaseOf(r) = phase, r.kind # "hs" => stage = ""
    PROVE  Fits(Key(r.gen, r.seq, phase, stage), r)
BY Zenon DEF Fits, Key

\* A count that goes up is not zero.
LEMMA CountedUp == (\A n \in Nat : n + 1 # 0) /\ 0 + 1 = 1
OBVIOUS

\* The server's records follow each other.
LEMMA RecvServer ==
    ASSUME Types, RecvChain, Server
    PROVE  RecvChain'
<1>0. /\ "sh" \in MsgKinds /\ "ccs" \in MsgKinds /\ "flight" \in MsgKinds /\ "fin" \in MsgKinds
      /\ "app" \in MsgKinds /\ "hs" \in MsgKinds /\ "close" \in MsgKinds
      /\ "alert" \in MsgKinds /\ "damaged" \in MsgKinds
  BY SMTT(30) DEF MsgKinds
<1>c. bad \in Nat /\ bad + 1 # 0
  BY CountedUp, SMTT(30) DEF Types
<1>a. /\ (srv = "start" \/ srv = "hello") => srv_gen = 0 /\ srv_stage = ""
  BY Zenon DEF RecvChain
<1>b. <<>> \in Seq(Words) /\ <<"good">> \in Seq(Words) /\ <<"forged">> \in Seq(Words)
      /\ \A body \in HsBodies : body \in Seq(Words)
  BY BodyTypes, SMTT(30)
<1>1. CASE SrvHello
  <2>1. /\ srv = "start" /\ srv' = "hello" /\ Emit("sh", <<>>)
        /\ UNCHANGED <<srv_stage, srv_gen, srv_seq, bad>>
    BY <1>1, SMTT(30) DEF SrvHello
  <2>2. PICK r \in Msg : /\ r.kind = "sh" /\ r.gen = srv_gen /\ r.seq = srv_seq
                         /\ s2c' = Append(s2c, r)
                         /\ UNCHANGED <<result, closed>> /\ ClientExpects' = ClientExpects
    BY <1>0, <1>b, <2>1, EmitFrame, Zenon
  <2>3. ServerRecord(r) /\ PhaseOf(r) = srv
    BY <2>1, <2>2, SMTT(30) DEF ServerRecord, PhaseOf
  <2>4. Fits(Key(srv_gen, srv_seq, srv, srv_stage), r)
    BY <1>a, <2>1, <2>2, <2>3, ServerFits, ZenonT(40)
  <2>5. After(r) = Key(srv_gen', srv_seq', srv', srv_stage')
    BY <1>a, <2>1, <2>2, AfterHello, ZenonT(40)
  <2> QED BY <1>a, <2>1, <2>2, <2>3, <2>4, <2>5, RecvAppend, ZenonT(40)
<1>2. CASE SrvCcs
  <2>1. /\ srv = "hello" /\ Emit("ccs", <<>>)
        /\ UNCHANGED <<srv, srv_stage, srv_gen, srv_seq, bad>>
    BY <1>2, SMTT(30) DEF SrvCcs
  <2>2. PICK r \in Msg : /\ r.kind = "ccs" /\ r.gen = srv_gen /\ r.seq = srv_seq
                         /\ s2c' = Append(s2c, r)
                         /\ UNCHANGED <<result, closed>> /\ ClientExpects' = ClientExpects
    BY <1>0, <1>b, <2>1, EmitFrame, ZenonT(40)
  <2>3. ServerRecord(r) /\ PhaseOf(r) = srv
    BY <2>1, <2>2 DEF ServerRecord, PhaseOf
  <2>4. Fits(Key(srv_gen, srv_seq, srv, srv_stage), r)
    BY <1>a, <2>1, <2>2, <2>3, ServerFits, Zenon
  <2>5. After(r) = Key(srv_gen', srv_seq', srv', srv_stage')
    BY <1>a, <2>1, <2>2, AfterHello, ZenonT(40)
  <2> QED BY <1>a, <2>1, <2>2, <2>3, <2>4, <2>5, RecvAppend, Zenon
<1>3. CASE SrvFlight
  <2>1. /\ srv = "hello" /\ Emit("flight", <<>>) /\ srv_seq' = srv_seq + 1
        /\ UNCHANGED <<srv, srv_stage, srv_gen, bad>>
    BY <1>3, SMTT(30) DEF SrvFlight
  <2>2. PICK r \in Msg : /\ r.kind = "flight" /\ r.gen = srv_gen /\ r.seq = srv_seq /\ r.body = <<>>
                         /\ s2c' = Append(s2c, r)
                         /\ UNCHANGED <<result, closed>> /\ ClientExpects' = ClientExpects
    BY <1>0, <1>b, <2>1, EmitFrame, ZenonT(40)
  <2>3. ServerRecord(r) /\ PhaseOf(r) = srv
    BY <2>1, <2>2 DEF ServerRecord, PhaseOf
  <2>4. Fits(Key(srv_gen, srv_seq, srv, srv_stage), r)
    BY <1>a, <2>1, <2>2, <2>3, ServerFits, ZenonT(40)
  <2>5. After(r) = Key(srv_gen', srv_seq', srv', srv_stage')
    BY <1>a, <2>1, <2>2, AfterFlight, Zenon
  <2> QED BY <1>a, <2>1, <2>2, <2>3, <2>4, <2>5, RecvAppend, ZenonT(40)
<1>4. CASE SrvFinished
  <2>1. srv = "hello" /\ srv' = "data" /\ srv_gen' = 1 /\ srv_seq' = 0 /\ UNCHANGED srv_stage
    BY <1>4, SMTT(30) DEF SrvFinished
  <2>2. CASE Emit("fin", <<"good">>) /\ UNCHANGED bad
    <3>1. PICK r \in Msg : /\ r.kind = "fin" /\ r.gen = srv_gen /\ r.seq = srv_seq
                           /\ r.body = <<"good">>
                           /\ s2c' = Append(s2c, r)
                           /\ UNCHANGED <<result, closed>> /\ ClientExpects' = ClientExpects
      <4>1. \A body \in Seq(Words) : Emit("fin", body) =>
              \E r \in Msg : /\ r.kind = "fin" /\ r.gen = srv_gen /\ r.seq = srv_seq /\ r.body = body
                             /\ s2c' = Append(s2c, r)
                             /\ UNCHANGED <<result, closed>> /\ ClientExpects' = ClientExpects
        BY <1>0, EmitFrame
      <4> QED BY <1>b, <2>2, <4>1, Zenon
    <3>2. ServerRecord(r) /\ PhaseOf(r) = srv
      BY <2>1, <3>1, SMTT(30) DEF ServerRecord, PhaseOf
    <3>3. Fits(Key(srv_gen, srv_seq, srv, srv_stage), r)
      BY <1>a, <2>1, <3>1, <3>2, ServerFits, Zenon
    <3>4. After(r) = Key(srv_gen', srv_seq', srv', srv_stage')
      <4>1. <<"good">> # <<>>
        BY SMTT(30)
      <4>2. After(r) = Key(r.gen + 1, 0, "data", "")
        BY <3>1, <4>1, AfterFin, Zenon
      <4>3. r.gen + 1 = 1
        BY <1>a, <2>1, <3>1, CountedUp, Zenon
      <4> QED BY <1>a, <2>1, <4>2, <4>3, Zenon
    <3> QED BY <1>a, <2>1, <2>2, <3>1, <3>2, <3>3, <3>4, RecvAppend, ZenonT(40)
  <2>3. CASE bad' = bad + 1 /\ Emit("fin", <<"forged">>)
    <3>1. PICK r \in Msg : /\ s2c' = Append(s2c, r)
                           /\ UNCHANGED <<result, closed>> /\ ClientExpects' = ClientExpects
      BY <1>0, <1>b, <2>3, EmitFrame, ZenonT(40)
    <3>2. bad' # 0 /\ srv' # "start" /\ srv' # "hello"
      BY <1>c, <2>1, <2>3
    <3> QED BY <3>1, <3>2, RecvAppend, Zenon
  <2> QED BY <1>4, <2>2, <2>3, SMTT(30) DEF SrvFinished
<1>5. CASE SrvApp
  <2>1. /\ srv = "data" /\ srv_seq' = srv_seq + 1 /\ UNCHANGED <<srv, srv_stage, srv_gen>>
        /\ (srv_stage = "" => bad' = bad) /\ (srv_stage # "" => bad' = bad + 1)
    BY <1>5, Zenon DEF SrvApp
  <2>2. PICK body \in Seq(Words) : Emit("app", body)
    BY <1>5, AppBody, SMTT(30)
  <2>3. PICK r \in Msg : /\ r.kind = "app" /\ r.gen = srv_gen /\ r.seq = srv_seq
                         /\ s2c' = Append(s2c, r)
                         /\ UNCHANGED <<result, closed>> /\ ClientExpects' = ClientExpects
    BY <1>0, <2>2, EmitFrame
  <2>4. ServerRecord(r) /\ PhaseOf(r) = srv
    BY <2>1, <2>3, Zenon DEF ServerRecord, PhaseOf
  <2>5. bad' = 0 => bad = 0 /\ srv_stage = ""
    BY <1>c, <2>1, Zenon
  <2>6. srv_stage = "" => Fits(Key(srv_gen, srv_seq, srv, srv_stage), r)
    BY <2>3, <2>4, ServerFits, ZenonT(40)
  <2>7. srv_stage = "" => After(r) = Key(srv_gen', srv_seq', srv', srv_stage')
    BY <2>1, <2>3, AfterApp, Zenon
  <2>8. srv' # "start" /\ srv' # "hello"
    BY <2>1, Zenon
  <2> QED BY <2>3, <2>4, <2>5, <2>6, <2>7, <2>8, RecvAppend, Zenon
<1>6. CASE \E body \in HsBodies : SrvPostHandshake(body)
  <2>1. PICK body \in HsBodies : SrvPostHandshake(body)
    BY <1>6, SMTT(30)
  <2>2. /\ srv = "data" /\ UNCHANGED <<srv, bad>> /\ Emit("hs", body)
        /\ srv_stage' = Staged(LastOf(body))
        /\ IF LastOf(body) \in {"K2r", "K2n"} THEN srv_gen' = srv_gen + 1 /\ srv_seq' = 0
                                            ELSE srv_seq' = srv_seq + 1 /\ UNCHANGED srv_gen
    BY <2>1, ZenonT(40) DEF SrvPostHandshake
  <2>3. PICK r \in Msg : /\ r.kind = "hs" /\ r.gen = srv_gen /\ r.seq = srv_seq /\ r.body = body
                         /\ s2c' = Append(s2c, r)
                         /\ UNCHANGED <<result, closed>> /\ ClientExpects' = ClientExpects
    BY <1>0, <1>b, <2>2, EmitFrame, SMTT(30)
  <2>4. ServerRecord(r) /\ PhaseOf(r) = srv
    BY <2>2, <2>3, SMTT(30) DEF ServerRecord, PhaseOf
  <2>5. Fits(Key(srv_gen, srv_seq, srv, srv_stage), r)
    BY <2>3, <2>4, ServerFits, Zenon
  <2>6. After(r) = Key(srv_gen', srv_seq', srv', srv_stage')
    <3>1. CASE LastOf(body) \in {"K2r", "K2n"}
      <4>1. After(r) = Key(r.gen + 1, 0, "data", "")
        BY <2>3, <3>1, AfterUpdate, Zenon
      <4>2. Staged(LastOf(body)) = ""
        BY <3>1, Zenon DEF Staged
      <4>3. srv_gen' = srv_gen + 1 /\ srv_seq' = 0
        BY <2>2, <3>1, SMTT(30)
      <4> QED BY <2>2, <2>3, <4>1, <4>2, <4>3, ZenonT(40)
    <3>2. CASE LastOf(body) \notin {"K2r", "K2n"}
      <4>1. After(r) = Key(r.gen, r.seq + 1, "data", Staged(LastOf(r.body)))
        BY <2>3, <3>2, AfterTicket, SMTT(30)
      <4>3. srv_gen' = srv_gen /\ srv_seq' = srv_seq + 1
        BY <2>2, <3>2, SMTT(30)
      <4> QED BY <2>2, <2>3, <4>1, <4>3, SMTT(30)
    <3> QED BY <3>1, <3>2, SMTT(30)
  <2>7. srv' # "start" /\ srv' # "hello" /\ bad' = bad
    BY <2>2, SMTT(30)
  <2> QED BY <2>3, <2>4, <2>5, <2>6, <2>7, RecvAppend, Zenon
<1>7. CASE SrvClose
  <2>1. /\ srv = "data" /\ srv' = "closed" /\ srv_stage = "" /\ Emit("close", <<>>)
        /\ srv_seq' = srv_seq + 1 /\ UNCHANGED <<srv_stage, srv_gen, bad>>
    BY <1>7, ZenonT(40) DEF SrvClose
  <2>2. PICK r \in Msg : /\ r.kind = "close" /\ r.gen = srv_gen /\ r.seq = srv_seq
                         /\ s2c' = Append(s2c, r)
                         /\ UNCHANGED <<result, closed>> /\ ClientExpects' = ClientExpects
    BY <1>0, <1>b, <2>1, EmitFrame, Zenon
  <2>3. ServerRecord(r) /\ PhaseOf(r) = srv
    BY <2>1, <2>2, Zenon DEF ServerRecord, PhaseOf
  <2>4. Fits(Key(srv_gen, srv_seq, srv, srv_stage), r)
    BY <2>1, <2>2, <2>3, ServerFits, Zenon
  <2>5. After(r) = Key(srv_gen', srv_seq', srv', srv_stage')
    BY <2>1, <2>2, AfterClose, Zenon
  <2>6. srv' # "start" /\ srv' # "hello"
    BY <2>1, Zenon
  <2> QED BY <2>1, <2>2, <2>3, <2>4, <2>5, <2>6, RecvAppend, Zenon
<1>8. CASE SrvBad
  <2>1. /\ bad' = bad + 1 /\ UNCHANGED <<srv, srv_stage, srv_gen>>
        /\ \E kind \in {"alert", "ccs", "damaged"} : Emit(kind, <<>>)
    BY <1>8 DEF SrvBad
  <2>2. PICK kind \in MsgKinds : Emit(kind, <<>>)
    BY <1>0, <2>1, SMTT(30)
  <2>3. PICK r \in Msg : /\ s2c' = Append(s2c, r)
                         /\ UNCHANGED <<result, closed>> /\ ClientExpects' = ClientExpects
    BY <1>b, <2>2, EmitFrame, ZenonT(40)
  <2>4. bad' # 0
    BY <1>c, <2>1
  <2> QED BY <1>a, <2>1, <2>3, <2>4, RecvAppend, Zenon
<1>9. CASE SrvReads
  <2>1. UNCHANGED <<s2c, srv, srv_stage, srv_gen, srv_seq, bad, closed, state, ph, recv_gen, seq_in,
                    result>>
    BY <1>9 DEF SrvReads, engine, keys, api, pipe
  <2>2. ClientExpects' = ClientExpects /\ (bad = 0 => result # "err")
    BY <2>1, Zenon DEF ClientExpects, ClientPhase, RecvChain
  <2> QED BY <2>1, <2>2, RecvFrame
<1> QED BY <1>1, <1>2, <1>3, <1>4, <1>5, <1>6, <1>7, <1>8, <1>9, SMTT(30) DEF Server

\* Every step keeps the records under way in order, and none is refused.
LEMMA RecvChainNext ==
    ASSUME Types, Lifecycle, RecvChain, [Next]_vars
    PROVE  RecvChain'
<1>0. bad = 0 => result # "err"
  BY Zenon DEF RecvChain
<1>1. CASE SendOk
  <2>1. UNCHANGED <<s2c, srv, srv_stage, srv_gen, srv_seq, bad, closed, state, ph, recv_gen, seq_in,
                    result>>
    BY <1>1 DEF SendOk, keys, api, server
  <2>2. ClientExpects' = ClientExpects
    BY <2>1 DEF ClientExpects, ClientPhase
  <2> QED BY <1>0, <2>1, <2>2, RecvFrame, SMTT(30)
<1>2. CASE SendFails
  <2>1. UNCHANGED <<s2c, srv, srv_stage, srv_gen, srv_seq, bad>> /\ closed' /\ result' = "io"
    BY <1>2 DEF SendFails, Return, server
  <2> QED BY <2>1, RecvFrame
<1>3. CASE Connect
  BY <1>3, RecvConnect
<1>4. CASE Read
  BY <1>4, RecvRead, SMTT(30)
<1>5. CASE WriteChunk
  <2>1. UNCHANGED <<s2c, srv, srv_stage, srv_gen, srv_seq, bad, closed, state, ph, recv_gen, seq_in,
                    result>>
    BY <1>5, SMTT(30) DEF WriteChunk, pipe, server
  <2>2. ClientExpects' = ClientExpects
    BY <2>1 DEF ClientExpects, ClientPhase
  <2> QED BY <1>0, <2>1, <2>2, RecvFrame
<1>6. CASE WriteEnds
  <2>1. UNCHANGED <<engine, keys, s2c, server>>
        /\ (Return("ok") \/ Return("closed") \/ Return("internal"))
    BY <1>6, SMTT(30) DEF WriteEnds, pipe
  <2> QED BY <2>1, RecvReturn, SMTT(30)
<1>7. CASE CloseNotify
  <2>1. UNCHANGED <<s2c, srv, srv_stage, srv_gen, srv_seq, bad, result>> /\ closed'
    BY <1>7, SMTT(30) DEF CloseNotify, pipe, server
  <2> QED BY <1>0, <2>1, RecvFrame, SMTT(30)
<1>8. CASE CloseEnds
  <2>1. UNCHANGED <<engine, keys, s2c, server>> /\ Return("done")
    BY <1>8, SMTT(30) DEF CloseEnds, pipe
  <2> QED BY <2>1, RecvReturn
<1>9. CASE Call \/ DropStream
  <2>1. UNCHANGED <<engine, keys, s2c, server>> /\ result' = ""
    BY <1>9, Zenon DEF Call, DropStream, Begin, pipe
  <2>2. UNCHANGED <<s2c, srv, srv_stage, srv_gen, srv_seq, bad, closed, state, ph, recv_gen, seq_in>>
    BY <2>1, Zenon DEF engine, keys, server
  <2>3. ClientExpects' = ClientExpects
    BY <2>2 DEF ClientExpects, ClientPhase
  <2> QED BY <2>1, <2>2, <2>3, RecvFrame, Zenon
<1>10. CASE Gone \/ SrvEof \/ UNCHANGED vars
  <2>1. UNCHANGED <<engine, keys, s2c, server, result>>
    BY <1>10, SMTT(30) DEF Gone, SrvEof, vars, pipe, api
  <2>2. UNCHANGED <<s2c, srv, srv_stage, srv_gen, srv_seq, bad, closed, state, ph, recv_gen, seq_in>>
    BY <2>1 DEF engine, keys, server
  <2>3. ClientExpects' = ClientExpects
    BY <2>2 DEF ClientExpects, ClientPhase
  <2> QED BY <1>0, <2>1, <2>2, <2>3, RecvFrame, SMTT(30)
<1>11. CASE Server
  BY <1>11, RecvServer
<1> QED BY <1>1, <1>2, <1>3, <1>4, <1>5, <1>6, <1>7, <1>8, <1>9, <1>10, <1>11, SMTT(30) DEF Next, Client
==============================================================================
