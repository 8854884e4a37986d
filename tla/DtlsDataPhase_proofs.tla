------------------------- MODULE DtlsDataPhase_proofs -------------------------
(***************************************************************************)
(* Proofs about the DTLS data phase, for every window width, on-wire       *)
(* number width, resend budget and network behaviour: the types, at-most-  *)
(* once delivery, and the refinement of the datagram service.              *)
(***************************************************************************)
EXTENDS DtlsDataPhase, TLAPS

-----------------------------------------------------------------------------
(* reconstruct_seq of dtls/record.rs, for every on-wire width: a number    *)
(* less than half a step from the expected one is rebuilt exactly.         *)

\* Quotient and remainder.
LEMMA Division ==
    ASSUME NEW n \in Nat, NEW step \in Nat \ {0}
    PROVE  /\ n \div step \in Nat /\ n % step \in 0..(step - 1)
           /\ n = step * (n \div step) + (n % step)
OBVIOUS

\* Multiples of a step that differ by two or more lie two steps apart.
LEMMA Multiples ==
    ASSUME NEW step \in Nat \ {0}, NEW j \in Int, NEW k \in Int, j + 2 <= k
    PROVE  step * j + 2 * step <= step * k
<1>1. PICK d \in Nat : k = j + 2 + d
  <2>1. k - j - 2 \in Nat /\ k = j + 2 + (k - j - 2)
    OBVIOUS
  <2> QED BY <2>1
<1>2. step * (j + 2 + d) = step * j + 2 * step + step * d
  OBVIOUS
<1>3. step * d >= 0 /\ step * d \in Int
  OBVIOUS
<1> QED BY <1>1, <1>2, <1>3

\* The number is the candidate or a neighbour of it, when it is less than a step
\* from the expected one.
LEMMA Neighbour ==
    ASSUME NEW step \in Nat \ {0}, NEW seq \in Nat, NEW expected \in Nat,
           AbsDiff(seq, expected) < step
    PROVE  LET candidate == expected - (expected % step) + (seq % step)
           IN  seq = candidate \/ seq = candidate + step \/ seq = candidate - step
<1> DEFINE qs == seq \div step
           rs == seq % step
           qe == expected \div step
           re == expected % step
<1>1. /\ qs \in Nat /\ rs \in 0..(step - 1) /\ seq = step * qs + rs
      /\ qe \in Nat /\ re \in 0..(step - 1) /\ expected = step * qe + re
  BY Division
<1> HIDE DEF qs, rs, qe, re
<1>2. step * qs \in Int /\ step * qe \in Int
  BY <1>1
<1>3. ~(qe + 2 <= qs)
  <2>1. qe + 2 <= qs => step * qe + 2 * step <= step * qs
    BY <1>1, Multiples
  <2> QED BY <1>1, <1>2, <2>1 DEF AbsDiff
<1>4. ~(qs + 2 <= qe)
  <2>1. qs + 2 <= qe => step * qs + 2 * step <= step * qe
    BY <1>1, Multiples
  <2> QED BY <1>1, <1>2, <2>1 DEF AbsDiff
<1>5. qs = qe \/ qs = qe + 1 \/ qs = qe - 1
  BY <1>1, <1>3, <1>4
<1>6. step * (qe + 1) = step * qe + step /\ step * (qe - 1) = step * qe - step
  BY <1>1
<1>7. seq = step * qe + rs \/ seq = step * qe + step + rs \/ seq = step * qe - step + rs
  BY <1>1, <1>2, <1>5, <1>6
<1>8. expected - re + rs = step * qe + rs
  BY <1>1, <1>2
<1> QED BY <1>1, <1>2, <1>7, <1>8 DEF rs, re

\* The remainder of the remainder, which reconstruct_seq masks again.
LEMMA WireTwice ==
    ASSUME NEW step \in Nat \ {0}, NEW seq \in Nat
    PROVE  WireSeq(seq, step) % step = seq % step
<1>1. seq % step \in 0..(step - 1)
  BY Division
<1>2. \A r \in 0..(step - 1) : r % step = r
  OBVIOUS
<1> QED BY <1>1, <1>2 DEF WireSeq

\* A record whose number is less than half a step from the one the receiver
\* expects is opened under its own number (record.rs reconstruct_seq), at both
\* ends of the 64-bit range too.
THEOREM RebuiltExactly ==
    ASSUME NEW step \in Nat \ {0}, NEW seq \in SeqNos, NEW expected \in Nat,
           2 * AbsDiff(seq, expected) < step
    PROVE  ReconstructSeq(WireSeq(seq, step), step, expected) = seq
<1> DEFINE candidate == expected - (expected % step) + (seq % step)
<1>1. seq \in Nat /\ seq <= SEQ_MAX /\ SEQ_MAX \in Nat
  BY SeqMaxAssumption DEF SeqNos
<1>2. AbsDiff(seq, expected) \in Nat /\ AbsDiff(seq, expected) < step
  BY <1>1 DEF AbsDiff
<1>3. seq = candidate \/ seq = candidate + step \/ seq = candidate - step
  BY <1>1, <1>2, Neighbour
<1>4. candidate \in Int
  BY <1>1, Division
<1>5. WireSeq(seq, step) % step = seq % step
  BY <1>1, WireTwice
<1>6. ReconstructSeq(WireSeq(seq, step), step, expected) =
        LET up == candidate + step
            down == candidate - step
            best == IF up <= SEQ_MAX /\ AbsDiff(up, expected) < AbsDiff(candidate, expected)
                    THEN up ELSE candidate
        IN  IF down >= 0 /\ AbsDiff(down, expected) < AbsDiff(best, expected) THEN down ELSE best
  BY <1>5 DEF ReconstructSeq
<1> HIDE DEF candidate
<1>7. CASE seq = candidate
  BY <1>1, <1>4, <1>6, <1>7 DEF AbsDiff
<1>8. CASE seq = candidate + step
  BY <1>1, <1>4, <1>6, <1>8 DEF AbsDiff
<1>9. CASE seq = candidate - step
  BY <1>1, <1>4, <1>6, <1>9 DEF AbsDiff
<1> QED BY <1>3, <1>7, <1>8, <1>9

-----------------------------------------------------------------------------
(* The replay window.                                                      *)

\* Marking keeps the window well formed: bits that leave the word are dropped.
LEMMA MarkType ==
    ASSUME NEW w \in ReplayWindows, NEW s \in Nat
    PROVE  MarkWindow(w, s) \in ReplayWindows
BY WindowAssumption DEF MarkWindow, ReplayWindows, ShiftLeft, Bits

\* A number that has been marked is refused.
LEMMA MarkRefuses ==
    ASSUME NEW w \in ReplayWindows, NEW s \in Nat
    PROVE  ~Accepts(MarkWindow(w, s), s)
<1> USE WindowAssumption DEF ReplayWindows, Accepts, MarkWindow, ShiftLeft, Bits
<1>1. CASE ~w.seen_any
  BY <1>1
<1>2. CASE w.seen_any /\ s > w.highest
  BY <1>2
<1>3. CASE w.seen_any /\ ~(s > w.highest)
  <2>1. CASE w.highest - s < WINDOW
    BY <1>3, <2>1
  <2>2. CASE ~(w.highest - s < WINDOW)
    BY <1>3, <2>2
  <2> QED BY <2>1, <2>2
<1> QED BY <1>1, <1>2, <1>3

\* Refusal is permanent: no later mark, however far it slides the window,
\* makes a refused number acceptable again.
LEMMA RefusalPermanent ==
    ASSUME NEW w \in ReplayWindows, NEW s \in Nat, NEW t \in Nat, ~Accepts(w, s)
    PROVE  ~Accepts(MarkWindow(w, t), s)
<1>1. w.seen_any /\ s <= w.highest /\ (w.highest - s < WINDOW => (w.highest - s) \in w.bitmap)
  BY DEF Accepts, ReplayWindows
<1>2. CASE t > w.highest
  <2> DEFINE v == MarkWindow(w, t)
  <2>1. /\ v.highest = t /\ v.seen_any
        /\ v.bitmap = ShiftLeft(w.bitmap, t - w.highest) \cup {0}
    BY <1>1, <1>2 DEF MarkWindow
  <2>2. t - s < WINDOW => (t - s) \in ShiftLeft(w.bitmap, t - w.highest)
    BY <1>1, <1>2, WindowAssumption DEF ShiftLeft, Bits, ReplayWindows
  <2> QED BY <1>1, <1>2, <2>1, <2>2 DEF Accepts, ReplayWindows
<1>3. CASE ~(t > w.highest)
  BY <1>1, <1>3 DEF Accepts, MarkWindow, ReplayWindows
<1> QED BY <1>2, <1>3

-----------------------------------------------------------------------------
(* The inductive invariant.                                                *)

SentBelow(d) == \A i \in DOMAIN d : Epoch3(d[i]) => d[i].seq < srv_seq

\* Every epoch-3 record in flight or in a buffer was sealed by the server.
OnlySent == SentBelow(dg) /\ SentBelow(recv_stash) /\ \A d \in net : SentBelow(d)

\* A delivered number was delivered once, and the window refuses it for ever.
DeliveredRefused ==
    \A s \in SeqNos :
        /\ delivered[s] \in {0, 1}
        /\ delivered[s] = 1 => ~Accepts(server_replay, s)

IInv == TypeOK /\ OnlySent /\ DeliveredRefused

\* Record numbers are natural numbers.
LEMMA SeqNosNat == SEQ_MAX \in Nat /\ \A s \in SeqNos : s \in Nat
BY SeqMaxAssumption DEF SeqNos

\* The head and the rest of a datagram are as good as the datagram.
LEMMA HeadAndTail ==
    ASSUME NEW d \in Seq(Records), d # <<>>, SentBelow(d)
    PROVE  /\ Head(d) \in Records /\ Tail(d) \in Seq(Records) /\ SentBelow(Tail(d))
           /\ Epoch3(Head(d)) => Head(d).seq < srv_seq
<1>1. Len(d) \in Nat /\ Len(d) > 0 /\ DOMAIN d = 1..Len(d)
  OBVIOUS
<1>2. Head(d) = d[1] /\ 1 \in DOMAIN d
  BY <1>1
<1>3. Tail(d) \in Seq(Records) /\ DOMAIN Tail(d) = 1..(Len(d) - 1)
  BY <1>1
<1>4. \A i \in DOMAIN Tail(d) : i + 1 \in DOMAIN d /\ Tail(d)[i] = d[i + 1]
  BY <1>1, <1>3
<1> QED BY <1>1, <1>2, <1>3, <1>4 DEF SentBelow

\* The numbers of a sequence of records are record numbers.
LEMMA SeqsOfType ==
    ASSUME NEW d \in Seq(Records), NEW kinds
    PROVE  SeqsOf(d, kinds) \subseteq SeqNos
<1>1. \A i \in DOMAIN d : d[i] \in Records
  OBVIOUS
<1>2. \A i \in DOMAIN d : d[i].seq \in SeqNos
  BY <1>1 DEF Records
<1> QED BY <1>2 DEF SeqsOf

\* The invariant holds when connect has returned.
LEMMA InitIInv == Init => IInv
<1> SUFFICES ASSUME Init PROVE IInv
  OBVIOUS
<1> USE SeqMaxAssumption, DataPhaseAssumption DEF Init
<1>1. TypeOK
  <2>1. server_replay \in ReplayWindows
    BY DEF NewWindow, ReplayWindows
  <2>2. recv_stash \in Seq(Records) /\ dg \in Seq(Records) /\ net \subseteq Seq(Records)
        /\ wire \in Seq([seq : Nat, payload : Payloads])
    OBVIOUS
  <2>3. delivered \in [SeqNos -> Nat]
    OBVIOUS
  <2>4. at_head \in BOOLEAN
    BY Zenon
  <2> QED BY <2>1, <2>2, <2>3, <2>4 DEF TypeOK
<1>2. OnlySent
  BY DEF OnlySent, SentBelow
<1>3. DeliveredRefused
  BY DEF DeliveredRefused
<1> QED BY <1>1, <1>2, <1>3 DEF IInv

-----------------------------------------------------------------------------
(* Steps that admit no record.                                             *)

\* The window, the deliveries and the server's number stay: the datagram
\* buffers may change, to sealed records only.
LEMMA QuietStep ==
    ASSUME IInv, TypeOK', UNCHANGED <<server_replay, delivered, srv_seq>>,
           SentBelow(dg'), SentBelow(recv_stash'), \A d \in net' : SentBelow(d)
    PROVE  IInv'
<1>1. OnlySent'
  BY DEF OnlySent, SentBelow
<1>2. DeliveredRefused'
  BY DEF IInv, DeliveredRefused
<1> QED BY <1>1, <1>2 DEF IInv

\* An empty datagram holds nothing that was not sealed.
LEMMA EmptySent == SentBelow(<<>>)
BY DEF SentBelow

\* send touches neither the window nor what was delivered.
LEMMA SendStep ==
    ASSUME IInv, NEW p \in Payloads, Send(p)
    PROVE  IInv'
<1>1. [seq |-> send_seq, payload |-> p] \in [seq : Nat, payload : Payloads]
  BY DEF IInv, TypeOK
<1>2. wire' \in Seq([seq : Nat, payload : Payloads])
  BY <1>1 DEF Send, IInv, TypeOK
<1>3. TypeOK'
  BY <1>2 DEF Send, call, server, network, history, IInv, TypeOK
<1> QED BY <1>3, QuietStep DEF Send, call, server, network, history, IInv, OnlySent

\* The steps of recv that deliver nothing and open nothing.
LEMMA RecvQuietStep ==
    ASSUME IInv,
           \/ RecvCall \/ RecvTimeout \/ DrainStash
           \/ StopAtPlaintext \/ ResendFinished \/ ResendFails \/ SkipReplay
    PROVE  IInv'
<1> USE DEF client, call, server, network, history
<1>1. CASE RecvCall
  <2>2. at_head' \in BOOLEAN /\ pc' = "recv" /\ dg' = <<>>
        /\ UNCHANGED <<client, wire, server, network, history>>
    BY <1>1, Zenon DEF RecvCall
  <2>1. TypeOK'
    BY <2>2 DEF IInv, TypeOK
  <2> QED BY <1>1, <2>1, EmptySent, QuietStep DEF RecvCall, IInv, OnlySent
<1>2. CASE RecvTimeout
  <2>1. TypeOK'
    BY <1>2 DEF RecvTimeout, IInv, TypeOK
  <2> QED BY <1>2, <2>1, QuietStep DEF RecvTimeout, IInv, OnlySent
<1>3. CASE DrainStash
  <2>1. TypeOK'
    BY <1>3 DEF DrainStash, IInv, TypeOK
  <2> QED BY <1>3, <2>1, EmptySent, QuietStep DEF DrainStash, IInv, OnlySent
<1>4. CASE StopAtPlaintext
  <2>2. dg' = <<>> /\ at_head' \in BOOLEAN
        /\ UNCHANGED <<client, pc, wire, server, network, history>>
    BY <1>4, Zenon DEF StopAtPlaintext
  <2>3. dg' \in Seq(Records)
    BY <2>2
  <2>1. TypeOK'
    BY <2>2, <2>3 DEF IInv, TypeOK
  <2> QED BY <1>4, <2>1, EmptySent, QuietStep DEF StopAtPlaintext, IInv, OnlySent
<1>5. CASE ResendFinished
  <2>1. fin_resends_left' \in 0..MAX_FLIGHT_ATTEMPTS /\ fin_copies' \in Nat
    BY <1>5, DataPhaseAssumption, SMTT(30) DEF ResendFinished, IInv, TypeOK
  <2>3. dg' = <<>> /\ at_head' \in BOOLEAN
        /\ UNCHANGED <<send_seq, recv_hint, server_replay, recv_stash, pc, wire, srv, srv_seq,
                       fin_lost, network, history>>
    BY <1>5, Zenon DEF ResendFinished
  <2>2. TypeOK'
    BY <2>1, <2>3 DEF IInv, TypeOK
  <2> QED BY <1>5, <2>2, EmptySent, QuietStep DEF ResendFinished, IInv, OnlySent
<1>6. CASE ResendFails
  <2>1. fin_resends_left' \in 0..MAX_FLIGHT_ATTEMPTS /\ fin_lost' \in 0..MaxLost
    BY <1>6, DataPhaseAssumption DEF ResendFails, IInv, TypeOK
  <2>3. pc' = "idle" /\ dg' = <<>> /\ at_head' \in BOOLEAN
        /\ UNCHANGED <<send_seq, recv_hint, server_replay, recv_stash, wire, srv, srv_seq,
                       fin_copies, network, history>>
    BY <1>6, Zenon DEF ResendFails
  <2>2. TypeOK'
    BY <2>1, <2>3 DEF IInv, TypeOK
  <2> QED BY <1>6, <2>2, EmptySent, QuietStep DEF ResendFails, IInv, OnlySent
<1>7. CASE SkipReplay
  <2>1. dg \in Seq(Records) /\ dg # <<>> /\ SentBelow(dg) /\ dg' = Tail(dg)
    BY <1>7 DEF SkipReplay, IInv, TypeOK, OnlySent
  <2>2. dg' \in Seq(Records) /\ SentBelow(dg')
    BY <2>1, HeadAndTail
  <2>4. at_head' \in BOOLEAN /\ UNCHANGED <<client, pc, wire, server, network, history>>
    BY <1>7, Zenon DEF SkipReplay
  <2>3. TypeOK'
    BY <2>2, <2>4 DEF IInv, TypeOK
  <2> QED BY <1>7, <2>2, <2>3, QuietStep DEF SkipReplay, IInv, OnlySent
<1> QED BY <1>1, <1>2, <1>3, <1>4, <1>5, <1>6, <1>7

\* A datagram of the network brings only records that were sealed.
LEMMA ReadDatagramStep ==
    ASSUME IInv, NEW d \in net, ReadDatagram(d)
    PROVE  IInv'
<1> USE DEF client, call, server, network, history
<1>1. d \in Seq(Records) /\ SentBelow(d)
  BY DEF IInv, TypeOK, OnlySent
<1>2. arrived' \subseteq SeqNos
  BY <1>1, SeqsOfType DEF ReadDatagram, IInv, TypeOK
<1>3. dg' = d /\ at_head' \in BOOLEAN
      /\ UNCHANGED <<client, pc, wire, server, network, accepted, delivered, refused, unopened>>
  BY DEF ReadDatagram
<1>4. TypeOK'
  BY <1>1, <1>2, <1>3 DEF IInv, TypeOK
<1> QED BY <1>1, <1>3, <1>4, QuietStep DEF IInv, OnlySent

\* A record that does not open ends the datagram.
LEMMA StopAtUnopenedStep ==
    ASSUME IInv, StopAtUnopened
    PROVE  IInv'
<1> USE DEF client, call, server, network, history
<1>1. unopened' \subseteq SeqNos
  <2>1. SeqsOf(dg, {"app"}) \subseteq SeqNos
    BY SeqsOfType DEF IInv, TypeOK
  <2> QED BY <2>1 DEF StopAtUnopened, IInv, TypeOK
<1>2. dg' = <<>> /\ at_head' \in BOOLEAN
      /\ UNCHANGED <<client, pc, wire, server, network, accepted, delivered, refused, arrived>>
  BY Zenon DEF StopAtUnopened
<1>3. dg' \in Seq(Records)
  BY <1>2
<1>4. TypeOK'
  BY <1>1, <1>2, <1>3 DEF IInv, TypeOK
<1> QED BY <1>2, <1>4, EmptySent, QuietStep DEF IInv, OnlySent

-----------------------------------------------------------------------------
(* Steps that admit a record.                                              *)

\* A record the window accepts has not been delivered, and afterwards the
\* window refuses it and everything it refused before.
LEMMA AdmitRefuses ==
    ASSUME IInv, NEW r \in Records, Admit(r)
    PROVE  /\ delivered[r.seq] = 0
           /\ \A s \in SeqNos : (delivered[s] = 1 \/ s = r.seq) => ~Accepts(server_replay', s)
<1>1. r.seq \in SeqNos /\ r.seq \in Nat /\ server_replay \in ReplayWindows
  BY SeqNosNat DEF Records, IInv, TypeOK
<1>2. Accepts(server_replay, r.seq) /\ server_replay' = MarkWindow(server_replay, r.seq)
  BY DEF Admit
<1>3. delivered[r.seq] = 0
  BY <1>1, <1>2 DEF IInv, DeliveredRefused
<1>4. ASSUME NEW s \in SeqNos, delivered[s] = 1 \/ s = r.seq
      PROVE  ~Accepts(server_replay', s)
  <2>1. CASE s = r.seq
    BY <1>1, <1>2, <2>1, MarkRefuses
  <2>2. CASE delivered[s] = 1
    <3>1. ~Accepts(server_replay, s) /\ s \in Nat
      BY <2>2, SeqNosNat DEF IInv, DeliveredRefused
    <3> QED BY <1>1, <1>2, <3>1, RefusalPermanent
  <2> QED BY <1>4, <2>1, <2>2
<1> QED BY <1>3, <1>4

\* The fields Admit writes keep their types.
LEMMA AdmitType ==
    ASSUME IInv, NEW r \in Records, Admit(r)
    PROVE  /\ recv_hint' \in Nat /\ server_replay' \in ReplayWindows
           /\ fin_resends_left' \in 0..MAX_FLIGHT_ATTEMPTS
           /\ accepted' \subseteq SeqNos /\ at_head' \in BOOLEAN
           /\ UNCHANGED <<send_seq, wire, srv, srv_seq, fin_copies, fin_lost, net, corrupted,
                          arrived, unopened>>
<1>1. r.seq \in SeqNos /\ r.seq \in Nat
  BY SeqNosNat DEF Records
<1>2. server_replay' \in ReplayWindows
  BY <1>1, MarkType DEF Admit, IInv, TypeOK
<1>3. recv_hint' \in Nat
  BY <1>1 DEF Admit, IInv, TypeOK
<1>4. fin_resends_left' \in 0..MAX_FLIGHT_ATTEMPTS
  BY DataPhaseAssumption DEF Admit
<1>5. accepted' \subseteq SeqNos
  BY <1>1 DEF Admit, IInv, TypeOK
<1> QED BY <1>2, <1>3, <1>4, <1>5, Zenon DEF Admit, server, network

\* A record that is admitted is delivered, and refused from then on.
LEMMA AdmitStep ==
    ASSUME IInv, SkipControl \/ DeliverApp \/ BufferTooSmall
    PROVE  IInv'
<1> DEFINE r == Head(dg)
<1>1. dg \in Seq(Records) /\ dg # <<>> /\ SentBelow(dg) /\ Admit(r)
  BY DEF SkipControl, DeliverApp, BufferTooSmall, IInv, TypeOK, OnlySent
<1>2. r \in Records /\ Tail(dg) \in Seq(Records) /\ SentBelow(Tail(dg))
  BY <1>1, HeadAndTail
<1>3. r.seq \in SeqNos
  BY <1>2 DEF Records
<1> HIDE DEF r
<1>4. /\ recv_hint' \in Nat /\ server_replay' \in ReplayWindows
      /\ fin_resends_left' \in 0..MAX_FLIGHT_ATTEMPTS
      /\ accepted' \subseteq SeqNos /\ at_head' \in BOOLEAN
      /\ UNCHANGED <<send_seq, wire, srv, srv_seq, fin_copies, fin_lost, net, corrupted,
                     arrived, unopened>>
  BY <1>1, <1>2, AdmitType
<1>5. /\ delivered[r.seq] = 0
      /\ \A s \in SeqNos : (delivered[s] = 1 \/ s = r.seq) => ~Accepts(server_replay', s)
  BY <1>1, <1>2, AdmitRefuses
<1>6. /\ dg' \in Seq(Records) /\ SentBelow(dg')
      /\ recv_stash' \in Seq(Records) /\ SentBelow(recv_stash')
      /\ pc' \in {"idle", "recv"}
  <2>1. CASE SkipControl
    BY <1>2, <2>1 DEF SkipControl, IInv, TypeOK, OnlySent
  <2>2. CASE DeliverApp
    BY <1>2, <2>2, EmptySent DEF DeliverApp
  <2>3. CASE BufferTooSmall
    BY <2>3, EmptySent DEF BufferTooSmall, IInv, TypeOK, OnlySent
  <2> QED BY <2>1, <2>2, <2>3
<1>7. refused' \subseteq SeqNos
  <2>1. SeqsOf(dg, {"app"}) \subseteq SeqNos
    BY <1>1, SeqsOfType
  <2> QED BY <2>1 DEF SkipControl, DeliverApp, BufferTooSmall, IInv, TypeOK
<1>8. delivered' = delivered \/ delivered' = [delivered EXCEPT ![r.seq] = 1]
  BY <1>3, <1>5 DEF SkipControl, DeliverApp, BufferTooSmall, r
<1>9. delivered' \in [SeqNos -> Nat]
  BY <1>8 DEF IInv, TypeOK
<1>10. TypeOK'
  BY <1>4, <1>6, <1>7, <1>9 DEF IInv, TypeOK
<1>11. OnlySent'
  BY <1>4, <1>6 DEF IInv, OnlySent, SentBelow
<1>12. DeliveredRefused'
  <2> SUFFICES ASSUME NEW s \in SeqNos
               PROVE  /\ delivered'[s] \in {0, 1}
                      /\ delivered'[s] = 1 => ~Accepts(server_replay', s)
    BY DEF DeliveredRefused
  <2>1. delivered'[s] = delivered[s] \/ (s = r.seq /\ delivered'[s] = 1)
    BY <1>8 DEF IInv, TypeOK
  <2> QED BY <1>5, <2>1 DEF IInv, DeliveredRefused
<1> QED BY <1>10, <1>11, <1>12 DEF IInv

-----------------------------------------------------------------------------
(* The server and the network.                                             *)

\* The server repeats its flight.
LEMMA FlightStep ==
    ASSUME IInv, RetransmitFlight
    PROVE  IInv'
<1>1. PICK hello \in HelloFirst :
        net' = net \cup {IF hello THEN <<Rec("plain", 0), Rec("ep2", 0)>> ELSE <<Rec("ep2", 0)>>}
  BY DEF RetransmitFlight
<1>2. Rec("plain", 0) \in Records /\ Rec("ep2", 0) \in Records
  BY SeqMaxAssumption DEF Rec, Records, Kinds, SeqNos
<1>3. /\ <<Rec("plain", 0), Rec("ep2", 0)>> \in Seq(Records)
      /\ <<Rec("ep2", 0)>> \in Seq(Records)
  BY <1>2
<1>4. ~Epoch3(Rec("plain", 0)) /\ ~Epoch3(Rec("ep2", 0))
  BY DEF Epoch3, Rec
<1>5. SentBelow(<<Rec("plain", 0), Rec("ep2", 0)>>) /\ SentBelow(<<Rec("ep2", 0)>>)
  BY <1>4 DEF SentBelow
<1>6. net' \subseteq Seq(Records) /\ \A d \in net' : SentBelow(d)
  BY <1>1, <1>3, <1>5, Zenon DEF IInv, TypeOK, OnlySent
<1>7. UNCHANGED <<client, call, wire, server, corrupted, history>>
  BY DEF RetransmitFlight
<1>8. TypeOK'
  BY <1>6, <1>7 DEF IInv, TypeOK, client, call, server, history
<1> QED BY <1>6, <1>7, <1>8, QuietStep DEF IInv, OnlySent, client, call, server, history

\* A Finished that was sent arrives or is lost.
LEMMA FinishedStep ==
    ASSUME IInv, FinishedArrives \/ FinishedLost
    PROVE  IInv'
<1>1. fin_copies' \in Nat /\ fin_lost' \in 0..MaxLost /\ srv' \in {"flight", "acked", "done"}
      /\ UNCHANGED <<client, call, wire, srv_seq, network, history>>
  BY DataPhaseAssumption DEF FinishedArrives, FinishedLost, IInv, TypeOK
<1>2. TypeOK'
  BY <1>1 DEF IInv, TypeOK, client, call, network, history
<1> QED BY <1>1, <1>2, QuietStep DEF IInv, OnlySent, client, call, network, history

\* The datagram the server adds to the network in one step.
NewDatagram(kinds, gap) == [i \in DOMAIN kinds |-> Rec(kinds[i], srv_seq + gap + i - 1)]

\* The server seals the records of one datagram.
LEMMA ServerSendsStep ==
    ASSUME IInv, NEW kinds \in KindSeqs, NEW gap \in Gaps, ServerSends(kinds, gap)
    PROVE  IInv' /\ srv_seq <= srv_seq'
<1> DEFINE d == NewDatagram(kinds, gap)
<1>1. PICK n \in 1..MaxCoalesced : kinds \in [1..n -> {"app", "ctl"}]
  BY DEF KindSeqs
<1>2. n \in Nat /\ DOMAIN kinds = 1..n /\ Len(kinds) = n
  BY <1>1, DataPhaseAssumption
<1>3. gap \in Nat /\ srv_seq \in Nat /\ MaxRecords \in Nat /\ MaxRecords <= SEQ_MAX
  BY DataPhaseAssumption DEF IInv, TypeOK
<1>4. srv_seq + gap + n <= MaxRecords /\ srv_seq' = srv_seq + gap + n
      /\ net' = net \cup {d}
      /\ UNCHANGED <<client, call, wire, srv, fin_copies, fin_lost, corrupted, history>>
  BY <1>2, SMTT(30) DEF ServerSends, NewDatagram
<1>5. ASSUME NEW i \in 1..n
      PROVE  /\ d[i] \in Records
             /\ d[i].seq < srv_seq + gap + n
  <2>1. d[i] = [kind |-> kinds[i], seq |-> srv_seq + gap + i - 1]
    BY <1>2 DEF NewDatagram, Rec
  <2>2. kinds[i] \in Kinds
    BY <1>1 DEF Kinds
  <2>3. srv_seq + gap + i - 1 \in SeqNos /\ srv_seq + gap + i - 1 < srv_seq + gap + n
    BY <1>2, <1>3, <1>4, SeqMaxAssumption DEF SeqNos
  <2> QED BY <2>1, <2>2, <2>3 DEF Records
<1>6. d \in Seq(Records) /\ DOMAIN d = 1..n
  BY <1>2, <1>5 DEF NewDatagram
<1> HIDE DEF d
<1>7. srv_seq' \in 0..MaxRecords /\ srv_seq <= srv_seq'
  BY <1>2, <1>3, <1>4
<1>8. TypeOK'
  <2>1. net' \subseteq Seq(Records)
    BY <1>4, <1>6 DEF IInv, TypeOK
  <2> QED BY <2>1, <1>4, <1>7 DEF IInv, TypeOK, client, call, history
<1>9. ASSUME NEW e \in Seq(Records), SentBelow(e)
      PROVE  \A i \in DOMAIN e : Epoch3(e[i]) => e[i].seq < srv_seq'
  <2>1. \A i \in DOMAIN e : e[i].seq \in Nat
    <3>1. \A i \in DOMAIN e : e[i] \in Records
      OBVIOUS
    <3> QED BY <3>1, SeqNosNat DEF Records
  <2> QED BY <1>3, <1>7, <1>9, <2>1, DataPhaseAssumption DEF SentBelow
<1>10. OnlySent'
  <2>1. dg' = dg /\ recv_stash' = recv_stash
    BY <1>4 DEF client, call
  <2>2. (\A i \in DOMAIN dg : Epoch3(dg[i]) => dg[i].seq < srv_seq')
        /\ (\A i \in DOMAIN recv_stash : Epoch3(recv_stash[i]) => recv_stash[i].seq < srv_seq')
    BY <1>9 DEF IInv, TypeOK, OnlySent
  <2>3. ASSUME NEW e \in net'
        PROVE  \A i \in DOMAIN e : Epoch3(e[i]) => e[i].seq < srv_seq'
    <3>1. CASE e = d
      BY <1>4, <1>5, <1>6, <3>1
    <3>2. CASE e \in net
      BY <1>9, <3>2 DEF IInv, TypeOK, OnlySent
    <3> QED BY <1>4, <3>1, <3>2
  <2> QED BY <2>1, <2>2, <2>3 DEF OnlySent, SentBelow
<1>11. DeliveredRefused'
  BY <1>4 DEF IInv, DeliveredRefused, client, history
<1> QED BY <1>7, <1>8, <1>10, <1>11 DEF IInv

\* A damaged record opens under no key.
LEMMA CorruptStep ==
    ASSUME IInv, NEW d \in net, NEW i \in DOMAIN d, Corrupt(d, i)
    PROVE  IInv'
<1> DEFINE e == [d EXCEPT ![i] = Rec("junk", 0)]
<1>1. d \in Seq(Records) /\ SentBelow(d)
  BY DEF IInv, TypeOK, OnlySent
<1>2. Rec("junk", 0) \in Records /\ ~Epoch3(Rec("junk", 0))
  BY SeqMaxAssumption DEF Rec, Records, Kinds, SeqNos, Epoch3
<1>3. e \in Seq(Records)
  BY <1>1, <1>2
<1>4. SentBelow(e)
  <2> SUFFICES ASSUME NEW j \in DOMAIN e, Epoch3(e[j]) PROVE e[j].seq < srv_seq
    BY DEF SentBelow
  <2>1. e[j] = d[j]
    BY <1>2
  <2> QED BY <1>1, <2>1 DEF SentBelow
<1>5. /\ net' = net \cup {e} /\ corrupted' \in 0..MaxCorrupt
      /\ UNCHANGED <<client, call, wire, server, history>>
  <2>1. corrupted < MaxCorrupt /\ corrupted' = corrupted + 1 /\ corrupted \in 0..MaxCorrupt
    BY DEF Corrupt, IInv, TypeOK
  <2>2. corrupted' \in 0..MaxCorrupt
    BY <2>1, DataPhaseAssumption
  <2> QED BY <2>2 DEF Corrupt
<1> HIDE DEF e
<1>6. net' \subseteq Seq(Records) /\ \A x \in net' : SentBelow(x)
  BY <1>3, <1>4, <1>5 DEF IInv, TypeOK, OnlySent
<1>7. TypeOK'
  BY <1>5, <1>6, SMTT(30) DEF IInv, TypeOK, client, call, server, history
<1> QED BY <1>5, <1>6, <1>7, QuietStep DEF IInv, OnlySent, client, call, server, history

-----------------------------------------------------------------------------
(* The theorems.                                                           *)

\* Every step keeps the invariant.
LEMMA NextIInv ==
    ASSUME IInv, [Next]_vars
    PROVE  IInv'
<1>1. CASE UNCHANGED vars
  BY <1>1 DEF vars, client, call, server, network, history, IInv, TypeOK, OnlySent,
              SentBelow, DeliveredRefused
<1>2. CASE \E p \in Payloads : Send(p)
  BY <1>2, SendStep
<1>3. CASE RecvCall
  BY <1>3, RecvQuietStep
<1>4. CASE Recv
  <2>1. CASE \E d \in net : ReadDatagram(d)
    BY <2>1, ReadDatagramStep
  <2>2. CASE StopAtUnopened
    BY <2>2, StopAtUnopenedStep
  <2>3. CASE SkipControl \/ DeliverApp \/ BufferTooSmall
    BY <2>3, AdmitStep
  <2>4. CASE \/ RecvTimeout \/ DrainStash \/ StopAtPlaintext \/ ResendFinished
             \/ ResendFails \/ SkipReplay
    BY <2>4, RecvQuietStep
  <2> QED BY <1>4, <2>1, <2>2, <2>3, <2>4 DEF Recv
<1>5. CASE Environment
  <2>1. CASE RetransmitFlight
    BY <2>1, FlightStep
  <2>2. CASE FinishedArrives \/ FinishedLost
    BY <2>2, FinishedStep
  <2>3. CASE \E kinds \in KindSeqs, gap \in Gaps : ServerSends(kinds, gap)
    BY <2>3, ServerSendsStep
  <2>4. CASE \E d \in net : \E i \in DOMAIN d : Corrupt(d, i)
    BY <2>4, CorruptStep
  <2> QED BY <1>5, <2>1, <2>2, <2>3, <2>4 DEF Environment
<1> QED BY <1>1, <1>2, <1>3, <1>4, <1>5 DEF Next

\* The invariant holds throughout.
THEOREM Invariance == Spec => []IInv
<1>1. IInv /\ [Next]_vars => IInv'
  BY NextIInv
<1> QED BY <1>1, InitIInv, PTL DEF Spec

\* The variables of send, recv, the server and the network keep their types.
THEOREM TypeCorrect == Spec => []TypeOK
<1>1. IInv => TypeOK
  BY DEF IInv
<1> QED BY <1>1, Invariance, PTL

\* No record of the server is handed to the application twice, for every
\* window width and whatever the network duplicates, reorders or damages.
THEOREM DeliveredAtMostOnce == Spec => []AtMostOnce
<1>1. IInv => AtMostOnce
  BY DEF IInv, DeliveredRefused, AtMostOnce
<1> QED BY <1>1, Invariance, PTL

\* The data phase implements the at-most-once datagram service: nothing is
\* delivered that the server did not send, and nothing twice.
THEOREM Refinement == Spec => ImplementsService
<1>1. Init => Service!Init
  BY DEF Init, Service!Init
<1>2. ASSUME IInv, [Next]_vars
      PROVE  [Service!Next]_<<0..(srv_seq - 1), delivered>>
  <2>1. CASE UNCHANGED <<srv_seq, delivered>>
    BY <2>1
  <2>2. CASE DeliverApp
    <3> DEFINE r == Head(dg)
    <3>1. dg \in Seq(Records) /\ dg # <<>> /\ SentBelow(dg) /\ Admit(r) /\ r.kind = "app"
          /\ delivered' = [delivered EXCEPT ![r.seq] = @ + 1]
      BY <1>2, <2>2 DEF DeliverApp, IInv, TypeOK, OnlySent
    <3>2. r \in Records /\ r.seq < srv_seq
      BY <3>1, HeadAndTail DEF Epoch3
    <3>3. r.seq \in SeqNos /\ r.seq \in Nat /\ srv_seq \in Nat
      BY <1>2, <3>2, SeqNosNat, DataPhaseAssumption DEF Records, IInv, TypeOK
    <3>4. delivered[r.seq] = 0
      BY <1>2, <3>1, <3>2, AdmitRefuses
    <3>5. srv_seq' = srv_seq
      BY <3>1 DEF Admit, server
    <3>6. r.seq \in 0..(srv_seq - 1)
      BY <3>2, <3>3
    <3>7. delivered' = [delivered EXCEPT ![r.seq] = 1]
      BY <1>2, <3>1, <3>3, <3>4 DEF IInv, TypeOK
    <3> HIDE DEF r
    <3>8. Service!Deliver(r.seq)
      BY <3>4, <3>5, <3>6, <3>7 DEF Service!Deliver
    <3> QED BY <3>3, <3>8 DEF Service!Next
  <2>3. CASE \E kinds \in KindSeqs, gap \in Gaps : ServerSends(kinds, gap)
    <3>1. IInv' /\ srv_seq <= srv_seq' /\ delivered' = delivered
      BY <1>2, <2>3, ServerSendsStep DEF ServerSends, history
    <3>2. srv_seq \in 0..MaxRecords /\ srv_seq' \in 0..MaxRecords
      BY <1>2, <3>1 DEF IInv, TypeOK
    <3> DEFINE new == srv_seq..(srv_seq' - 1)
    <3>3. new \in SUBSET SeqNos
      <4>1. srv_seq \in Nat /\ srv_seq' \in Nat /\ srv_seq' <= SEQ_MAX /\ SEQ_MAX \in Nat
        BY <3>2, DataPhaseAssumption, SeqMaxAssumption
      <4>2. \A a, b, m \in Nat : b <= m => \A x \in a..(b - 1) : x \in 0..m
        OBVIOUS
      <4>3. \A x \in new : x \in 0..SEQ_MAX
        BY <4>1, <4>2, Zenon
      <4> QED BY <4>3 DEF SeqNos
    <3>4. 0..(srv_seq' - 1) = 0..(srv_seq - 1) \cup new
      BY <3>1, <3>2, DataPhaseAssumption
    <3>5. Service!PeerSends(new)
      BY <3>1, <3>4 DEF Service!PeerSends
    <3> QED BY <3>3, <3>5, Zenon DEF Service!Next
  <2>4. CASE UNCHANGED vars
    BY <2>1, <2>4 DEF vars, server, history
  <2>5. CASE (\E p \in Payloads : Send(p)) \/ RecvCall
    BY <2>1, <2>5, Zenon DEF Send, RecvCall, server, history
  <2>6. CASE \/ RecvTimeout \/ DrainStash \/ (\E d \in net : ReadDatagram(d))
             \/ StopAtPlaintext \/ ResendFinished \/ ResendFails \/ StopAtUnopened
             \/ SkipReplay \/ SkipControl \/ BufferTooSmall
    BY <2>1, <2>6 DEF RecvTimeout, DrainStash, ReadDatagram, StopAtPlaintext, ResendFinished,
       ResendFails, StopAtUnopened, SkipReplay, SkipControl, BufferTooSmall, Admit, server, history
  <2>7. CASE \/ RetransmitFlight \/ FinishedArrives \/ FinishedLost
             \/ (\E d \in net : \E i \in DOMAIN d : Corrupt(d, i))
    BY <2>1, <2>7 DEF RetransmitFlight, FinishedArrives, FinishedLost, Corrupt, server, history
  <2> QED BY <1>2, <2>2, <2>3, <2>4, <2>5, <2>6, <2>7 DEF Next, Recv, Environment
<1> QED BY <1>1, <1>2, Invariance, PTL DEF Spec, ImplementsService, Service!Spec

-----------------------------------------------------------------------------
(* The window against the numbers it let through.                          *)

\* What the window w remembers of the set A of the numbers it let through:
\* the highest, and which of the WINDOW numbers up to it are in A.
Remembers(w, A) ==
    /\ w.seen_any <=> A # {}
    /\ w.seen_any => /\ w.highest \in A
                     /\ \A s \in A : s <= w.highest
                     /\ \A b \in Bits : b \in w.bitmap <=> w.highest - b \in A

\* Marking a number keeps the memory exact, whether the window slides, by
\* less than its width or by more, or stays.
LEMMA MarkRemembers ==
    ASSUME NEW w \in ReplayWindows, NEW A \in SUBSET Nat, Remembers(w, A), NEW s \in Nat
    PROVE  Remembers(MarkWindow(w, s), A \cup {s})
<1> DEFINE v == MarkWindow(w, s)
<1> USE WindowAssumption DEF ReplayWindows
<1>1. CASE ~w.seen_any
  <2>1. A = {} /\ v = [highest |-> s, seen_any |-> TRUE, bitmap |-> {0}]
    BY <1>1 DEF Remembers, MarkWindow
  <2> QED BY <2>1 DEF Remembers, Bits
<1>2. CASE w.seen_any /\ s > w.highest
  <2> DEFINE n == s - w.highest
  <2>1. v = [highest |-> s, seen_any |-> TRUE, bitmap |-> ShiftLeft(w.bitmap, n) \cup {0}]
    BY <1>2 DEF MarkWindow
  <2>2. w.highest \in Nat /\ n \in Nat /\ n > 0
    BY <1>2
  <2>3. \A t \in A : t <= w.highest
    BY <1>2 DEF Remembers
  <2>4. ASSUME NEW b \in Bits
        PROVE  b \in v.bitmap <=> s - b \in A \cup {s}
    <3>1. CASE b < n
      <4>1. b - n \notin w.bitmap
        BY <2>2, <3>1 DEF Bits
      <4>2. b \in v.bitmap <=> b = 0
        BY <2>1, <4>1 DEF ShiftLeft
      <4>3. s - b \notin A
        BY <1>2, <2>3, <3>1 DEF Bits
      <4> QED BY <4>2, <4>3 DEF Bits
    <3>2. CASE b >= n
      <4>1. b - n \in Bits /\ w.highest - (b - n) = s - b /\ b # 0
        BY <2>2, <3>2 DEF Bits
      <4>2. b \in v.bitmap <=> b - n \in w.bitmap
        BY <2>1, <4>1 DEF ShiftLeft
      <4>3. b - n \in w.bitmap <=> w.highest - (b - n) \in A
        BY <1>2, <4>1 DEF Remembers
      <4> QED BY <4>1, <4>2, <4>3 DEF Bits
    <3> QED BY <2>2, <3>1, <3>2 DEF Bits
  <2> QED BY <1>2, <2>1, <2>3, <2>4 DEF Remembers
<1>3. CASE w.seen_any /\ ~(s > w.highest)
  <2>1. /\ v.highest = w.highest /\ v.seen_any
        /\ v.bitmap = w.bitmap \cup ({w.highest - s} \cap Bits)
    BY <1>3 DEF MarkWindow
  <2>2. ASSUME NEW b \in Bits
        PROVE  b \in v.bitmap <=> w.highest - b \in A \cup {s}
    <3>1. b = w.highest - s <=> w.highest - b = s
      BY <1>3, SMTT(30) DEF Bits
    <3> QED BY <1>3, <2>1, <3>1 DEF Remembers
  <2> QED BY <1>3, <2>1, <2>2 DEF Remembers
<1> QED BY <1>1, <1>2, <1>3

\* The bookkeeping of the receiver is one: the window remembers exactly the
\* numbers let through, and recv_hint is the number after the highest.
WindowKept ==
    /\ Remembers(server_replay, accepted)
    /\ recv_hint = IF server_replay.seen_any THEN server_replay.highest + 1 ELSE 0

\* Only an admitted record changes the window, the hint and the history.
LEMMA OnlyAdmitMarks ==
    ASSUME Next
    PROVE  \/ UNCHANGED <<server_replay, accepted, recv_hint>>
           \/ dg # <<>> /\ Admit(Head(dg)) /\ (SkipControl \/ DeliverApp \/ BufferTooSmall)
BY Zenon DEF Next, Recv, Environment, Send, RecvCall, RecvTimeout, DrainStash, ReadDatagram,
       StopAtPlaintext, ResendFinished, ResendFails, StopAtUnopened, SkipReplay,
       SkipControl, DeliverApp, BufferTooSmall, RetransmitFlight, FinishedArrives,
       FinishedLost, ServerSends, Corrupt, client, history

\* Every step keeps the window exact.
LEMMA WindowKeptStep ==
    ASSUME IInv, WindowKept, [Next]_vars
    PROVE  WindowKept'
<1>1. CASE UNCHANGED <<server_replay, accepted, recv_hint>>
  BY <1>1 DEF WindowKept, Remembers
<1>2. CASE dg # <<>> /\ Admit(Head(dg))
  <2> DEFINE r == Head(dg)
  <2>1. r \in Records
    BY <1>2, HeadAndTail DEF IInv, TypeOK, OnlySent
  <2>2. r.seq \in Nat /\ server_replay \in ReplayWindows /\ accepted \in SUBSET Nat
    BY <2>1, SeqNosNat DEF Records, IInv, TypeOK
  <2>3. /\ server_replay' = MarkWindow(server_replay, r.seq)
        /\ accepted' = accepted \cup {r.seq}
        /\ recv_hint' = IF recv_hint >= r.seq + 1 THEN recv_hint ELSE r.seq + 1
    BY <1>2 DEF Admit
  <2> HIDE DEF r
  <2>4. Remembers(server_replay', accepted')
    BY <2>2, <2>3, MarkRemembers DEF WindowKept
  <2>5. server_replay'.seen_any /\ recv_hint' = server_replay'.highest + 1
    BY <2>2, <2>3 DEF WindowKept, MarkWindow, ReplayWindows
  <2> QED BY <2>4, <2>5 DEF WindowKept
<1> QED BY <1>1, <1>2, OnlyAdmitMarks, SMTT(30) DEF vars, client, history

\* A window that remembers A refuses exactly the members of A and the
\* numbers WINDOW or more below the highest of them.
LEMMA RemembersExactly ==
    ASSUME NEW w \in ReplayWindows, NEW A \in SUBSET Nat, Remembers(w, A), NEW s \in Nat
    PROVE  Accepts(w, s) <=> /\ s \notin A
                             /\ A = {} \/ Max(A) - s < WINDOW
<1> USE WindowAssumption DEF ReplayWindows
<1>1. CASE ~w.seen_any
  BY <1>1 DEF Remembers, Accepts
<1>2. CASE w.seen_any
  <2>2. w.highest \in A /\ A # {} /\ \A t \in A : t <= w.highest
    BY <1>2 DEF Remembers
  <2>1. Max(A) = w.highest
    <3>1. \E t \in A : \A u \in A : t >= u
      BY <2>2
    <3>2. Max(A) \in A /\ \A u \in A : Max(A) >= u
      BY <3>1, Zenon DEF Max
    <3>3. Max(A) \in Nat /\ w.highest \in Nat /\ Max(A) >= w.highest /\ Max(A) <= w.highest
      BY <2>2, <3>2, Zenon
    <3> QED BY <3>3
  <2>3. CASE s > w.highest
    BY <1>2, <2>1, <2>2, <2>3 DEF Accepts
  <2>4. CASE s <= w.highest /\ w.highest - s >= WINDOW
    <3>1. ~(w.highest - s < WINDOW) /\ ~(s > w.highest)
      BY <2>4
    <3> QED BY <1>2, <2>1, <2>2, <3>1 DEF Accepts
  <2>5. CASE s <= w.highest /\ w.highest - s < WINDOW
    <3>1. w.highest - s \in Bits /\ w.highest - (w.highest - s) = s
      BY <2>5 DEF Bits
    <3>2. w.highest - s \in w.bitmap <=> s \in A
      BY <1>2, <3>1 DEF Remembers
    <3> QED BY <1>2, <2>1, <2>2, <2>5, <3>2 DEF Accepts
  <2> QED BY <2>3, <2>4, <2>5
<1> QED BY <1>1, <1>2

\* The window is exact throughout.
LEMMA WindowKeptAlways == Spec => [](IInv /\ WindowKept)
<1>1. Init => WindowKept
  BY DEF Init, NewWindow, WindowKept, Remembers
<1>2. IInv /\ WindowKept /\ [Next]_vars => WindowKept'
  BY WindowKeptStep
<1> QED BY <1>1, <1>2, Invariance, PTL DEF Spec

\* The window refuses a record iff it let the record through before or the
\* record is a window's width below the highest one it let through, for
\* every width and every order in which the network delivers.
THEOREM WindowStaysExact == Spec => []WindowExact
<1>1. ASSUME IInv, WindowKept
      PROVE  WindowExact
  <2>1. server_replay \in ReplayWindows /\ accepted \in SUBSET Nat
    BY <1>1, SeqNosNat DEF IInv, TypeOK
  <2> QED BY <1>1, <2>1, RemembersExactly, SeqNosNat DEF WindowKept, WindowExact
<1> QED BY <1>1, WindowKeptAlways, PTL

-----------------------------------------------------------------------------
(* Coalesced records.                                                      *)

InNet(kind, s) == \E d \in net : \E i \in DOMAIN d : d[i].kind = kind /\ d[i].seq = s
FromNet(d) == \A i \in DOMAIN d : Epoch3(d[i]) => InNet(d[i].kind, d[i].seq)

\* The application records of an undamaged epoch-3 datagram, or of its rest.
Clean(d) == \A i \in DOMAIN d : Epoch3(d[i])
Held(d) == IF Clean(d) THEN SeqsOf(d, {"app"}) ELSE {}

Settled(s) ==
    \/ delivered[s] = 1
    \/ s \in refused \cup unopened
    \/ s + WINDOW <= recv_hint - 1

\* Every buffer of recv is used by one datagram at a time.
OneDatagram ==
    /\ pc = "idle" => dg = <<>>
    /\ dg # <<>> => recv_stash = <<>>
    /\ FromNet(dg) /\ FromNet(recv_stash)

\* A number the server sealed is the number of one record, and when that is an
\* application record the window let through, it was delivered or given up.
OneKind ==
    /\ \A s \in SeqNos : ~(InNet("app", s) /\ InNet("ctl", s))
    /\ \A s \in accepted : InNet("app", s) \/ InNet("ctl", s)
    /\ \A s \in accepted : InNet("app", s) => delivered[s] = 1 \/ s \in refused

\* What an undamaged datagram brought is settled, or still in a buffer of
\* which nothing is damaged.
ArrivedKept == \A s \in arrived : Settled(s) \/ s \in Held(dg) \/ s \in Held(recv_stash)

NothingHidden == OneDatagram /\ OneKind /\ ArrivedKept

\* The fields of a record.
LEMMA RecordFields ==
    ASSUME NEW d \in Seq(Records), NEW i \in DOMAIN d
    PROVE  d[i] \in Records /\ d[i].seq \in SeqNos /\ d[i].seq \in Nat
<1>1. d[i] \in Records
  OBVIOUS
<1> QED BY <1>1, SeqNosNat DEF Records

\* Taking the head off a datagram: the rest holds what is not the head.
LEMMA HeadOff ==
    ASSUME NEW d \in Seq(Records), d # <<>>, FromNet(d)
    PROVE  /\ FromNet(Tail(d))
           /\ Epoch3(Head(d)) => InNet(Head(d).kind, Head(d).seq)
           /\ \A s \in Held(d) : \/ s \in Held(Tail(d))
                                 \/ Head(d).kind = "app" /\ s = Head(d).seq
           /\ Held(d) # {} => Epoch3(Head(d))
<1>1. Len(d) \in Nat /\ Len(d) > 0 /\ DOMAIN d = 1..Len(d)
  OBVIOUS
<1>2. Head(d) = d[1] /\ 1 \in DOMAIN d
  BY <1>1
<1>3. Tail(d) \in Seq(Records) /\ DOMAIN Tail(d) = 1..(Len(d) - 1)
  BY <1>1
<1>4. \A i \in DOMAIN Tail(d) : i + 1 \in DOMAIN d /\ Tail(d)[i] = d[i + 1]
  BY <1>1, <1>3
<1>5. \A i \in DOMAIN d : i = 1 \/ (i - 1 \in DOMAIN Tail(d) /\ Tail(d)[i - 1] = d[i])
  BY <1>1, <1>3, SMTT(30)
<1>6. FromNet(Tail(d)) /\ (Epoch3(Head(d)) => InNet(Head(d).kind, Head(d).seq))
  BY <1>2, <1>4, SMTT(30) DEF FromNet
<1>7. Clean(d) => Clean(Tail(d)) /\ Epoch3(Head(d))
  BY <1>2, <1>4 DEF Clean
<1>8. ASSUME NEW s \in SeqsOf(d, {"app"})
      PROVE  s \in SeqsOf(Tail(d), {"app"}) \/ (Head(d).kind = "app" /\ s = Head(d).seq)
  <2>1. PICK i \in DOMAIN d : d[i].kind = "app" /\ d[i].seq = s
    BY <1>8 DEF SeqsOf
  <2> QED BY <1>2, <1>5, <2>1, Zenon DEF SeqsOf
<1> QED BY <1>6, <1>7, <1>8 DEF Held

\* A step that leaves the network and the receiver's numbers alone.
LEMMA HeldStep ==
    ASSUME NothingHidden,
           UNCHANGED <<net, accepted, delivered, recv_hint>>,
           refused \subseteq refused', unopened \subseteq unopened',
           pc' = "idle" => dg' = <<>>, dg' # <<>> => recv_stash' = <<>>,
           FromNet(dg'), FromNet(recv_stash'),
           \A s \in arrived' : Settled(s)' \/ s \in Held(dg') \/ s \in Held(recv_stash')
    PROVE  NothingHidden'
<1>1. OneDatagram'
  BY DEF OneDatagram, FromNet, InNet
<1>2. OneKind'
  BY DEF NothingHidden, OneKind, InNet
<1>3. ArrivedKept'
  BY DEF ArrivedKept
<1> QED BY <1>1, <1>2, <1>3 DEF NothingHidden

\* An empty datagram is one of the network.
LEMMA EmptyFromNet == FromNet(<<>>)
BY DEF FromNet

\* Steps of recv that admit nothing.
LEMMA RecvKeeps ==
    ASSUME IInv, WindowKept, NothingHidden,
           \/ RecvCall \/ RecvTimeout \/ DrainStash \/ (\E d \in net : ReadDatagram(d))
           \/ StopAtPlaintext \/ ResendFinished \/ ResendFails \/ StopAtUnopened \/ SkipReplay
    PROVE  NothingHidden'
<1> USE DEF client, call, server, network, history
<1>0. /\ dg \in Seq(Records) /\ net \subseteq Seq(Records)
      /\ OneDatagram /\ OneKind /\ ArrivedKept
  BY SMTT(30) DEF IInv, TypeOK, NothingHidden
<1>1. CASE RecvCall
  BY <1>0, <1>1, EmptyFromNet, HeldStep, SMTT(30) DEF RecvCall, OneDatagram, ArrivedKept, Settled
<1>2. CASE RecvTimeout
  BY <1>0, <1>2, EmptyFromNet, HeldStep, SMTT(30) DEF RecvTimeout, OneDatagram, ArrivedKept, Settled
<1>3. CASE DrainStash
  BY <1>0, <1>3, EmptyFromNet, HeldStep, SMTT(30) DEF DrainStash, OneDatagram, ArrivedKept, Settled
<1>4. CASE \E d \in net : ReadDatagram(d)
  <2>1. PICK d \in net : ReadDatagram(d)
    BY <1>4
  <2>2. FromNet(d)
    BY DEF FromNet, InNet
  <2>3. \A s \in arrived' : s \in arrived \/ s \in Held(dg')
    BY <2>1 DEF ReadDatagram, Held, Clean
  <2>4. Held(<<>>) = {}
    BY DEF Held, SeqsOf
  <2>5. dg = <<>> /\ recv_stash = <<>> /\ dg' = d
    BY <2>1 DEF ReadDatagram
  <2>6. \A s \in arrived' : Settled(s)' \/ s \in Held(dg')
    BY <1>0, <2>1, <2>3, <2>4, <2>5 DEF ReadDatagram, ArrivedKept, Settled
  <2> QED BY <1>0, <2>1, <2>2, <2>6, EmptyFromNet, HeldStep DEF ReadDatagram
<1>5. CASE StopAtPlaintext \/ ResendFinished \/ ResendFails
  <2>1. dg # <<>> /\ ~Epoch3(Head(dg)) /\ dg' = <<>>
        /\ UNCHANGED <<recv_stash, net, history, recv_hint>>
    BY <1>5 DEF StopAtPlaintext, ResendFinished, ResendFails, Epoch3
  <2>2. Held(dg) = {}
    BY <1>0, <2>1, HeadOff DEF OneDatagram
  <2> QED BY <1>0, <2>1, <2>2, EmptyFromNet, HeldStep, SMTT(30) DEF OneDatagram, ArrivedKept, Settled
<1>6. CASE StopAtUnopened
  <2>1. /\ dg # <<>> /\ dg' = <<>>
        /\ UNCHANGED <<recv_stash, net, accepted, delivered, refused, arrived, recv_hint>>
        /\ unopened \subseteq unopened'
        /\ Epoch3(Head(dg)) => SeqsOf(dg, {"app"}) \subseteq unopened'
    BY <1>6 DEF StopAtUnopened
  <2>2. Held(dg) \subseteq unopened'
    <3>1. Held(dg) # {} => Epoch3(Head(dg))
      BY <1>0, <2>1, HeadOff DEF OneDatagram
    <3> QED BY <2>1, <3>1 DEF Held
  <2>3. \A s \in arrived' : Settled(s)' \/ s \in Held(recv_stash')
    BY <1>0, <2>1, <2>2 DEF ArrivedKept, Settled
  <2> QED BY <1>0, <2>1, <2>3, EmptyFromNet, HeldStep, SMTT(30) DEF OneDatagram
<1>7. CASE SkipReplay
  <2> DEFINE r == Head(dg)
  <2>1. dg # <<>> /\ dg' = Tail(dg) /\ Epoch3(r) /\ ~Accepts(server_replay, r.seq)
        /\ UNCHANGED <<pc, recv_stash, net, history, recv_hint>>
    BY <1>7, SMTT(30) DEF SkipReplay, Opens
  <2>2. /\ FromNet(Tail(dg)) /\ InNet(r.kind, r.seq)
        /\ \A s \in Held(dg) : s \in Held(Tail(dg)) \/ (r.kind = "app" /\ s = r.seq)
    BY <1>0, <2>1, HeadOff DEF OneDatagram
  <2>3. r.seq \in Nat /\ server_replay \in ReplayWindows /\ accepted \in SUBSET Nat
        /\ Remembers(server_replay, accepted)
        /\ recv_hint = IF server_replay.seen_any THEN server_replay.highest + 1 ELSE 0
    <3>1. r \in Records
      BY <1>0, <2>1
    <3> QED BY <3>1, SeqNosNat DEF Records, IInv, TypeOK, WindowKept
  <2> HIDE DEF r
  <2>4. r.seq \in accepted \/ r.seq + WINDOW <= recv_hint - 1
    BY <2>1, <2>3, WindowAssumption DEF Accepts, Remembers, ReplayWindows, Bits
  <2>5. r.kind = "app" => Settled(r.seq)
    BY <1>0, <2>2, <2>4 DEF OneKind, Settled
  <2>6. pc # "idle" /\ recv_stash = <<>>
    BY <1>0, <2>1 DEF OneDatagram
  <2>7. \A s \in arrived' : Settled(s)' \/ s \in Held(dg') \/ s \in Held(recv_stash')
    BY <1>0, <2>1, <2>2, <2>5 DEF ArrivedKept, Settled
  <2> QED BY <1>0, <2>1, <2>2, <2>6, <2>7, EmptyFromNet, HeldStep, SMTT(30)
<1> QED BY <1>1, <1>2, <1>3, <1>4, <1>5, <1>6, <1>7

\* Steps of recv that admit the record at the head.
LEMMA AdmitKeeps ==
    ASSUME IInv, WindowKept, NothingHidden, SkipControl \/ DeliverApp \/ BufferTooSmall
    PROVE  NothingHidden'
<1> DEFINE r == Head(dg)
<1>1. /\ dg \in Seq(Records) /\ dg # <<>> /\ Admit(r) /\ Epoch3(r)
      /\ OneDatagram /\ OneKind /\ ArrivedKept /\ recv_stash = <<>> /\ pc # "idle"
  BY SMTT(30) DEF SkipControl, DeliverApp, BufferTooSmall, Epoch3, IInv, TypeOK, NothingHidden, OneDatagram
<1>2. /\ FromNet(Tail(dg)) /\ InNet(r.kind, r.seq)
      /\ \A s \in Held(dg) : s \in Held(Tail(dg)) \/ (r.kind = "app" /\ s = r.seq)
  BY <1>1, HeadOff DEF OneDatagram
<1>3. r \in Records /\ r.seq \in SeqNos /\ r.seq \in Nat
  <2>1. r \in Records
    BY <1>1
  <2> QED BY <2>1, SeqNosNat DEF Records
<1> HIDE DEF r
<1>4. /\ accepted' = accepted \cup {r.seq} /\ recv_hint \in Nat /\ recv_hint' \in Nat
      /\ recv_hint <= recv_hint'
      /\ net' = net /\ arrived' = arrived /\ unopened' = unopened
  BY <1>1, <1>3, SMTT(30) DEF Admit, network, IInv, TypeOK
<1>5. delivered[r.seq] = 0
  BY <1>1, <1>3, AdmitRefuses
<1>6. /\ refused \subseteq refused'
      /\ \A s \in SeqNos : delivered[s] = 1 => delivered'[s] = 1
      /\ r.kind = "app" => delivered'[r.seq] = 1 \/ r.seq \in refused'
  <2>1. CASE SkipControl
    BY <2>1 DEF SkipControl, r
  <2>2. CASE DeliverApp
    <3>1. refused' = refused /\ delivered' = [delivered EXCEPT ![r.seq] = @ + 1]
      BY <2>2 DEF DeliverApp, r
    <3> QED BY <1>3, <1>5, <3>1 DEF IInv, TypeOK
  <2>3. CASE BufferTooSmall
    <3>1. refused' = refused \cup SeqsOf(dg, {"app"}) /\ delivered' = delivered /\ r.kind = "app"
      BY <2>3 DEF BufferTooSmall, r
    <3>2. r.seq \in SeqsOf(dg, {"app"})
      BY <1>1, <3>1 DEF SeqsOf, r
    <3> QED BY <3>1, <3>2
  <2> QED BY <2>1, <2>2, <2>3
<1>7. ASSUME NEW s \in arrived, Settled(s)
      PROVE  Settled(s)'
  <2>1. s \in SeqNos /\ s \in Nat /\ WINDOW \in Nat
    BY SeqNosNat, WindowAssumption DEF IInv, TypeOK
  <2>2. CASE s + WINDOW <= recv_hint - 1
    <3>0. \A a, b, m, n \in Nat : a + b <= m - 1 /\ m <= n => a + b <= n - 1
      OBVIOUS
    <3>1. s + WINDOW <= recv_hint' - 1
      BY <1>4, <2>1, <2>2, <3>0, Zenon
    <3> QED BY <3>1 DEF Settled
  <2>3. CASE delivered[s] = 1 \/ s \in refused \cup unopened
    BY <1>4, <1>6, <2>1, <2>3, Zenon DEF Settled
  <2> QED BY <1>7, <2>2, <2>3 DEF Settled
<1>8. OneKind'
  <2>1. ASSUME NEW s \in accepted', InNet("app", s)
        PROVE  delivered'[s] = 1 \/ s \in refused'
    <3>1. CASE s = r.seq
      <4>1. r.kind = "app"
        BY <1>1, <1>2, <1>3, <2>1, <3>1, SMTT(30) DEF OneKind, Epoch3
      <4> QED BY <1>6, <3>1, <4>1
    <3>2. CASE s \in accepted
      <4>1. s \in SeqNos
        BY <3>2 DEF IInv, TypeOK
      <4> QED BY <1>1, <1>6, <2>1, <3>2, <4>1 DEF OneKind
    <3> QED BY <1>4, <2>1, <3>1, <3>2, SMTT(30)
  <2>2. \A k, s : InNet(k, s)' = InNet(k, s)
    BY <1>4 DEF InNet
  <2>3. InNet("app", r.seq) \/ InNet("ctl", r.seq)
    BY <1>1, <1>2, SMTT(30) DEF Epoch3
  <2>4. \A s \in accepted' : InNet("app", s) \/ InNet("ctl", s)
    BY <1>1, <1>4, <2>3 DEF OneKind
  <2> QED BY <1>1, <2>1, <2>2, <2>4 DEF OneKind
<1>9. Held(<<>>) = {}
  BY DEF Held, SeqsOf
<1>10. OneDatagram'
  <2>1. /\ pc' = "idle" => dg' = <<>>
        /\ dg' # <<>> => recv_stash' = <<>>
        /\ dg' \in {<<>>, Tail(dg)} /\ recv_stash' \in {<<>>, Tail(dg)}
    BY <1>1 DEF SkipControl, DeliverApp, BufferTooSmall
  <2>2. FromNet(dg') /\ FromNet(recv_stash')
    BY <1>2, <2>1, EmptyFromNet, Zenon
  <2> QED BY <1>4, <2>1, <2>2, SMTT(30) DEF OneDatagram, FromNet, InNet
<1>11. ArrivedKept'
  <2> SUFFICES ASSUME NEW s \in arrived
               PROVE  Settled(s)' \/ s \in Held(dg') \/ s \in Held(recv_stash')
    BY <1>4 DEF ArrivedKept
  <2>1. CASE Settled(s)
    BY <1>7, <2>1
  <2>2. CASE s \in Held(dg)
    <3>1. CASE SkipControl
      BY <1>2, <2>2, <3>1 DEF SkipControl, r
    <3>2. CASE DeliverApp
      <4>1. recv_stash' = Tail(dg) /\ refused' = refused /\ r.kind = "app"
        BY <3>2 DEF DeliverApp, r
      <4>2. delivered' = [delivered EXCEPT ![r.seq] = @ + 1]
        BY <3>2 DEF DeliverApp, r
      <4>3. delivered'[r.seq] = 1
        BY <1>3, <1>5, <4>2 DEF IInv, TypeOK
      <4> QED BY <1>2, <2>2, <4>1, <4>3 DEF Settled
    <3>3. CASE BufferTooSmall
      BY <2>2, <3>3, SMTT(30) DEF BufferTooSmall, Held, Settled
    <3> QED BY <3>1, <3>2, <3>3
  <2> QED BY <1>1, <1>9, <2>1, <2>2 DEF ArrivedKept
<1> QED BY <1>8, <1>10, <1>11, SMTT(30) DEF NothingHidden

\* The network gains a datagram whose epoch-3 records, if any, bear numbers
\* that no record in the network has, each of one kind.
LEMMA NetGrows ==
    ASSUME IInv, NothingHidden, NEW d, net' = net \cup {d},
           UNCHANGED <<client, call, history>>,
           \A i \in DOMAIN d : Epoch3(d[i]) => \/ InNet(d[i].kind, d[i].seq)
                                               \/ d[i].seq \in Nat /\ d[i].seq >= srv_seq,
           \A i, j \in DOMAIN d : (Epoch3(d[i]) /\ Epoch3(d[j]) /\ d[i].seq = d[j].seq)
                                      => d[i].kind = d[j].kind
    PROVE  NothingHidden'
<1> USE DEF client, call, history
<1>1. \A kind, s : InNet(kind, s) => InNet(kind, s)'
  BY SMTT(30) DEF InNet
<1>2. ASSUME NEW kind \in {"app", "ctl"}, NEW s \in SeqNos, InNet(kind, s)
      PROVE  s < srv_seq
  <2>1. PICK e \in net : \E i \in DOMAIN e : e[i].kind = kind /\ e[i].seq = s
    BY <1>2, SMTT(30) DEF InNet
  <2> QED BY <1>2, <2>1, SMTT(30) DEF IInv, OnlySent, SentBelow, Epoch3
<1>3. ASSUME NEW kind \in {"app", "ctl"}, NEW s \in SeqNos, InNet(kind, s)'
      PROVE  \/ InNet(kind, s)
             \/ \E i \in DOMAIN d : /\ d[i].kind = kind /\ d[i].seq = s
                                    /\ s \in Nat /\ s >= srv_seq
  <2>1. PICK e \in net \cup {d} : \E i \in DOMAIN e : e[i].kind = kind /\ e[i].seq = s
    BY <1>3, SMTT(30) DEF InNet
  <2>2. CASE e \in net
    BY <2>1, <2>2, SMTT(30) DEF InNet
  <2>3. CASE e = d
    BY <2>1, <2>3, SMTT(30) DEF Epoch3
  <2> QED BY <2>1, <2>2, <2>3, SMTT(30)
<1>4. srv_seq \in Nat
  BY DataPhaseAssumption, SMTT(30) DEF IInv, TypeOK
<1>5. OneDatagram'
  BY <1>1, SMTT(30) DEF NothingHidden, OneDatagram, FromNet
<1>6. OneKind'
  <2>1. ASSUME NEW s \in SeqNos, InNet("app", s)', InNet("ctl", s)'
        PROVE  FALSE
    <3>1. s \in Nat
      BY SeqNosNat, SMTT(30)
    <3>2. CASE s < srv_seq
      <4>0. ~(s >= srv_seq)
        BY <1>4, <3>1, <3>2, SMTT(30)
      <4>1. InNet("app", s) /\ InNet("ctl", s)
        BY <1>3, <2>1, <4>0, SMTT(30)
      <4> QED BY <4>1 DEF NothingHidden, OneKind
    <3>3. CASE ~(s < srv_seq)
      <4>1. ~InNet("app", s) /\ ~InNet("ctl", s)
        BY <1>2, <3>3, SMTT(30)
      <4>2. PICK i \in DOMAIN d : d[i].kind = "app" /\ d[i].seq = s
        BY <1>3, <2>1, <4>1, SMTT(30)
      <4>3. PICK j \in DOMAIN d : d[j].kind = "ctl" /\ d[j].seq = s
        BY <1>3, <2>1, <4>1, SMTT(30)
      <4>4. d[i].kind = d[j].kind
        BY <4>2, <4>3, SMTT(30) DEF Epoch3
      <4> QED BY <4>2, <4>3, <4>4, SMTT(30)
    <3> QED BY <3>2, <3>3, SMTT(30)
  <2>2. ASSUME NEW s \in accepted
        PROVE  /\ InNet("app", s)' \/ InNet("ctl", s)'
               /\ InNet("app", s)' => delivered[s] = 1 \/ s \in refused
    <3>1. s \in SeqNos /\ s \in Nat
      <4>1. accepted \subseteq SeqNos
        BY DEF IInv, TypeOK
      <4> QED BY <4>1, SeqNosNat, Zenon
    <3>2. InNet("app", s) \/ InNet("ctl", s)
      BY SMTT(30) DEF NothingHidden, OneKind
    <3>3. s < srv_seq
      BY <1>2, <3>1, <3>2, SMTT(30)
    <3>4. InNet("app", s)' => InNet("app", s)
      <4>1. ~(s >= srv_seq)
        BY <1>4, <3>1, <3>3
      <4> QED BY <1>3, <3>1, <4>1, Zenon
    <3> QED BY <1>1, <3>2, <3>4, Zenon DEF NothingHidden, OneKind
  <2>3. accepted' = accepted /\ delivered' = delivered /\ refused' = refused
    OBVIOUS
  <2> QED BY <2>1, <2>2, <2>3, Zenon DEF OneKind
<1>7. ArrivedKept'
  BY Zenon DEF NothingHidden, ArrivedKept, Settled
<1> QED BY <1>5, <1>6, <1>7, SMTT(30) DEF NothingHidden

\* What the server and the network do hides nothing.
LEMMA EnvironmentKeeps ==
    ASSUME IInv, NothingHidden, Environment
    PROVE  NothingHidden'
<1>1. CASE RetransmitFlight
  <2>1. PICK hello \in HelloFirst :
          net' = net \cup {IF hello THEN <<Rec("plain", 0), Rec("ep2", 0)>> ELSE <<Rec("ep2", 0)>>}
    BY <1>1 DEF RetransmitFlight
  <2> DEFINE d == IF hello THEN <<Rec("plain", 0), Rec("ep2", 0)>> ELSE <<Rec("ep2", 0)>>
  <2>2. \A i \in DOMAIN d : ~Epoch3(d[i])
    BY DEF Epoch3, Rec
  <2>3. net' = net \cup {d}
    BY <2>1
  <2> HIDE DEF d
  <2> QED BY <1>1, <2>2, <2>3, NetGrows, Zenon DEF RetransmitFlight
<1>2. CASE FinishedArrives \/ FinishedLost
  <2>1. UNCHANGED <<client, call, net, history>>
    BY <1>2 DEF FinishedArrives, FinishedLost, network
  <2>2. \A k, s : InNet(k, s)' = InNet(k, s)
    BY <2>1 DEF InNet
  <2>3. OneDatagram'
    BY <2>1, <2>2 DEF NothingHidden, OneDatagram, FromNet, call, client
  <2>4. OneKind'
    BY <2>1, <2>2 DEF NothingHidden, OneKind, history
  <2>5. ArrivedKept'
    BY <2>1, SMTT(30) DEF NothingHidden, ArrivedKept, Settled, call, history, client
  <2> QED BY <2>3, <2>4, <2>5 DEF NothingHidden
<1>3. CASE \E kinds \in KindSeqs, gap \in Gaps : ServerSends(kinds, gap)
  <2>1. PICK kinds \in KindSeqs, gap \in Gaps : ServerSends(kinds, gap)
    BY <1>3
  <2>2. PICK n \in 1..MaxCoalesced : kinds \in [1..n -> {"app", "ctl"}]
    BY DEF KindSeqs
  <2> DEFINE d == NewDatagram(kinds, gap)
  <2>3. net' = net \cup {d} /\ UNCHANGED <<client, call, history>>
    BY <2>1 DEF ServerSends, NewDatagram
  <2>4. gap \in Nat /\ srv_seq \in Nat /\ n \in Nat
    BY DataPhaseAssumption DEF IInv, TypeOK
  <2>5. DOMAIN d = 1..n /\ \A i \in 1..n : d[i].kind = kinds[i] /\ d[i].seq = srv_seq + gap + i - 1
    BY <2>2 DEF NewDatagram, Rec
  <2> HIDE DEF d
  <2>6. \A i \in 1..n : d[i].seq \in Nat /\ d[i].seq >= srv_seq
    BY <2>4, <2>5
  <2>7. \A i, j \in 1..n : d[i].seq = d[j].seq => i = j
    BY <2>4, <2>5, SMTT(30)
  <2>8. \A i \in DOMAIN d : d[i].seq \in Nat /\ d[i].seq >= srv_seq
    BY <2>5, <2>6, Zenon
  <2>9. \A i, j \in DOMAIN d : d[i].seq = d[j].seq => d[i].kind = d[j].kind
    BY <2>5, <2>7, Zenon
  <2> QED BY <2>3, <2>8, <2>9, NetGrows, Zenon
<1>4. CASE \E d \in net : \E i \in DOMAIN d : Corrupt(d, i)
  <2>1. PICK d \in net : \E i \in DOMAIN d : Corrupt(d, i)
    BY <1>4
  <2>2. PICK i \in DOMAIN d : Corrupt(d, i)
    BY <2>1
  <2> DEFINE e == [d EXCEPT ![i] = Rec("junk", 0)]
  <2>3. net' = net \cup {e} /\ UNCHANGED <<client, call, history>>
    BY <2>2 DEF Corrupt
  <2>4. d \in Seq(Records)
    BY DEF IInv, TypeOK
  <2>5. DOMAIN e = DOMAIN d /\ \A j \in DOMAIN d : Epoch3(e[j]) => e[j] = d[j]
    BY <2>4 DEF Rec, Epoch3
  <2> HIDE DEF e
  <2>6. \A j \in DOMAIN d : d[j].seq \in SeqNos
    BY <2>4, RecordFields
  <2>7. \A j \in DOMAIN d : InNet(d[j].kind, d[j].seq)
    BY DEF InNet
  <2>8. \A j, k \in DOMAIN e : (Epoch3(e[j]) /\ Epoch3(e[k]) /\ e[j].seq = e[k].seq)
                                  => e[j].kind = e[k].kind
    BY <2>5, <2>6, <2>7 DEF NothingHidden, OneKind, Epoch3
  <2> QED BY <2>3, <2>5, <2>7, <2>8, NetGrows
<1> QED BY <1>1, <1>2, <1>3, <1>4, SMTT(30) DEF Environment

\* No step hides a record.
LEMMA NothingHiddenStep ==
    ASSUME IInv, WindowKept, NothingHidden, [Next]_vars
    PROVE  NothingHidden'
<1>1. CASE UNCHANGED vars \/ \E p \in Payloads : Send(p)
  <2>1. UNCHANGED <<recv_stash, recv_hint, call, net, history>>
    BY <1>1, Zenon DEF Send, vars, client, network
  <2>2. \A k, s : InNet(k, s)' = InNet(k, s)
    BY <2>1 DEF InNet
  <2>3. OneDatagram'
    BY <2>1, <2>2 DEF NothingHidden, OneDatagram, FromNet, call
  <2>4. OneKind'
    BY <2>1, <2>2 DEF NothingHidden, OneKind, history
  <2>5. ArrivedKept'
    BY <2>1 DEF NothingHidden, ArrivedKept, Settled, call, history
  <2> QED BY <2>3, <2>4, <2>5 DEF NothingHidden
<1>2. CASE RecvCall \/ Recv
  BY <1>2, RecvKeeps, AdmitKeeps DEF Recv
<1>3. CASE Environment
  BY <1>3, EnvironmentKeeps
<1> QED BY <1>1, <1>2, <1>3 DEF Next

\* No record is lost to its place in a datagram: each application record of an
\* undamaged epoch-3 datagram that recv read is delivered, still held, below
\* the window, not numbered, or given up to a caller with a short buffer.
THEOREM CoalescedNeverHidden == Spec => []CoalescedNotHidden
<1>1. Init => NothingHidden
  <2> SUFFICES ASSUME Init PROVE NothingHidden
    OBVIOUS
  <2>1. dg = <<>> /\ recv_stash = <<>> /\ accepted = {} /\ arrived = {} /\ net = {}
    BY DEF Init
  <2>2. OneDatagram
    BY <2>1 DEF OneDatagram, FromNet
  <2>3. OneKind
    BY <2>1 DEF OneKind, InNet
  <2>4. ArrivedKept
    BY <2>1 DEF ArrivedKept
  <2> QED BY <2>2, <2>3, <2>4 DEF NothingHidden
<1>2. IInv /\ WindowKept /\ NothingHidden /\ [Next]_vars => NothingHidden'
  BY NothingHiddenStep
<1>3. NothingHidden => CoalescedNotHidden
  BY DEF NothingHidden, ArrivedKept, Settled, Held, CoalescedNotHidden
<1> QED BY <1>1, <1>2, <1>3, WindowKeptAlways, PTL DEF Spec

-----------------------------------------------------------------------------
(* The window and the rebuilt numbers.                                     *)

\* The numbers recv may yet let through that lie less than half a step ahead.
Near(s) == Accepts(server_replay, s) /\ 2 * (s - recv_hint) < STEP

NearOpens == \A s \in SeqNos : Near(s) => Opens(Rec("app", s)) /\ Opens(Rec("ctl", s))

\* The two widths fit: the on-wire bits tell apart all the numbers the window
\* may let through, so a late record inside the window, or one less than half
\* a step ahead, is always rebuilt to its own number and opened.
THEOREM NearAlwaysOpens == Spec => []NearOpens
<1>1. ASSUME IInv, WindowKept
      PROVE  NearOpens
  <2> SUFFICES ASSUME NEW s \in SeqNos, Near(s)
               PROVE  ReconstructSeq(WireSeq(s, STEP), STEP, recv_hint) = s
    BY DEF NearOpens, Opens, Rec, Epoch3
  <2>1. /\ s \in Nat /\ recv_hint \in Nat /\ STEP \in Nat \ {0} /\ WINDOW \in Nat
        /\ STEP > 2 * WINDOW /\ server_replay \in ReplayWindows
    BY <1>1, SeqNosNat, DataPhaseAssumption, WindowAssumption DEF IInv, TypeOK
  <2>2. s < recv_hint => recv_hint - s <= WINDOW
    <3>1. CASE ~server_replay.seen_any
      BY <1>1, <2>1, <3>1 DEF WindowKept
    <3>2. CASE server_replay.seen_any
      <4>1. recv_hint = server_replay.highest + 1 /\ server_replay.highest \in Nat
        BY <1>1, <2>1, <3>2 DEF WindowKept, ReplayWindows
      <4>2. s > server_replay.highest \/ server_replay.highest - s < WINDOW
        BY <3>2 DEF Near, Accepts
      <4> QED BY <2>1, <4>1, <4>2
    <3> QED BY <3>1, <3>2
  <2>3. 2 * AbsDiff(s, recv_hint) < STEP
    BY <2>1, <2>2 DEF AbsDiff, Near
  <2> QED BY <2>1, <2>3, RebuiltExactly
<1> QED BY <1>1, WindowKeptAlways, PTL
===============================================================================
