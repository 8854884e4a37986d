---------------------------- MODULE DtlsReassembly ----------------------------
(***************************************************************************)
(* The DTLS handshake-message reassembler (dtls/reassembly.rs): fragments  *)
(* of the server's flight arrive in any order, duplicated and overlapping, *)
(* and go into a caller-supplied arena; sorted and merged byte ranges say  *)
(* what each message still lacks.  An arena byte is modelled by the byte   *)
(* of the flight that it holds, <<message_seq, offset>>.                   *)
(***************************************************************************)
EXTENDS Integers, Sequences, FiniteSets, FiniteSetsExt

CONSTANTS
    MAX_MSGS, MAX_FRAGS,   \* capacities: 8 and 16 in dtls/client.rs
    ARENA,                 \* length of reasm_buf
    Flight,                \* the flight: message_seq -> [type, len]
    FINISHED,              \* the type of the Finished
    base_seq               \* one past the ServerHello's message_seq

ASSUME ReassemblyAssumption ==
    /\ MAX_MSGS \in Nat /\ MAX_FRAGS \in Nat \ {0} /\ ARENA \in Nat
    /\ base_seq \in Nat \ {0}

\* The flight's messages are numbered from base_seq on without a gap, none is
\* empty, and the last one, only that one, is the Finished.
ASSUME FlightAssumption ==
    \E last \in DOMAIN Flight :
        /\ last \in Nat /\ DOMAIN Flight = base_seq..last
        /\ \A seq \in base_seq..last : /\ Flight[seq].len \in Nat \ {0}
                                       /\ Flight[seq].type = FINISHED <=> seq = last

VARIABLES
    slots, used,     \* Reassembler
    arena,           \* reasm_buf
    error,           \* what push returned last; connect gives up on the first error
    got              \* history: the bytes of the flight that have arrived

vars == <<slots, used, arena, error, got>>

NoByte == <<-1, -1>>

Slot(seq, type, len, off) == [seq |-> seq, type |-> type, len |-> len, off |-> off, ranges |-> <<>>]

is_complete(s) == Len(s.ranges) = 1 /\ s.ranges[1] = <<0, s.len>>

-----------------------------------------------------------------------------
(***************************************************************************)
(* add_range: the ranges are walked in order; those that touch [lo, hi)    *)
(* are absorbed into it, and it is put in front of the first one beyond.   *)
(***************************************************************************)
Absorb(acc, r) ==
    IF r[2] < acc.lo THEN [acc EXCEPT !.merged = Append(@, r)]
    ELSE IF acc.hi < r[1]
    THEN [acc EXCEPT !.merged = IF acc.placed THEN Append(@, r)
                                ELSE Append(Append(@, <<acc.lo, acc.hi>>), r),
                     !.placed = TRUE]
    ELSE [acc EXCEPT !.lo = Min({@, r[1]}), !.hi = Max({@, r[2]})]

add_range(ranges, start, end) ==
    IF start >= end THEN ranges
    ELSE LET walk[k \in 0..Len(ranges)] ==
                 IF k = 0 THEN [lo |-> start, hi |-> end, merged |-> <<>>, placed |-> FALSE]
                 ELSE Absorb(walk[k - 1], ranges[k])
             acc == walk[Len(ranges)]
         IN  IF acc.placed THEN acc.merged ELSE Append(acc.merged, <<acc.lo, acc.hi>>)

-----------------------------------------------------------------------------
(* push: one fragment [off, end) of message `seq`, as a function of the    *)
(* reassembler's state, since one record may carry several.                *)

state == [slots |-> slots, used |-> used, arena |-> arena, error |-> error, got |-> got]
Becomes(st) ==
    /\ slots' = st.slots /\ used' = st.used /\ arena' = st.arena
    /\ error' = st.error /\ got' = st.got

Frag(type, seq, len, off, end) == [type |-> type, seq |-> seq, len |-> len, off |-> off, end |-> end]

Refused(st, e) == [st EXCEPT !.error = e]

Position(ss, seq) == IF \E i \in 1..Len(ss) : ss[i].seq = seq
                     THEN CHOOSE i \in 1..Len(ss) : ss[i].seq = seq ELSE 0

\* The fragment's bytes into the arena, its range into the slot.
Written(a, s, f) == [p \in 0..(ARENA - 1) |-> IF p >= s.off + f.off /\ p < s.off + f.end
                                              THEN <<s.seq, p - s.off>> ELSE a[p]]
Ranged(st, i, f, ranges) ==
    IF Len(ranges) > MAX_FRAGS THEN Refused(st, "TooManyFragments")
    ELSE [st EXCEPT !.slots[i].ranges = ranges,
                    !.got = @ \cup {<<f.seq, b>> : b \in f.off..(f.end - 1)}]
Store(st, i, f) ==
    Ranged([st EXCEPT !.arena = Written(@, st.slots[i], f)], i, f,
           add_range(st.slots[i].ranges, f.off, f.end))

PushKnown(st, i, f) ==
    IF st.slots[i].type # f.type \/ st.slots[i].len # f.len THEN Refused(st, "Inconsistent")
    ELSE Store(st, i, f)

\* Mutant: the region is as long as the fragment, not as the message.
PushNewFragment(st, f) ==
    IF st.used + f.len > ARENA THEN Refused(st, "ArenaFull")
    ELSE IF Len(st.slots) = MAX_MSGS THEN Refused(st, "TooManyMessages")
    ELSE Store([st EXCEPT !.slots = Append(@, Slot(f.seq, f.type, f.len, st.used)),
                          !.used = @ + f.end - f.off], Len(st.slots) + 1, f)

PushNew(st, f) ==
    IF st.used + f.len > ARENA THEN Refused(st, "ArenaFull")
    ELSE IF Len(st.slots) = MAX_MSGS THEN Refused(st, "TooManyMessages")
    ELSE Store([st EXCEPT !.slots = Append(@, Slot(f.seq, f.type, f.len, st.used)),
                          !.used = @ + f.len], Len(st.slots) + 1, f)

\* connect returns at the first error.
push(st, f) ==
    IF st.error # "Ok" THEN st
    ELSE IF f.end > f.len THEN Refused(st, "BadFragment")
    ELSE IF Position(st.slots, f.seq) # 0 THEN PushKnown(st, Position(st.slots, f.seq), f)
    ELSE PushNew(st, f)

-----------------------------------------------------------------------------
(* flight_complete and serialize_flight.                                   *)

Complete(seq) == \E i \in 1..Len(slots) : slots[i].seq = seq /\ is_complete(slots[i])

FinishedSlots == {i \in 1..Len(slots) : slots[i].type = FINISHED /\ is_complete(slots[i])}

\* Mutant: the first message_seq is inferred from the slots.
flight_complete_inferred ==
    /\ FinishedSlots # {}
    /\ LET fin == slots[Min(FinishedSlots)] IN
         \A seq \in Min({slots[i].seq : i \in 1..Len(slots)})..fin.seq : Complete(seq)

flight_complete ==
    /\ FinishedSlots # {}
    /\ LET fin == slots[Min(FinishedSlots)] IN
         /\ fin.seq >= base_seq
         /\ \A seq \in base_seq..fin.seq : Complete(seq)

Done == {i \in 1..Len(slots) : is_complete(slots[i])}

\* A message with its bytes read back from the arena.
Message(s) == [type |-> s.type, body |-> [b \in 1..s.len |-> arena[s.off + b - 1]]]

\* Mutant: the messages in the order in which they first arrived.
serialize_by_arrival ==
    [k \in 1..Cardinality(Done) |->
        Message(slots[CHOOSE i \in Done : Cardinality({j \in Done : j < i}) = k - 1])]

\* The complete messages in ascending order: the k-th is the one that has
\* k - 1 of them below it.
serialize_flight ==
    [k \in 1..Cardinality(Done) |->
        Message(slots[CHOOSE i \in Done :
                          Cardinality({j \in Done : slots[j].seq < slots[i].seq}) = k - 1])]

-----------------------------------------------------------------------------
Init ==
    /\ slots = <<>> /\ used = 0
    /\ arena = [p \in 0..(ARENA - 1) |-> NoByte]
    /\ error = "Ok" /\ got = {}

\* Any fragment of a message of the flight, the empty one included.
Fragment ==
    \E seq \in DOMAIN Flight : \E off \in 0..Flight[seq].len : \E end \in off..Flight[seq].len :
        /\ error = "Ok"
        /\ Becomes(push(state, Frag(Flight[seq].type, seq, Flight[seq].len, off, end)))

\* What the flight does not hold: a fragment with another length than its
\* message, one that is too long, and an empty message of another message_seq.
Stray ==
    /\ error = "Ok"
    /\ \/ \E seq \in DOMAIN Flight : \E more \in {0, 1} :
            Becomes(push(state, Frag(Flight[seq].type, seq, Flight[seq].len + more, 0, Flight[seq].len + 1)))
       \/ Becomes(push(state, Frag("empty", base_seq - 1, 0, 0, 0)))

-----------------------------------------------------------------------------
(* Properties.                                                             *)

Slots == {slots[i] : i \in 1..Len(slots)}
BytesOf(s) == {b \in 0..(s.len - 1) : <<s.seq, b>> \in got}

\* Every byte that arrived is where its message's region says, whatever
\* arrived before or after it: regions never overlap and fragments never spill.
ArenaHolds ==
    \A s \in Slots : \A b \in BytesOf(s) : arena[s.off + b] = <<s.seq, b>>

Arrived(seq) == \A b \in 0..(Flight[seq].len - 1) : <<seq, b>> \in got

\* The flight is complete exactly when each byte of each of its messages has
\* arrived, even if the Finished overtook the others.
CompleteWhenAll ==
    error = "Ok" => (flight_complete <=> \A seq \in DOMAIN Flight : Arrived(seq))

\* A complete flight is serialized as the server sent it: the transcript that
\* CertificateVerify and Finished are checked against does not depend on the
\* order of arrival.
SerializedInOrder ==
    error = "Ok" /\ flight_complete =>
      serialize_flight = [k \in 1..Cardinality(DOMAIN Flight) |->
          LET seq == base_seq + k - 1 IN
          [type |-> Flight[seq].type,
           body |-> [b \in 1..Flight[seq].len |-> <<seq, b - 1>>]]]
===============================================================================
