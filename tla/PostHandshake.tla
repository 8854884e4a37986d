---------------------------- MODULE PostHandshake ----------------------------
(***************************************************************************)
(* Reassembly of post-handshake messages out of records that cut them      *)
(* anywhere (feed_post_handshake and PostHandshakeReasm in                 *)
(* client/engine.rs).  The peer's messages form one byte stream; a byte is *)
(* its position in it.  NewSessionTicket bodies are skipped, a KeyUpdate   *)
(* is staged until its one body byte is there, anything else is refused.   *)
(***************************************************************************)
EXTENDS Integers, Sequences, FiniteSetsExt, Joining

CONSTANTS
    HDR,          \* bytes of a handshake header: 4 in the source
    Streams,      \* the message sequences the peer may send
    MaxLen        \* bound: bytes in one record

PH_STAGE_MAX == HDR + 1

\* A KeyUpdate carries the value of its first body byte.
Types == {"ticket", "key_update", "other"}
Message == [type : Types, len : Nat, flag : Nat]

ASSUME PostHandshakeAssumption ==
    /\ HDR \in Nat \ {0} /\ MaxLen \in Nat
    /\ Streams \subseteq Seq(Message)

VARIABLES
    msgs,                       \* the peer's messages
    stage, skip_remaining,      \* PostHandshakeReasm: `stage` holds stage_len bytes
    pos,                        \* bytes of the stream handled so far
    end,                        \* end of the record being walked
    pc,                         \* "idle" between records, "walk", "check", "failed"
    updates,                    \* update_requested of each KeyUpdate acted on
    why                         \* the error

vars == <<msgs, stage, skip_remaining, pos, end, pc, updates, why>>

Size(m) == HDR + m.len
\* Where the k-th of the messages ms begins; one past the last, where they end.
Offset(ms, k) ==
    LET start[j \in 1..(Len(ms) + 1)] == IF j = 1 THEN 0 ELSE start[j - 1] + Size(ms[j - 1])
    IN  start[k]
StartOf(k) == Offset(msgs, k)
Total == StartOf(Len(msgs) + 1)

\* The message a byte belongs to.
MessageOf(p) == CHOOSE k \in 1..Len(msgs) : StartOf(k) <= p /\ p < StartOf(k) + Size(msgs[k])

in_progress == stage # <<>> \/ skip_remaining # 0

Rest == end - pos

-----------------------------------------------------------------------------
(* Records.                                                                *)

\* A handshake record with the next n bytes.
HandshakeRecord(n) ==
    /\ pc = "idle" /\ pos + n <= Total
    /\ end' = pos + n
    /\ pc' = "walk"
    /\ UNCHANGED <<msgs, stage, skip_remaining, pos, updates, why>>

\* Application data or an alert in the middle of a message is refused.
OtherRecord ==
    /\ pc = "idle"
    /\ IF in_progress THEN pc' = "failed" /\ why' = "interleaved" ELSE UNCHANGED <<pc, why>>
    /\ UNCHANGED <<msgs, stage, skip_remaining, pos, end, updates>>

-----------------------------------------------------------------------------
(* The loop of feed_post_handshake.                                        *)

Take(n) == pos' = pos + Min({n, Rest})

\* The body of a ticket that began in an earlier record.
SkipBody ==
    /\ pc = "walk" /\ skip_remaining > 0
    /\ Take(skip_remaining)
    /\ skip_remaining' = skip_remaining - (pos' - pos)
    /\ pc' = IF skip_remaining' > 0 THEN "idle" ELSE "walk"
    /\ UNCHANGED <<msgs, stage, end, updates, why>>

\* Bytes are staged up to `upto` of them.
StageBytes(upto) ==
    /\ Take(upto - Len(stage))
    /\ stage' = stage \o [j \in 1..(pos' - pos) |-> pos + j - 1]

StageHeader ==
    /\ pc = "walk" /\ skip_remaining = 0 /\ Len(stage) < HDR
    /\ StageBytes(HDR)
    /\ pc' = IF Len(stage') < HDR THEN "idle" ELSE "walk"
    /\ UNCHANGED <<msgs, skip_remaining, end, updates, why>>

Staged == pc = "walk" /\ skip_remaining = 0 /\ Len(stage) >= HDR
Header == msgs[MessageOf(stage[1])]

\* Mutant of SkipTicket: the bytes skipped in this record are not counted.
SkipWholeTicket ==
    /\ Staged /\ Header.type = "ticket"
    /\ stage' = <<>>
    /\ Take(Header.len)
    /\ skip_remaining' = IF Header.len > pos' - pos THEN Header.len ELSE 0
    /\ pc' = IF skip_remaining' > 0 THEN "idle" ELSE "walk"
    /\ UNCHANGED <<msgs, end, updates, why>>

SkipTicket ==
    /\ Staged /\ Header.type = "ticket"
    /\ stage' = <<>>
    /\ Take(Header.len)
    /\ skip_remaining' = Header.len - (pos' - pos)
    /\ pc' = IF skip_remaining' > 0 THEN "idle" ELSE "walk"
    /\ UNCHANGED <<msgs, end, updates, why>>

StageKeyUpdate ==
    /\ Staged /\ Header.type = "key_update" /\ Header.len = 1
    /\ StageBytes(PH_STAGE_MAX)
    /\ pc' = IF Len(stage') < PH_STAGE_MAX THEN "idle" ELSE "check"
    /\ UNCHANGED <<msgs, skip_remaining, end, updates, why>>

\* Mutant of KeyUpdateLegal: bytes may follow in the record.
KeyUpdateTrailing == msgs[MessageOf(stage[PH_STAGE_MAX])].flag \in {0, 1}

\* The flag byte is the last one staged: nothing may follow it.
KeyUpdateLegal == pos = end /\ msgs[MessageOf(stage[PH_STAGE_MAX])].flag \in {0, 1}

\* Mutant of ProcessKeyUpdate: update_requested is read the wrong way round.
ProcessKeyUpdateInverted ==
    /\ pc = "check" /\ KeyUpdateLegal
    /\ updates' = Append(updates, 1 - msgs[MessageOf(stage[PH_STAGE_MAX])].flag)
    /\ stage' = <<>>
    /\ pc' = "idle"
    /\ UNCHANGED <<msgs, skip_remaining, pos, end, why>>

ProcessKeyUpdate ==
    /\ pc = "check" /\ KeyUpdateLegal
    /\ updates' = Append(updates, msgs[MessageOf(stage[PH_STAGE_MAX])].flag)
    /\ stage' = <<>>
    /\ pc' = "idle"
    /\ UNCHANGED <<msgs, skip_remaining, pos, end, why>>

Fail(reason) ==
    /\ pc' = "failed" /\ why' = reason
    /\ UNCHANGED <<msgs, stage, skip_remaining, pos, end, updates>>

MalformedKeyUpdate ==
    /\ \/ Staged /\ Header.type = "key_update" /\ Header.len # 1
       \/ pc = "check" /\ ~KeyUpdateLegal
    /\ Fail("malformed")

NotSupported == Staged /\ Header.type = "other" /\ Fail("unsupported")

\* The engine is closed for good.
Failed == pc = "failed" /\ UNCHANGED vars

-----------------------------------------------------------------------------
Init ==
    /\ msgs \in Streams
    /\ stage = <<>> /\ skip_remaining = 0 /\ pos = 0 /\ end = 0
    /\ pc = "idle" /\ updates = <<>> /\ why = ""

Walk ==
    \/ SkipBody \/ StageHeader \/ SkipTicket \/ StageKeyUpdate \/ ProcessKeyUpdate
    \/ MalformedKeyUpdate \/ NotSupported

Next == (\E n \in 0..MaxLen : HandshakeRecord(n)) \/ OtherRecord \/ Walk \/ Failed

Spec == Init /\ [][Next]_vars

-----------------------------------------------------------------------------
(* Properties.                                                             *)

\* The last message boundary at or before the position.
Boundary == Max({StartOf(k) : k \in {j \in 1..(Len(msgs) + 1) : StartOf(j) <= pos}})

\* Between records the carried state is the position inside the message and
\* nothing else, however the stream was cut: the bytes staged are the ones
\* since the message began, the bytes to skip are the ones up to its end, and
\* in_progress tells exactly whether a message is open (engine.rs 86-93).
CarriesExactly ==
    pc = "idle" =>
      /\ in_progress <=> pos # Boundary
      /\ stage # <<>> => stage = [j \in 1..(pos - Boundary) |-> Boundary + j - 1]
      /\ skip_remaining > 0 =>
           pos + skip_remaining = Boundary + Size(msgs[MessageOf(Boundary)])

\* The messages that end at or before a position, and the flags of the
\* KeyUpdates among them.
Ended(p) == Max({k \in 0..Len(msgs) : StartOf(k + 1) <= p})
Flag(m) == IF m.type = "key_update" THEN <<m.flag>> ELSE <<>>
Flags(n) == Joined([k \in 1..n |-> Flag(msgs[k])])

\* Each KeyUpdate is acted on once, in order, as soon as its last byte is
\* there: the keys change at the same point of the stream whatever the cuts
\* (engine.rs 924-949).
UpdatesInOrder == pc = "idle" => updates = Flags(Ended(pos))

\* The messages the engine takes.
Legal(k) ==
    \/ msgs[k].type = "ticket"
    \/ msgs[k].type = "key_update" /\ msgs[k].len = 1 /\ msgs[k].flag \in {0, 1}

\* The message whose header is staged is the one at fault.
Cause ==
    LET k == MessageOf(stage[1]) IN
    \/ why = "interleaved" /\ pos # Boundary
    \/ why = "unsupported" /\ msgs[k].type = "other"
    \/ why = "malformed" /\ msgs[k].type = "key_update" /\ (~Legal(k) \/ pos < end)

\* What the engine does not accept is exactly what it must refuse: another
\* message, a KeyUpdate of the wrong size or flag or with bytes of the same
\* record behind it, another record inside a message; and what is accepted
\* contains none of these.
RefusedForCause ==
    /\ pc = "failed" => Cause
    /\ pc = "idle" =>
         /\ pos = end
         /\ \A k \in 1..Len(msgs) :
              /\ StartOf(k) + HDR <= pos => msgs[k].type \in {"ticket", "key_update"}
              /\ StartOf(k) + Size(msgs[k]) <= pos => Legal(k)
===============================================================================
