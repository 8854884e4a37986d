# TLA+ verification of krabitls

krabitls is a `no_std` client for TLS 1.3 and DTLS 1.3. This directory models
the library from the bytes of a certificate to the blocking driver, checks it
with TLC on small instances and proves some of the results with TLAPS for every
instance. Every definition is a translation of the Rust source; `PROJECT.json`
names the lines behind each one.

## 1. The system and its parts

| Part | Source (under `src/krabitls/src`) | State | Operations |
|---|---|---|---|
| TLS engine | `client/engine.rs`, `client/scratch.rs` | `RecvState` cursors over one receive array, `EngineState`, pending send, post-handshake staging, `closed` | `step_handshake`, `step`, `recv_buffer`/`advance`, `read_app`, `write_app`, `mark_sent`, `mark_terminal`, `close` |
| Stream driver | `client/stream.rs` | the running call | `connect`, `read`, `try_read`, `write_all`, `close`, `Drop` |
| Typestate connection | `connection.rs`, `aead.rs`, `hkdf.rs` | traffic keys, record numbers, transcript | hellos, flight, Finished, key updates, record seal and open |
| TLS flights | `reassembler.rs`, `server_flight.rs`, `client_flight.rs` | the accumulated flight | scan for the Finished, parse, verify, build the client flight |
| Trust | `traits/verify_strategy.rs`, `identity.rs`, `backends/pinned_roots.rs`, `backends/pin_or_self_signed.rs` | none (pure) | chain walk, anchor match, validity, host name |
| Certificates | `backends/tlv.rs`, `backends/tlv_cert.rs`, `backends/der_cert.rs` | none (pure) | two parsers, one of which a build selects |
| Hello messages | `lib.rs`, `client/params.rs`, `dtls/handshake.rs`, `dtls/framing.rs` | none (pure) | size and write the ClientHello, parse the ServerHello |
| DTLS handshake | `dtls/client.rs` (`connect`) | attempts, budgets, transcript, reassembler, ACK bitmap | the whole handshake in one call |
| DTLS reassembly | `dtls/reassembly.rs` | slots, ranges, arena | `push`, `flight_complete`, `serialize_flight` |
| DTLS records | `dtls/record.rs`, `dtls/ack.rs` | none (pure) | seal, open, number reconstruction, ACK |
| DTLS data phase | `dtls/client.rs` (`send`, `recv`), `dtls/replay.rs` | send number, hint, replay window, stash, resend budget | `send`, `recv` |
| Cryptographic backends, CLI, footprint harness, fixtures | `backends/`, other crates | none of the protocol | arithmetic, I/O, data |

How they interact: the driver asks the engine for its next event (`Send`,
`Recv`, `AppData`, `HandshakeDone`, `Closed`) and does the I/O; the engine
frames records in place in the receive array, opens them with the keys of the
connection and queues at most one record to send. The DTLS client has no
engine: `connect` and `recv` call the datagram transport themselves, and what
they need of a datagram that holds several records is kept in a stash.

What makes the code hard to test: one array holds unframed bytes and parked
plaintext at the same time; a key update arrives while a record is waiting to
be sent; a write fails in the middle of a record; messages are cut between any
two bytes; a verdict is the first failure of a few dozen ordered checks;
datagrams are lost, repeated, reordered, damaged and coalesced; a 64-bit record
number is rebuilt from 8 or 16 bits; fixed buffers must hold the largest flight,
hello and ACK; the resend of the client Finished depends on what the server
repeats. `PROJECT.json` lists these hazards with the line at which each one
bites and the properties that would catch it.

## 2. The modules

| Module | Models | Run |
|---|---|---|
| `RecvBuffer` | `compact_recv`, `frame_one_record`, `recv_buffer`, `advance`, `read_app`. A byte of the array is its position in the peer's stream. | `recv_buffer`, `recv_buffer_client_auth` |
| `TlsSession` | engine, driver, keys, transport and server at the level of whole records. A record opens only under the key generation and number it was sealed with. | `tls_session`, `tls_session_faults` |
| `SecureChannel` | what a session promises: two streams in order, the end reported after the data | (abstract, implemented by `TlsSession`) |
| `PostHandshake` | `feed_post_handshake`: bytes of NewSessionTicket and KeyUpdate messages over records | `post_handshake` |
| `TlsHandshake` | the handshake of the TLS client from `connect` to the application keys, composed of the operator modules below, and its server | `tls_handshake` |
| `Hello` | sizes and fields of the ClientHello, parse and checks of the ServerHello, key shares | `tls_handshake`, `dtls_flight` |
| `ServerFlight` | the flight reassembler, the messages of the flight, CertificateRequest, CertificateVerify, Finished and the order of the checks | `tls_handshake` |
| `ClientFlight` | the second flight, the client-auth policies and signers, the sizes promised to be enough, fragmentation | `tls_handshake` |
| `KeySchedule`, `Records` | secrets as terms over labels and transcripts; inner plaintext, limits, nonces | `tls_handshake`, `dtls_flight` |
| `Asn1`, `TlvCert`, `DerCert` | the DER walker and the two certificate parsers | `tls_handshake` |
| `TrustChain`, `Identity` | `PinnedRoots`, `PinOrSelfSigned`, CA constraints, validity; the host-name match | `tls_handshake` |
| `CertWorld`, `HandshakeWorld` | no code: certificates, chains and scenarios, and what they mean | `tls_handshake` |
| `Wire` | the reader and ordered checks that the operator modules share | |
| `DtlsHandshake` | `connect` of the DTLS client, an honest server, the network | `dtls_handshake`, `dtls_late_retry` |
| `DtlsReassembly` | the fragment reassembler over an arena whose bytes are traced to the flight | `dtls_flight` |
| `DtlsRecord`, `DtlsHello` | DTLS headers, connection ids, masked numbers, ACK bodies, epoch keys; DTLS hellos | `dtls_flight` |
| `DtlsFlight` | `connect` with its sizes: hellos, records and limits around the reassembler | `dtls_flight` |
| `DtlsDataPhase` | `send` and `recv`, server, network | `dtls_data_phase`, `dtls_finished_recovery`, `dtls_ack_before_finished` |
| `ReplayWindow`, `RecordNumbers` | `dtls/replay.rs` and the record numbers of `dtls/record.rs` as operators | used by the DTLS modules |
| `AtMostOnceDelivery` | a datagram service that delivers nothing twice and nothing that was not sent | (abstract, implemented by `DtlsDataPhase`) |
| `Joining` | no code: concatenation of a sequence of sequences, and the last member of one | used by `RecvBuffer`, `TlsSession`, `PostHandshake` |
| `Joining_proofs` | theorems about sequences, concatenation and induction | |
| `RecvBuffer_proofs`, `TlsSessionKeys_proofs` and `TlsSession_proofs`, `PostHandshake_proofs`, `DtlsHandshake_proofs`, `DtlsReassembly_proofs`, `DtlsDataPhase_proofs` | theorems about the component of that name | |
| `MC_*` | constants for TLC; `MC_TlsHandshake` also the declarative reading its properties compare with | |

The seams between modules: `RecvBuffer` shows that the framer hands over the
records of the stream, whole and in order; `TlsSession` and `TlsHandshake`
start from that and take the next record of the stream. `TlsHandshake` looks
into the handshake messages and leaves the driver out; `TlsSession` has the
driver, the faults and the calls, and takes the flight as one record that is
right or wrong. `PostHandshake` shows that cutting messages over records does
not matter beyond the tokens that `TlsSession` carries (first and second half
of a message). `DtlsHandshake` has the network and whole messages in records;
`DtlsFlight` has the bytes, sizes and fragments of the same call and a network
that only chooses the datagrams. The verdict on a flight in DTLS is the code
that `TlsHandshake` models. `DtlsDataPhase` starts where `DtlsHandshake` ends.

A definition whose name is followed by `Mutant of` in its comment is a
deliberately wrong variant of the definition after it. Replacing the definition
by it must make the property break; the pairs are in `PROJECT.json`.

### How state and actions correspond to the code

- One action is one handler, or one iteration of a loop up to the next call of
  the transport. Early returns are guards; error paths are actions or branches.
- `TlsSession`: `state` is `EngineState`, `pend` the records in `send_record`
  between `pending` and `mark_sent`, `fin_unsent` is
  `handshake_finished_pending_ack`, `hs_done` the `HandshakeDone` still due,
  `parked` the plaintext between `plain_start` and `plain_end`, `ph` the
  post-handshake staging, `call` the method of `TlsStream` that runs.
- `TlsHandshake`: `pc` is the engine state, `conn` the typestate connection
  (transcript, secrets, keys), `buf` the reassembler, `out` the client flight
  as it leaves, `srv` how much of the flight was sent, `scn` everything the
  caller, the build and the server bring.
- A function of the code with a `Result` becomes a sequence of
  `<<condition, error>>` pairs in the order of the code; the verdict is the
  first pair that fails (`Verdict` of `Wire`).
- `DtlsDataPhase`: one call of `recv` runs from `RecvCall` to its return;
  `dg` is the rest of the datagram, `at_head` is `pos = 0`.
- `DtlsHandshake`: `pc` is the place in `connect` that waits for the transport.
- Cryptography is symbolic: a record opens under the key and number it was
  sealed with; a transcript is the sequence of cells hashed; a signature is
  good when it is among those that were made. In TLS messages a cell stands for
  a field (a length, a type, a scheme, a certificate), so that every length
  still counts what it encloses; the ClientHello, the client flight and all of
  DTLS are counted in real bytes. Certificates are DER bytes in which an object
  identifier has one byte and a key a few.

## 3. What the runs show

Passing runs:

- `recv_buffer` (RECV = 7 bytes, header 2, tag 1, up to four records of every
  kind, every split into reads and drains): a `Recv` event always finds room
  (`RecvHasRoom`), the array holds the stream from the next record on
  (`BufferHoldsStream`), the caller receives the content in order
  (`DeliveredInOrder`), and a record within the advertised limit is never
  refused (`LegalNeverRefused`). Seven bytes hold a full record behind parked
  plaintext with a partial header after it, which is the case that needs
  compaction.
- `tls_session` (three control records, four calls): nothing queued is
  overwritten (`NothingOverwritten`), the peers stay in step across key updates
  (`InSync`), a server that keeps to the protocol is never refused
  (`HonestNeverRefused`), and between calls nothing is pending
  (`IdleIsFlushed`).
- `tls_session_faults` (one failing write or read, one record that breaks the
  protocol, a final flight of one or two records): nothing follows a torn
  record (`TornIsLast`), `connect` succeeds only after the Finished is on the
  wire (`ConnectedMeansFinished`), the session implements `SecureChannel`
  (`ImplementsChannel`), and every call returns (`CallsReturn`).
- `post_handshake` (every stream of up to three messages out of seven, every
  cut): what is carried from record to record is exactly the cut
  (`CarriesExactly`), key changes happen in order (`UpdatesInOrder`), a refusal
  has a cause in the stream (`RefusedForCause`).
- `tls_handshake`: some 16 000 scenarios, each the honest one with something
  changed. The families: a flight with a CertificateRequest cut at every place
  and padded; one cell of four ServerHellos, and one cell of a flight, set to
  small values; every order of up to five messages; bytes behind the Finished,
  up to and past the capacity of the reassembler; keys, schemes and a server
  that did not sign or MAC; record types, padding and the smallest buffers; a
  Scratch used twice; chains of up to five certificates against eight ledgers
  of anchors, two clocks and both settings of `enforce`; one pinned or
  self-signed certificate; eleven names against every SAN; certificates with
  one byte changed or one part missing; client authentication with every signer
  at the largest sizes, contexts of 0 and 255 bytes and limits around 64 and
  16385; parameters of the ClientHello over 15 feature sets. Shown: `connect`
  succeeds exactly on what a grammar of the messages and the meaning of the
  certificates accept (`AcceptsExactly`), chains and names are judged as a
  search over paths and a comparison of labels judge them
  (`ChainJudgedRight`, `HostJudgedRight`), the two parsers read the same
  from what both accept and the truth from what is well-formed
  (`ParsersAgree`), both sides end with the same secrets and the second flight
  opens on the server (`KeysAgree`), the buffers that construction accepts
  hold it at every legal limit (`ClientFlightFits`), and the ClientHello has
  the length computed for it (`HelloAsSized`).
  Bounds: `FLIGHT` = 330 cells, the capacity of the reassembler (the flights
  with a request context of 255 cells fit, the longest of the trailing bytes do
  not), `MAX_CHAIN` = 4 entries in a Certificate and `CAP` = 3 certificates in a
  chain, both below the longest chain of the scenarios, `MaxCcs` = 1
  change_cipher_spec. A handshake ends, so deadlock is not checked.
- `dtls_handshake` (two attempts, six datagrams, three sendings of the flight
  in two layouts, with and without a cookie): both sides hash the same hellos
  (`HellosAgree`), the Finished has the number and transcript the server expects
  (`FinishedAcceptable`), the ACK lists exactly the records taken (`AckExact`),
  nothing but timeouts, transport errors and trust ends the handshake behind
  the ServerHello (`FlightNotAborted`), and `connect` returns
  (`ConnectReturns`).
- `dtls_flight` (messages of 1, 5 and 2 bytes, two ranges per slot, an arena of
  exactly their size; up to three datagrams out of twelve: coalesced, without
  lengths, with one-byte numbers, padded to the limit, cut by the receive
  buffer, repeated with a hello in front, damaged; 128 records in order with
  the longest connection id; ids of 0, 20 and 21 bytes, cookies of 256 and 257,
  limits 63, 64 and 1500): bytes stay where they were put (`ArenaHolds`),
  completeness and the serialized transcript do not depend on the order of
  arrival or on repeats (`CompleteWhenAll`, `SerializedInOrder`), every buffer
  of the handshake is large enough (`HandshakeFits`), what is fed is what the
  records of a datagram hold up to the first that cannot be walked past
  (`FlightFed`), and a record within the advertised limit is always taken
  (`ConformingTaken`).
- `dtls_data_phase` (a window of 3, steps of 8, nine records, gaps of 0, 2 and
  5): at-most-once delivery (`AtMostOnce`, `ImplementsService`), an exact window
  after any shift (`WindowExact`), coalesced records not hidden
  (`CoalescedNotHidden`).
- `dtls_finished_recovery`: a lost Finished is resent when the server repeats
  its flight, and the server completes (`FinishedRecovered`).

Runs in which TLC finds a disagreement between the code and its own comments:

- `recv_buffer_client_auth`: with client authentication the final flight is
  assembled in `recv_record`, which the comment calls idle; bytes the server
  sent behind its Finished are overwritten.
- `dtls_late_retry`: a second copy of the HelloRetryRequest, which a repeated
  CH1 draws, ends the handshake with an error that blames the server.
- `dtls_ack_before_finished`: when the Finished is lost and the ACK is not, the
  server stops repeating its flight and the Finished is never resent.

### Observations without a run

Met while translating, each visible in the model:

- `MIN_RECV` (`client/scratch.rs:69`) is the ServerHello with an empty session
  id and an X25519 share, 95 bytes. With `middlebox_compat` the echoed id adds
  32, a secp256r1 share 33; at `RECV = MIN_RECV` such a hello is refused as too
  large (`ServerHelloBytes`).
- `client/params.rs:171` says a request without the signer's scheme is
  declined; the handshake ends with `NoMutualSignatureAlgorithm`.
- `PinnedRoots` counts a self-signed root that the server transmits and that is
  stored as a whole certificate as an intermediate of itself
  (`backends/pinned_roots.rs:310`), so its path length must allow for one.
- `backends/pin_or_self_signed.rs:5` says both of its strategies reject a chain
  longer than one; the pinned one looks at the leaf only.
- The `der` parser looks at the tag behind `cA` in basicConstraints and calls
  an unknown one malformed; the `tlv` parser does not look. `ParsersAgree` is
  therefore about what both accept.
- `dtls/ack.rs:57` speaks of the 64 lowest numbers; the bitmap has 128.
- The ACK is not held against the peer's record_size_limit
  (`dtls/client.rs:537`), which `dtls/client.rs:590` rules out for sends;
  `HandshakeFits` leaves the ACK out of that clause.
- After a failed `close` a second one returns `Ok` without writing, because
  `mark_terminal` dropped the pending record (`client/stream.rs:336`).
- `read` returns `Ok(0)` after a local close and after a fatal error too, not
  only for the peer's close_notify (`client/stream.rs:231`).
- `recv` with a buffer that is too small loses the record and the rest of its
  datagram (`dtls/client.rs:701`).
- A failed send of the ACK fails `connect` although the Finished is out
  (`dtls/client.rs:551`).
- The attempts for the ServerHello are counted apart from the resends for the
  flight, so the last ClientHello can be sent `2 * MAX_FLIGHT_ATTEMPTS - 1`
  times although the constant is documented as the total (`dtls/client.rs:385`).
- With `HelloFirst = {TRUE}` in `DtlsFinishedRecovery.cfg` a repeated flight
  that starts with the ServerHello is not recognised by `recv`; with
  `HalfRtt = TRUE` epoch-3 data sent before the server has the Finished ends
  the resends.

### Fairness

`TlsSession`: the methods of the stream are loops that run while they can, the
server answers and the transport ends some day (a blocking read of a silent
peer waits for ever, and the code does not claim otherwise). `DtlsDataPhase`
(recovery run only): the application keeps calling `recv`, the server repeats
its flight while it waits, and the network delivers some repeats and some copy
of the Finished. `DtlsHandshake`: `connect` takes steps; `transport.recv` always
returns, with a datagram or `Ok(None)`, as the trait demands. The other modules
state safety only and no fairness.

## 4. What is proved

Each theorem holds for every value of the constants that satisfies the named
assumption of its module, so for any number of records, calls, messages,
datagrams and retransmissions, where a run has a handful. Of the 39 properties
the passing runs check, 26 are proved; `PROJECT.json` pairs each theorem with its
property. The parts of the session's invariant were checked with TLC on
the instances of its two runs before they were proved.

### The receive buffer (`RecvBuffer_proofs`)

For every buffer size, header, tag and limit, under `AuthFlightLen = 0`: with
client authentication the properties do not hold, as
`recv_buffer_client_auth` shows. `TypeCorrect`, `CursorsStayOrdered`,
`RecvAlwaysHasRoom`, `FramingStaysInSync`, `LegalAlwaysTaken`,
`DeliveryInOrder`. None is inductive alone. The invariant `IInv` adds
`StreamLaidOut`, which says that the records tile the stream and that the framer
stands at the start of the next one; with it the length field found in the
buffer is the length of that record, and every cursor move is by a whole
record. `DeliveryInOrder` then adds that what was read followed by what is
parked is the content of the records dispatched.

### The session (`TlsSessionKeys_proofs`, `TlsSession_proofs`)

For every bound on calls, faults, control records and generations, and every
length of the final flight. The invariant `SInv` has six parts, none of which
survives a step without another:

- `Types`.
- `Lifecycle` ties the engine's state to the call that runs, to what is pending
  and to whether the Finished is on the wire.
- `SendChain`: reading the wire from the server's place on and then the pending
  records, each is sealed with the generation and number that the one before it
  leaves, and the client's own counters continue the chain.
- `RecvChain`: the same for the records under way to the client, with the place
  inside a message that `ph` holds.
- `UpFlow` and `DownFlow` account for each item of application data: read,
  parked, under way, or lost to a failure that closed the engine.

From it: `StaysInSync`, `HonestServerServed`, `FinishedBeforeConnected`,
`FlushedWhenIdle`; the action properties `QueuedNeverLost` and `TornStaysLast`;
and `SessionIsChannel`, the refinement of `SecureChannel`, in which the first
halves of `UpFlow` and `DownFlow` give the abstract steps. The first module has
the invariant and its first four parts, the second the data and the theorems.

### Post-handshake messages (`PostHandshake_proofs`)

For every set of message sequences, header length and record length:
`CarriesPosition`, `UpdatesStayInOrder`, `RefusalsHaveCause`. The invariant
`PInv` says that some message is reached: all before it are legal and their
key updates were acted on, and `stage` and `skip_remaining` are what the
position inside it makes them.

### The DTLS handshake (`DtlsHandshake_proofs`)

For every layout of the flight whose records are numbered apart from 0 on
(`LayoutAssumption`), every bound on attempts, datagrams and acknowledged
records: `TranscriptsAgree`, `FinishedUsable`, `AckStaysExact`,
`AcceptedNotAborted`. The invariant `HInv` follows which replies can exist at
each place of `connect` (a ServerHello that answers the second ClientHello only
after it was sent), that the server numbers its records apart, and that each
message collected came in a sealed record which is acknowledged unless its
number is too large for the bitmap.

### DTLS reassembly (`DtlsReassembly_proofs`)

For every arena and every capacity. Under any fragments whatever, also
inconsistent and refused ones: a byte that arrived stays where the region of its
message says (`BytesStay`), and a message counts as complete exactly when each
of its bytes is there (`RangesExact`). For every flight whose messages are
numbered without a gap, none empty, the Finished last (`FlightAssumption`): the
flight is complete exactly when all of its bytes have arrived, with strays among
the fragments (`CompleteWhenArrived`), and its transcript is the flight as it was
sent (`TranscriptInOrder`).

The invariant `Good` is the layout of the arena (`Laid`: slots one behind the
other, inside the used part, one per message), its content (`Kept`) and the
ranges (`Exact`: sorted, apart, and covering exactly what arrived). The last one
rests on `RangeAdded`: the walk of `add_range` leaves sorted ranges that cover
what they covered before and the new one, nothing else. It is an induction over
the walk in which `Walked` says what has been emitted, what has been absorbed and
that all that is still to come lies behind it. `Strict` adds that each slot is
one of the flight; then as many complete slots lie below a message as messages
precede it (`BelowCount`), which puts each at its place in the transcript.
`TranscriptInOrder` is about fragments of the flight only: in an arena with room
to spare, a stray message of its own would be serialized with the rest.

### The DTLS data phase (`DtlsDataPhase_proofs`)

For every window width, on-wire width, budget and network behaviour:
`TypeCorrect`, `DeliveredAtMostOnce`, `WindowStaysExact`,
`CoalescedNeverHidden`, and `Refinement`, the data phase implements
`AtMostOnceDelivery`. The inductive step rests on two lemmas about the window,
`MarkRefuses` (a marked number is refused) and `RefusalPermanent` (a refusal
survives every later shift), so the invariant says that the window refuses
whatever was delivered, and that every epoch-3 record in the network, in a stash
or under way is one the server sealed. `WindowKept` is the exact content of the
bitmap after any shift. `NothingHidden` follows each record of a datagram that
was read.
`RebuiltExactly`: a number less than half a step away from the expected one is
rebuilt exactly, also at the two ends of the 64-bit range. `NearAlwaysOpens`
joins it with the window: a record the window may still let through, and less
than half a step ahead, always opens.

### What the proofs found

- `HsFailure` of `TlsSession` was a `CASE` whose guards overlap, so that the
  error was not determined; it is now in the order of the code.
- `RefusedForCause` was imprecise for a message without a body of a type the
  engine does not support, which TLC's streams did not have; they have one now.
- `DtlsReassembly` left the shape of the flight and its base without a word;
  `ReassemblyAssumption` and `FlightAssumption` now say that the base is not
  zero, the ServerHello being before it, and what a flight is.

### Method

Induction over data is done by least counterexample: `Joining_proofs` derives
`Induction`, over a set of naturals, from `WFMin` of the library. With it a
recursive function has its defining equation (`JoinedDef`, `OffExists` of
`PostHandshake_proofs`, `WalkExists` of `DtlsReassembly_proofs`), and
concatenation distributes (`JoinedConcat`).

### Only model-checked

- Liveness, which is out of the prover's reach: `CallsReturn`,
  `FinishedRecovered`, `ConnectReturns`.
- The seven properties of `tls_handshake`, and `HandshakeFits`, `FlightFed` and
  `ConformingTaken` of `dtls_flight`. They compare the code's readers and sizes
  with grammars and tables over scenarios that are enumerated, so what they say
  is about those scenarios.
- `SerializedInOrder` with strays among the fragments. It is not true of every
  arena; the run has one in which it is.

## 5. What is not modelled

- The cryptographic primitives and the constant-time and zeroizing code around
  them: third-party arithmetic without protocol state. What the library relies
  on (a record opens only under its key, a signature verifies only over its
  text) is how `Records`, `KeySchedule` and `ServerFlight` are built.
- The calendar: an instant of a certificate is a small number, so the
  conversion of a date is a table. The order of the checks on it is modelled.
- ML-DSA-87, which differs from the two modelled ML-DSA sets in a length and an
  identifier. The update of a traffic secret is a generation number of
  `TlsSession`.
- Time: a timeout may happen whenever the code waits for one.
- The command-line clients, the footprint harness, the backend probe and the
  fixtures, which hold no protocol state.

## 6. Plan

Proofs: the composition of `push` over the records of a datagram, so that the
theorems about the reassembler hold inside `DtlsFlight`; the bound on the
client's second flight (`ClientFlightFits`) for every size and every legal limit.
