# A verification project for solvetls

solvetls is an asyncio server that records how a client speaks TCP, TLS and
HTTP, answers with a report and stores it. This directory models the parts of it
that keep state and the pure functions that judge or summarise what a client
sent, checks them with TLC on small instances, and proves the properties of the
server core with TLAPS for every value of the constants.

## The system

| Part | Source | State | Operations | What makes it hard |
|---|---|---|---|---|
| Server lifecycle | `server.py` | `_server`, `_http_server`, `_serving`, `_close_task`, `_closing`, `_clients`, `_lifecycle_lock` | `start`, `serve_forever`, `close`, `_shutdown`, `_accept_client`, `_client_done` | callers interleave and are cancelled at any await; rollback under a lock; restarts |
| Client handlers | `server.py` | `_report_clients`, locals of `_serve_client` | `_handle_client`, `_serve_client`, `_send_report` | shared slots held across failures, a response inside an except clause |
| Program, storage | `main.py`, `storage.py` | `_enabled`, `_client` | `main`, `init_storage`, `close_storage`, `save_fingerprint` | signals during cleanup, order of two shutdowns |
| TLS connection | `connection.py` | `_tls_eof`, `_tls_shutdown_sent`, `_tls_fatal_alert_sent`, BIOs, transport | `do_tls_handshake`, `_read_client_hello`, `read`, `write`, `close` | a message split over records; each step of `close` may fail or be cancelled; TLS 1.2 and 1.3 differ |
| HTTP/2 session | `http2/session.py` | captured request, limits, `_cancelled`, `_closed` | one handler per frame, `send_response`, `close` | frames in any order and grouping, flow control, errors found in three layers |
| HTTP/2 settings | `http2/adapter.py` | `_header_table_size_changes`, h2's settings and windows, hpack's table | `apply_settings`, `encode` | duplicates replayed one by one, with awaits between; two HPACK tables kept equal |
| Frame reader | `http2/frames.py` | position, entry budget | one parser per frame type | length arithmetic, malformed frames that must be skipped |
| HTTP redirect | `redirect.py` | buffered head, transport | `handle_redirect` | size limit and timeout race the end of the head |
| Pure functions | `http1.py`, `http_fields.py`, `uri.py`, `http2/validation.py`, `wire/`, `tls/`, `fingerprints.py`, `tcpip/syn.py` | none | parsers, validators, fingerprints | several readers of one input that must agree |
| Report, registries, logging | `report.py`, `tls/enums.py`, `logs.py` | none | formatting, tables | not modelled, see below |

`main` starts one server. The server creates one task per connection, a TLS
handler or a redirect handler. A TLS handler drives a connection, which drives an
HTTP/2 session or the HTTP/1 parser, then closes, then writes to the storage.
The shutdown task aborts and cancels handlers that do not end in time.

asyncio is single threaded, so an action is the code a task runs from one await
to the next. At each await the model lets the call return, raise, time out or be
cancelled, as far as the code tells these apart.

## Modules

| Module | Models | Composes or refines |
|---|---|---|
| `ServerPhases` | what a server promises: down, starting, up, stopping | abstract |
| `ServerLifecycle` | the lifecycle, with every await | implements `ServerPhases` |
| `ServeClient` | the handlers and their report slots | |
| `Service` | `main` and storage | extends `ServerLifecycle`, `main` being its only caller |
| `Connection` | one TLS connection | |
| `Http2Session` | one HTTP/2 session over h2 | |
| `FrameReader` | the frame parser and its budgets | details the frames `Http2Session` calls malformed |
| `Http2Settings` | SETTINGS and header compression | details the step of `Http2Session` that applies SETTINGS |
| `FieldValues` | numbers written with digits, in fields and ports (operators) | |
| `RequestHead` | the HTTP/1 parser (operators) | extends `FieldValues` |
| `Redirect` | one plain HTTP connection | extends `RequestHead` |
| `MCRedirect` | the heads and requests of the `redirect` run | extends `Redirect` |
| `Wire` | `ByteReader` (operators) | |
| `ClientHello` | the ClientHello and its extensions (operators) | extends `Wire` |
| `Fingerprints` | JA3, JA4, Akamai, the ALPN test (operators) | extends `ClientHello` |
| `Syn` | IP and TCP headers of a SYN (operators) | extends `Wire` |
| `HttpLists` | lists of members spread over fields (operators) | |
| `HttpFields` | authorities, HTTP/2 field validation (operators) | extends `FieldValues` |
| `Capture` | inputs of these functions, and how they vary between connections | extends `Fingerprints`, `Syn`, `HttpLists`, `HttpFields` |
| `ServerLifecycleProofs`, `ServiceProofs` | proofs of the lifecycle, and of the program on top of them | extends `ServerLifecycle`, `Service` |
| `ServeClientProofs` | proofs of the handlers | extends `ServeClient` |
| `ConnectionProofs` | proofs of the TLS connection | extends `Connection` |
| `Http2SessionProofs` | proofs of the HTTP/2 session: every frame, whole sessions and the count of streams | extends `Http2Session` |
| `Http2SettingsProofs` | proofs of SETTINGS: the loops over the entries, the two header tables, whole sessions | extends `Http2Settings` |
| `FrameReaderProofs` | proofs of the frame parser | extends `FrameReader` |
| `RequestProofs` | proofs of the plain HTTP connection, of HTTP/2 field validation and of lists | extends `Redirect`, `HttpFields`, `HttpLists` |

Variables carry the source's names where possible; the comment at each
declaration names the attribute. `PROJECT.json` maps each definition to its lines.
Operators whose name has an underscore, such as `Fail_NotClosed`, are faulty
variants used to show that a property can fail; no specification uses them.

### Choices in the models

- **ServerLifecycle.** Each `start` that passes its guard begins an epoch, and
  listeners and shutdown tasks are named by it: object identity becomes equality.
  The listeners a cancelled serving task closes are closed together with
  `task.cancel()`, one tick of the event loop early. `wait_closed` waits for
  connections, as in Python 3.12 and later. A serving task whose listener somebody
  else closed is already in that wait when `serve_forever` cancels it, and ends at
  once (`Waiting`, `unserve_now`).
- **Service.** A SIGTERM during a bind or `init_storage` is the failure of that
  await and is not counted in `signals`. With one caller the lifecycle lock is
  never contended, and an uncontended lock does not suspend.
- **Connection.** A record is its kind and length. The message a client begins with
  has a type, a length and what parsing its body would find; it arrives in records of
  any length. The records of a successful handshake, and those that answer a key
  update or a renegotiation, are left out of `wire`; that flushing them may raise is
  not (`Handshake`, `ReadFlushFails`). The `SSLObject` is external: `unwrap` adds a
  close_notify unless the connection is unusable, and an error leaves at most one
  alert in the BIO. Reading the HTTP/1 head is a sequence of reads without its size
  limit, which `RequestHead` models.
- **Http2Session.** Lengths are counted in small units. A header block is the outcome
  of decoding and of `validate_fields`, plus its content length and expectation.
  Streams, windows and h2's own checks are external, modelled from how the session
  uses them. h2's windows for what the peer sends are not tracked, so that any DATA
  may exceed them (`DataOverrun`). `apply_settings` is one step here. When the session
  fails within a frame, what the frame changed before is not recorded, since only
  `close` follows and does not read it.
- **FrameReader.** The reader is used in one way, forensic and without a padding
  check, and only that is modelled. Payload bytes are counted: what a parser checks of
  the length (`Fault`) and what it then reads (`BytesRead`) are separate definitions, as
  they are separate in the code.
- **Http2Settings.** Sizes are counted in table entries and a header block inserts
  one. The table size in force at first is a constant below the largest, and a window
  may be set to 0. hpack and the peer's decoder are external. Other frames are one
  action, whose answers the session flushes before the next frame. When h2 refuses a
  frame, its partial effects are not recorded, since the session is over.
- **RequestHead, Redirect.** A head is the lengths of its parts, for the size
  limit, and what `parse_request` decides on, for the status; `Says` relates the two. A
  grammar (token, path, IP literal) is valid or invalid. A Content-Length is a sequence
  of digits. `Redirect` takes the set of peers as a constant, heads and requests of any
  size; `MCRedirect` gives the one that TLC enumerates.
- **Wire, ClientHello, Fingerprints, Syn.** Bytes are numbers, and the readers work
  on them as the code does; a read that raises yields `Malformed`. A fingerprint
  is the tuple its text is made of. The text is injective in it.
- **HttpLists, HttpFields.** Lists are read character by character, as the quotes and
  escapes in them require. An authority is a host and the digits of a port, two hosts
  differing only in spelling. `validate_headers` of h2 is external, reduced to the
  checks `validate_fields` relies on.
- **Capture.** Its initial states are inputs, its steps the changes a client makes
  from one connection to the next: GREASE inserted, offers reordered, one more
  frame. The binary inputs come from an encoder, so that a parser is compared with
  what was encoded and not with itself.

## Runs

| Run | Shows | Bounds |
|---|---|---|
| `lifecycle` | `LifecycleInv` (with `ListenersOwned`), `ShutdownExclusive`, `CloseIsComplete`, `ReplacementSafe`, the refinement `PhasesImplemented`, `CallsReturn` | 2 callers, 1 client, limit 1, 3 epochs: before any start and after each of two |
| `serve_client` | `ServeInv` (with `ReportsBounded`, `AnsweredCleanly`), `BusyMeansBusy`, `StoredWasDelivered`, `SlotsReturned` | 2 clients, 1 slot |
| `service` | `ServiceInv`, `StorageClosedLast`, `ProgramEnds` | 3 clients, limit 2, 4 SIGTERMs |
| `service_repeated_sigterm` | a finding, below | 1 client, 2 SIGTERMs |
| `connection` | `ConnectionInv` (with `RecordsInOrder`), `EndsWithNotify`, `JudgedWhole`, `PendingWritesDiscarded`, `CloseReturns` | message header of 2, bodies to 4, records to 3 bytes, 2 data records |
| `http2_request` | `FailureAnnounced`, `GoawayCoversRequest`, `CompleteRequest`, `PrioritiesBounded`, `CaptureFixed` | 3 streams, 5 frames, no response body |
| `http2_response` | `WithinCredit`, `NothingAfterCancel`, `SessionEnds` | 2 streams, 5 frames, 3 bytes, windows up to 2 |
| `http2_goaway_interrupted` | a finding, below | 2 streams, 2 frames |
| `settings` | `TablesAgree`, `WireOrder`, `OneAck` | 2 frames of 3 entries, batches of 2, tables (default 1) and windows from 0 up to 2, 2 header blocks |
| `frame_reader` | `PaddingExact`, `EntriesWithinBudget`, `ExtensionsIgnored` | payloads to 13 bytes, 3 entries, 2 frames recorded |
| `redirect` | `EveryRequestAnswered`, `SplitsDoNotMatter`, `HandlerEnds` | limit 14, version of 2, reads of up to 5 bytes |
| `capture` | `ReadersExact`, `DecodersAgree`, `FingerprintsCanonical`, `ListsCombine`, `FieldsUnambiguous` | 2 changes or 3 frames, payloads to 5 bytes, texts to 3 characters |

What the runs on untrusted input show, in words:

- `SplitsDoNotMatter`: the status of a head (308, 414, 431, 505, ...) is the one the
  whole head would get, however it was split into reads.
- `JudgedWhole`: a ClientHello is judged neither before the bytes its verdict rests
  on have arrived nor later.
- `WireOrder`, `TablesAgree`, `OneAck`: a SETTINGS frame with duplicates acts entry by
  entry, the peer's HPACK table follows the encoder's, and one acknowledgement
  leaves, also with awaits inside the replay.
- `ReadersExact`: what is read of a SYN or a ClientHello, its random and every
  extension's payload included, is what was encoded; a cut-off message is refused.
- `DecodersAgree`: the report decodes an extension to exactly the values its payload
  encodes. The fingerprints, which read extensions separately, take the same lists; of
  a payload the report calls malformed they take the vector in front of trailing bytes,
  if there is one, and of ALPN nothing. The ALPN test refuses a handshake just when the
  report shows protocols and none that is supported.
- `ExtensionsIgnored`: a malformed ALTSVC or ORIGIN never fails the session, and an
  exhausted budget always does, also one met inside an ORIGIN.
- `FieldsUnambiguous`: an accepted header block names one authority and one length,
  although three readers look at different copies of it.

Why these bounds: two callers are one that starts or serves and one that closes or
starts again; the two starts that three epochs admit give an old serving task a
replacement to meet. With its one client the `lifecycle` run hardly tests the limit on
connections, which `LifecycleImplementsPhases` proves for any clients and limit; the
`service` run, with one client more than the limit, reaches the refusal. One more client
than slots reaches the refusal of a report. Five frames are SETTINGS, a split header
block, a body and one more; three streams give a request, one refused
and one that clients may not open. Three SETTINGS entries are a duplicate and one
in between, and exceed one batch. 13 bytes exceed every fixed layout and hold two
SETTINGS entries. Heads and messages run on both sides of their limits, in the
request line and in the fields. Five payload bytes hold a vector of two numbers or
protocols and a trailing byte. These are arguments for small instances, not
proofs; the proofs below have no bounds.

Deadlock is checked in the lifecycle and handler runs. A connection, session,
frame reader, redirect or program may come to its end, and an input needs no
variation, so those runs allow it.

### Fairness

- Ready callbacks run, so a task whose await is over resumes (weak fairness).
  `asyncio.Lock` serves waiters in order: strong fairness for the steps that take
  the lifecycle lock.
- Every await of a handler, of `close` in `connection.py`, of a session and of a
  redirect has a timeout in the code, so these steps are weakly fair. In
  `Http2Session` this is `Interrupt` (`REQUEST_TIMEOUT`, `RESPONSE_TIMEOUT`).
- Nothing is assumed of peers, of callers, of cancellations, or of a handler that
  was not cancelled.

### Findings

Two runs show the code doing other than a docstring says.

- `http2_goaway_interrupted`: `HTTP2Session.close` says "Send at most one GOAWAY;
  never replace a protocol failure with NO_ERROR." When h2 reports an error,
  `_process_frame` writes its GOAWAY before it sets `_closed`. If that write is
  interrupted after the bytes were handed over, `close` sends a second GOAWAY,
  with NO_ERROR. `FailureAnnounced` shows that this needs an interrupted write.
- `service_repeated_sigterm`: `close_storage` says it closes the client "after the
  server has stopped". Two SIGTERMs, of which the first interrupts the rollback of a
  failed `start` and the second `close`, lead `main` to it while the server is still
  stopping. After a successful `start` it takes three: one ends `serve_forever`, one
  interrupts the closing it does at its end, one `close`. One is not enough:
  `StorageClosedLast` holds as long as at most one interrupted `main`, and its
  condition cannot be dropped.

## Proofs

The proofs leave the constants free. Assumed of them, in the modules that declare
them: sets of clients and of streams are finite, streams are positive numbers and
limits natural ones; sizes of a read, a header and an outgoing frame are positive,
as are `MaxEpoch`, the largest window and the number of entries in a batch; the default
table size is at most the largest; the peers of `Redirect` are any heads and requests
that `Says` relates; `Nobody`
is no caller and `main` the only one of `Service`; the default window is a window;
and the smallest request head is below the limit (`MAX_HEAD_SIZE` is 65536). The runs
evaluate these assumptions.

Each component has one inductive invariant. The properties that matter follow from
it but are not inductive alone: what a step may do depends on how far the handler
has come, which its flags record only together with the place it is suspended at.

- **Lifecycle.** `LifecycleInvariant` proves `LifecycleInv`, which contains type
  correctness. The strengthening says who owns the lock (`LockInv`), that all
  references belong to the current epoch (`EpochInv`), that a shutdown runs only as
  the current `_close_task` (`ShutInv`), how far `_start` has come (`BindInv`), what
  locals hold (`LocalInv`), that whatever is served was bound and `serve_forever` closes
  it before its last await (`EntryInv`), and that the snapshot covers every handler
  (`ClientInv`). From it follow `NoListenerLost`, `ShutdownsExcludeStarts`,
  `CloseReturnsClean`, `OldServeHarmless`, and `LifecycleImplementsPhases`: each
  step is a step of `ServerPhases` or a stutter. `OldServeHarmless` is about both ends
  of an old serving task: it closes no replacement, and the entry it leaves in
  `_serving` when its last await is cancelled names a closed listener, so that no later
  `serve_forever` is refused for it.
- **Program.** `ServiceImplementsLifecycle`: every step of `main`, of a SIGTERM and
  of the storage is a lifecycle step or leaves the lifecycle alone, so every theorem
  above holds of the program. `ServiceInvariant` adds `MainInv`, which relates the
  call `main` is in to the server, the database client and the number of signals.
  That number is needed: with one SIGTERM `main` waits for its shutdown task, and
  from `CloseReturnsClean` no handler is left to insert (`StorageIsClosedLast`) and
  the server has stopped before `close_storage` (`OneSigtermStopsServerFirst`). The
  run `service_repeated_sigterm` shows that two refute the latter.
- **Handlers.** `ServeInvariant` proves `ServeInv`: `_report_clients` is exactly
  the set of handlers processing a report, and the locals at each await say what
  the peer was sent. From it follow `AtMostMaxReports`, `NoSlotLeaks`,
  `OnlyDeliveredIsStored` and `AnswersEndCleanly`.
- **Connection.** `ConnectionInv` ties the flags `_tls_shutdown_sent`, `_tls_eof` and
  `_tls_fatal_alert_sent` to the records on the wire (`SentInv`) and says what an
  undisturbed close has done so far (`NotifyInv`). It gives
  `NothingFollowsTheLastRecord`, `UndisturbedEndsWithNotify` and the action property
  `NoDataAfterPeerClose`. `HelloJudgedWhole` is an induction of its own, over the
  bytes received of the first message, for every split into records.
- **HTTP/2 session.** `SessionInvariant` proves `SessionInv`: which GOAWAY a session
  has sent (`CloseInv`), that only the captured stream is open and none lies beyond
  the highest (`StreamInv`), what is known of the request (`RequestInv`), that a
  response begins once and after the last check for a cancellation (`AnswerInv`), and
  how much of the window was used (`WindowInv`). From it follow `OneGoaway`,
  `RequestNeverRetried`, `ReadyIsComplete`, and the action properties
  `RequestIsFixed`, `NeverOverdrawn` and `SilentAfterCancel`.
  `PrioritizedWithinLimit` counts: a stream that is opened leaves the prioritized
  ones, so `PRIORITY_UPDATE` is the only frame that can exceed the limit, and it
  checks.
- **Frame reader.** `ReaderInvariant` proves `ReaderInv` for every frame, without the
  small lengths of the run. `NoBoundaryIsOffByOne` compares the parsers' length
  arithmetic with the layouts of RFC 9113, and the length checks of every parser with
  the fields it reads; `EntriesAreBounded` covers the budget over all frames,
  `ExtensionsAreHarmless` the frames that may be malformed and the budget that may not
  be ignored with them.
- **Redirect.** `RedirectInv` says what was read, decided and sent at each await.
  Behind `OneVerdict` are two lemmas about `check_head_size`: a verdict on a part of a
  head is the verdict on the whole (`VerdictOfWhole`), and a part without one is below
  the limit (`NoVerdict`). Both theorems hold for heads whose parts have any length.
  `AnsweredSoundly` is `EveryRequestAnswered`, for requests with any number of hosts
  and codings and Content-Length fields of any number and length: dropping leading
  zeros keeps the value (`StripKeepsNumber`), by induction over the digits, so that
  fields which `_validate_framing` finds equal without them denote one number.
- **HTTP/2 fields.** `AcceptedFieldsUnambiguous`: `Unambiguous` holds of every header
  block that `validate_fields` accepts, whatever its length and order. That is
  `FieldsUnambiguous` without the bounds of the run. The argument compares the three
  readers: the only field of a name is the one the code looks up (`OnlyOne`), the copy
  that h2 is shown has the names of the fields (`SameNames`), and digits
  without leading zeros that are equal denote one number (`SignificantKeepsNumber`).
- **Lists.** `ListsCombineEverywhere`: `parse_http_list` joins all fields and scans
  them with one state, and still the members of two groups of fields that it accepts
  are those of the first followed by those of the second, for any number of fields of
  any text. Two inductions carry it. Joining is associative around the comma between
  the groups (`JoinedConcat`); and when the scan of a text ends outside quotes, what
  follows its comma is scanned as from the start, behind the members found before
  (`LoopBehind`, `JoinedMembers`). The condition is needed, since a field that ends
  inside a quoted string continues in the next. `MembersAreTidy`: no member is empty
  or begins or ends with a space or tab.
- **SETTINGS.** `SettingsInvariant` proves `SettingsInv`, for frames of any number of
  entries. Its two parts meet in `apply_settings`. `InStep` and `Covered` relate the
  encoder to the peer's decoder: the pending size changes end with the size in force,
  have evicted all but the smallest leaves, and reach down to the smallest size the
  peer has asked for. `Owed` says that the entries a suspended replay has left lead
  from the present settings to what the frame asks for, that those applied overflowed
  no window, and that none assigns a table size already in force, which would clear
  hpack's resized flag. From it follow `SettingsInWireOrder`,
  `SettingsAcknowledgedOnce` and `HeaderTablesAgree`. The lemmas under it are about
  the loops: `WorkingFollows` for the entries kept, `ReplayApplied` for the replay of
  any part of them, `SplitEntries` for where it is interrupted, `ResizedIs` for the
  size updates the peer applies.

Induction over data. The library's induction theorems take the property as an
operator, which the provers cannot instantiate. `SetInduction` takes it as a set
instead and follows from the well-foundedness of the naturals (`WFMin`), a fact
without such a parameter. A loop is a recursive function over `1 .. n + 1`, its
states before each turn and after the last; that one exists (`LoopExists`,
`DenotesExists`, `ScansExists`, `JoinsExists`) is an induction over `n`, and what it
computes another. The domains begin at 1, as those of sequences do: the SMT
translation gives `Len` an axiom that no function over `0 .. n` satisfies.

The inductive invariants hold on the instances of the runs as well; four are
properties of a run (`LifecycleInv`, `ServiceInv`, `ServeInv`, `ConnectionInv`), of
the others the runs check the consequences listed above.

Only model-checked:

- all liveness (`CallsReturn`, `SlotsReturned`, `ProgramEnds`, `CloseReturns`,
  `SessionEnds`, `HandlerEnds`), which is out of the prover's reach;
- the properties of `Capture`, as such. Its inputs are the bounded sets the run
  enumerates, so that a proof about them would say no more than the run. Proved
  instead are the operators in two of them, for every input: `Unambiguous`, and
  `Combine` and `Tidy` of `ListsCombine`; that parsing members, or texts that
  were quoted, gives them back is only checked. The readers of `Wire`, under
  the other three, are recursive operators, since each item of a list says where the
  next begins; the prover cannot reason in a module that declares one.

## Not modelled

- `report.py` formats what was captured into a dictionary, `tls/enums.py` and the
  name lookup of `wire/naming.py` are tables, `logs.py` and `constants.py` I/O and
  values. They decide nothing that a property here could be about.
- The frame builder, the strict mode of the frame reader, which the server does not
  use, and the formatting of responses.
- The socket options that make the kernel save a SYN.
- Regular expressions (tokens, paths, user information), IP literals, percent
  escapes and text encodings: valid or invalid.
- h2, hpack, OpenSSL, MongoDB and asyncio itself are external.
- TLS connection, session and handler are not composed; each is open to
  everything the others may do to it.

## Plan

Composition of handler, connection and session, with an abstract connection.
