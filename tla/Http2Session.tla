---------------------------- MODULE Http2Session ----------------------------
(***************************************************************************)
(* One HTTP/2 connection: HTTP2Session (solvetls/http2/session.py) over    *)
(* the h2 library, driven by ClientConnection.handle_http, send_response   *)
(* and close.  The peer chooses every frame and how the frames are grouped *)
(* into reads; an await may be interrupted by a timeout, a lost connection *)
(* or a cancellation.  A session serves one request and refuses the other  *)
(* streams.                                                                *)
(*                                                                         *)
(* The streams, header blocks and flow control windows h2 keeps are        *)
(* modelled from the way the session uses them.  Lengths are counted in    *)
(* small units, and a header block is reduced to what the session looks    *)
(* for in it.                                                              *)
(***************************************************************************)
EXTENDS Integers, Sequences, FiniteSets

CONSTANTS
  Streams,        \* stream identifiers the peer uses
  MaxFrames,      \* MAX_CAPTURE_FRAMES
  MaxBlock,       \* MAX_HEADER_LIST_SIZE, in header frames
  MaxBody,        \* MAX_REQUEST_BODY
  MaxConcurrent,  \* our MAX_CONCURRENT_STREAMS
  MaxWindow,      \* the largest flow control window
  DefaultWindow,  \* a flow control window before any SETTINGS
  MaxOutFrame,    \* the peer's MAX_FRAME_SIZE
  MaxContent      \* bound on the length of a response

ASSUME StreamsAssumption == Streams \subseteq Nat \ {0} /\ IsFiniteSet(Streams)
ASSUME LimitsAssumption ==
  /\ {MaxFrames, MaxBlock, MaxBody, MaxConcurrent, MaxWindow, MaxContent}
       \subseteq Nat
  /\ MaxOutFrame \in Nat \ {0}
  /\ DefaultWindow \in 0 .. MaxWindow

VARIABLES
  pc,          \* where the handler is
  caller,      \* who awaits _receive: "request" or "response"
  code,        \* http2_error_code the handler will close with
  failed,      \* history: a write of a GOAWAY was interrupted
  first,       \* _first_frame
  cont,        \* _continuation_stream
  block,       \* _header_block_bytes
  frames,      \* len(capture.frames)
  prio,        \* _prioritized_idle_streams
  captured,    \* capture.stream_id
  expected,    \* _expected_length
  bytes,       \* _request_bytes
  ready,       \* _request_ready
  early,       \* the request became ready before its end
  cancelled,   \* _cancelled
  closed,      \* _closed
  stream,      \* h2: "idle", "open", "half" (closed by the peer), "reset"
  ending,      \* h2: END_STREAM of the header block being assembled
  highest,     \* h2: highest_inbound_stream_id
  initial,     \* h2: the peer's INITIAL_WINDOW_SIZE
  window,      \* h2: send window of the captured stream
  connWindow,  \* h2: send window of the connection
  content,     \* length of the response, None before it is begun
  sent,        \* response bytes sent
  goaways,     \* GOAWAY frames sent
  refused,     \* streams refused
  continued    \* a 100 response was sent

handlerVars == <<pc, caller, code>>
parserVars  == <<first, cont, block, frames, ending>>
requestVars == <<captured, expected, bytes, ready, early>>
h2Vars      == <<stream, highest, initial, window, connWindow>>
answerVars  == <<content, sent>>
closeVars   == <<closed, goaways, failed>>
unframed    == <<prio, requestVars, cancelled, h2Vars, answerVars, refused,
                 continued>>
sessionVars == <<parserVars, unframed>>
vars        == <<handlerVars, closeVars, sessionVars>>

None == -1
NoStream == 0

\* What the session looks for in a header block.
Fields ==
  [kind : {"plain", "continue", "unmet"},
   length : {None} \cup 0 .. MaxBody + 1]
    \cup [kind : {"invalid", "undecodable", "oversized", "connect"},
          length : {None}]

\* A block is known by the fragment that ends it.
NoFields == [kind |-> "plain", length |-> None]

Blocks ==
  [type : {"HEADERS"}, stream : Streams, endStream : BOOLEAN,
   endHeaders : {TRUE}, fields : Fields]
    \cup [type : {"HEADERS"}, stream : Streams, endStream : BOOLEAN,
          endHeaders : {FALSE}, fields : {NoFields}]
    \cup [type : {"CONTINUATION"}, stream : Streams, endHeaders : {TRUE},
          fields : Fields]
    \cup [type : {"CONTINUATION"}, stream : Streams, endHeaders : {FALSE},
          fields : {NoFields}]

OtherFrames ==
  [type : {"DATA"}, stream : Streams, length : 0 .. MaxBody + 1,
   endStream : BOOLEAN]
    \cup [type : {"SETTINGS"}, window : 0 .. MaxWindow]
    \cup [type : {"WINDOW_UPDATE"}, stream : Streams \cup {NoStream},
          increment : 1 .. MaxWindow]
    \cup [type : {"RST_STREAM", "PRIORITY_UPDATE"}, stream : Streams]
    \cup [type : {"GOAWAY"}, error : BOOLEAN]
    \* ADVISORY: PRIORITY, ALTSVC, ORIGIN, PING and acknowledgements;
    \* ENTRIES: a frame beyond MAX_CAPTURE_ENTRIES (see FrameReader)
    \cup [type : {"ADVISORY", "PUSH_PROMISE", "OVERSIZED", "ENTRIES"}]
    \cup [type : {"MALFORMED"}, frame : {"SETTINGS", "HEADERS", "other"},
          error : {"PROTOCOL_ERROR", "FRAME_SIZE_ERROR", "FLOW_CONTROL_ERROR"}]

Init ==
  /\ pc = "preface" /\ caller = "request" /\ code = "NO_ERROR"
  /\ first = TRUE /\ cont = NoStream /\ block = 0 /\ frames = 0
  /\ ending = FALSE
  /\ prio = {}
  /\ captured = NoStream /\ expected = None /\ bytes = 0
  /\ ready = FALSE /\ early = FALSE
  /\ cancelled = FALSE
  /\ stream = [s \in Streams |-> "idle"] /\ highest = 0
  /\ initial = DefaultWindow /\ window = 0 /\ connWindow = DefaultWindow
  /\ content = None /\ sent = 0
  /\ closed = FALSE /\ goaways = << >> /\ failed = FALSE
  /\ refused = {} /\ continued = FALSE

-----------------------------------------------------------------------------
(* Leaving the session *)

Goaway(c, last) == [code |-> c, last |-> last]

\* An exception: the handler goes on with ClientConnection.close(c).
Raise(c) == pc' = "closing" /\ code' = c /\ UNCHANGED caller

\* await transport.write(GOAWAY) returns, or is interrupted with the bytes in
\* the transport's buffer or not.  Then the handler closes with NO_ERROR.
WriteGoaway(g) ==
  \/ goaways' = Append(goaways, g) /\ Raise(g.code) /\ UNCHANGED failed
  \/ /\ goaways' \in {goaways, Append(goaways, g)}
     /\ Raise("NO_ERROR")
     /\ failed' = TRUE

Fail_LastStreamZero(c, last) ==
  closed' = TRUE /\ WriteGoaway(Goaway(c, 0))

Fail_NotClosed(c, last) ==
  UNCHANGED closed /\ WriteGoaway(Goaway(c, last))

\* _fail: close() marks the session closed before it writes.
Fail(c, last) ==
  closed' = TRUE /\ WriteGoaway(Goaway(c, last))

\* h2 has queued a GOAWAY and raised: the session writes it, then marks itself
\* closed.
H2Fails(c) ==
  /\ WriteGoaway(Goaway(c, highest))
  /\ IF failed' THEN UNCHANGED closed ELSE closed' = TRUE
  /\ UNCHANGED sessionVars

\* _fail in the middle of a frame: what the frame has changed so far is not
\* looked at again, since only close() follows.
FailNow(c) ==
  /\ Fail(c, captured)
  /\ UNCHANGED sessionVars

Interrupt_NoDeadline ==
  /\ pc \in {"preface", "respond"}
  /\ Raise("NO_ERROR")
  /\ UNCHANGED <<closeVars, sessionVars>>

\* A timeout, a lost connection or a cancellation interrupts an await.
Interrupt ==
  /\ pc \in {"preface", "read", "chunk", "respond"}
  /\ Raise("NO_ERROR")
  /\ UNCHANGED <<closeVars, sessionVars>>

\* ClientConnection.close calls close(), which may be interrupted as well.
Close ==
  /\ pc = "closing"
  /\ pc' = "done"
  /\ closed' = TRUE
  /\ LET g == Goaway(code, captured) IN
       \/ closed /\ UNCHANGED <<goaways, failed>>
       \/ ~closed /\ goaways' = Append(goaways, g) /\ UNCHANGED failed
       \/ /\ ~closed /\ failed' = TRUE
          /\ goaways' \in {goaways, Append(goaways, g)}
  /\ UNCHANGED <<caller, code, sessionVars>>

-----------------------------------------------------------------------------
(* Reading *)

Goto(from, to) == pc = from /\ pc' = to /\ UNCHANGED <<caller, code>>

\* initialize(): SETTINGS are flushed, then the peer's preface is checked.
Preface ==
  /\ Goto("preface", "chunk")
  /\ UNCHANGED <<closeVars, sessionVars>>

PrefaceInvalid == pc = "preface" /\ FailNow("PROTOCOL_ERROR")

\* transport.read() returns bytes that hold any number of whole frames.
Read ==
  /\ Goto("read", "chunk")
  /\ UNCHANGED <<closeVars, sessionVars>>

\* MAX_CAPTURE_BYTES is exceeded.
ReadTooMuch == pc = "read" /\ FailNow("ENHANCE_YOUR_CALM")

CheckCancelled_ClosedOnly == ~closed

\* _check_cancelled() does not raise.
CheckCancelled == ~cancelled /\ ~closed

\* _receive returns to receive_request, which reads on until the request is
\* ready, or to the loop of send_response.
ChunkEnds ==
  /\ pc = "chunk"
  /\ \/ CheckCancelled /\ caller = "request" /\ ~ready /\ Goto("chunk", "read")
     \/ CheckCancelled /\ caller = "request" /\ ready /\ Goto("chunk", "ready")
     \/ CheckCancelled /\ caller = "response" /\ Goto("chunk", "respond")
     \/ ~CheckCancelled /\ Raise("NO_ERROR")
  /\ UNCHANGED <<closeVars, sessionVars>>

-----------------------------------------------------------------------------
(* The checks of _receive and _process_frame before h2 sees a frame *)

Odd(s) == s % 2 = 1
BlockFrame(f) == f.type \in {"HEADERS", "CONTINUATION"}
Malformed(f, type) == f.type = "MALFORMED" /\ f.frame = type

\* The first frame is SETTINGS, and a header block is not interrupted.
OutOfPlace(f) ==
  \/ first /\ ~(f.type = "SETTINGS" \/ Malformed(f, "SETTINGS"))
  \/ cont # NoStream /\ ~(f.type = "CONTINUATION" /\ f.stream = cont)

Forbidden(f) ==
  \/ f.type = "PUSH_PROMISE"
  \/ f.type = "RST_STREAM" /\ (~Odd(f.stream) \/ f.stream > highest)
  \/ f.type = "PRIORITY_UPDATE" /\ ~Odd(f.stream)

BlockTooLong(f) == (BlockFrame(f) \/ Malformed(f, "HEADERS")) /\ block + 1 > MaxBlock

\* The error the session itself fails with, in the order of its checks.
Fault(f) ==
  IF f.type = "OVERSIZED" THEN "FRAME_SIZE_ERROR"
  ELSE IF f.type = "ENTRIES" THEN "ENHANCE_YOUR_CALM"
  ELSE IF frames >= MaxFrames THEN "ENHANCE_YOUR_CALM"
  ELSE IF OutOfPlace(f) THEN "PROTOCOL_ERROR"
  ELSE IF BlockTooLong(f) THEN "ENHANCE_YOUR_CALM"
  ELSE IF f.type = "MALFORMED" THEN f.error
  ELSE IF Forbidden(f) THEN "PROTOCOL_ERROR"
  ELSE "NO_ERROR"

FrameRejected(f) ==
  /\ pc = "chunk" /\ Fault(f) # "NO_ERROR"
  /\ FailNow(Fault(f))

\* A frame that passes them, and the bookkeeping it leaves behind.
Passes(f) ==
  /\ pc = "chunk" /\ Fault(f) = "NO_ERROR"

Recorded ==
  /\ first' = FALSE
  /\ frames' = frames + 1
  /\ UNCHANGED <<cont, block, ending>>

\* The frame is done with, and _receive takes the next one of the chunk.
Accepted == Recorded /\ UNCHANGED <<handlerVars, closeVars>>

-----------------------------------------------------------------------------
(* Frames that are not part of a request *)

Advisory(f) ==
  /\ f.type = "ADVISORY" /\ Passes(f)
  /\ Accepted
  /\ UNCHANGED unframed

\* The streams h2 counts as open, once st is their state.
OpenStreams(st) == {s \in Streams : st[s] \in {"open", "half"}}
Open(s) == s \in OpenStreams(stream)

\* apply_settings: h2 moves the open stream's window by the difference.
Settings(f) ==
  /\ f.type = "SETTINGS" /\ Passes(f)
  /\ LET moved == IF Open(captured) THEN window + f.window - initial
                                   ELSE window
     IN \/ /\ moved <= MaxWindow
           /\ Accepted
           /\ initial' = f.window
           /\ window' = moved
           /\ UNCHANGED <<prio, requestVars, cancelled, stream, highest,
                          connWindow, answerVars, refused, continued>>
        \/ moved > MaxWindow /\ H2Fails("FLOW_CONTROL_ERROR")

\* MAX_HEADER_TABLE_SIZE_CHANGES is exceeded: apply_settings queues the GOAWAY.
SettingsRefused(f) ==
  /\ f.type = "SETTINGS" /\ Passes(f)
  /\ H2Fails("ENHANCE_YOUR_CALM")

\* A client GOAWAY cancels the request unless it is graceful.
PeerGoaway(f) ==
  /\ f.type = "GOAWAY" /\ Passes(f)
  /\ Accepted
  /\ cancelled' = (cancelled \/ f.error)
  /\ UNCHANGED <<prio, requestVars, h2Vars, answerVars, refused, continued>>

PriorityExceeded(targets, st) ==
  Cardinality(targets) + Cardinality(OpenStreams(st)) > MaxConcurrent

PriorityUpdate(f) ==
  /\ f.type = "PRIORITY_UPDATE" /\ Passes(f)
  /\ LET targets == IF f.stream > highest THEN prio \cup {f.stream} ELSE prio
         checked == f.stream > highest \/ Open(f.stream)
     IN \/ /\ checked /\ PriorityExceeded(targets, stream)
           /\ FailNow("PROTOCOL_ERROR")
        \/ /\ ~(checked /\ PriorityExceeded(targets, stream))
           /\ Accepted
           /\ prio' = targets
           /\ UNCHANGED <<requestVars, cancelled, h2Vars, answerVars, refused,
                          continued>>

-----------------------------------------------------------------------------
(* Frames on streams, as h2 handles them *)

\* A lower identifier of the client that was skipped is closed, although it never
\* was open; the others that were not opened are idle.
NeverOpened(s) == stream[s] = "idle"
Skipped(s) == NeverOpened(s) /\ Odd(s) /\ s < highest
Idle(s) == NeverOpened(s) /\ ~Skipped(s)

\* The stream ends, by the peer or by h2, with a StreamReset event.
StreamReset(f) ==
  /\ Accepted
  /\ stream' = [stream EXCEPT ![f.stream] = "reset"]
  /\ cancelled' = (cancelled \/ f.stream = captured)
  /\ UNCHANGED <<prio, requestVars, highest, initial, window, connWindow,
                 answerVars, refused, continued>>

Unaffected(f) ==
  /\ Accepted
  /\ UNCHANGED unframed

RstStream(f) ==
  /\ f.type = "RST_STREAM" /\ Passes(f)
  /\ \/ Open(f.stream) /\ StreamReset(f)
     \/ ~Open(f.stream) /\ Unaffected(f)

\* A window that would grow too large ends its stream, or the connection.
WindowUpdate(f) ==
  /\ f.type = "WINDOW_UPDATE" /\ Passes(f)
  /\ \/ /\ f.stream = NoStream /\ connWindow + f.increment <= MaxWindow
        /\ Accepted
        /\ connWindow' = connWindow + f.increment
        /\ UNCHANGED <<prio, requestVars, cancelled, stream, highest, initial,
                       window, answerVars, refused, continued>>
     \/ /\ f.stream = NoStream /\ connWindow + f.increment > MaxWindow
        /\ H2Fails("FLOW_CONTROL_ERROR")
     \/ /\ Open(f.stream) /\ window + f.increment <= MaxWindow
        /\ Accepted
        /\ window' = window + f.increment
        /\ UNCHANGED <<prio, requestVars, cancelled, stream, highest, initial,
                       connWindow, answerVars, refused, continued>>
     \/ /\ Open(f.stream) /\ window + f.increment > MaxWindow
        /\ StreamReset(f)
     \/ /\ f.stream # NoStream
        /\ stream[f.stream] = "reset" \/ Skipped(f.stream)
        /\ Unaffected(f)
     \/ /\ f.stream # NoStream /\ Idle(f.stream)
        /\ H2Fails("PROTOCOL_ERROR")

LengthMatches_Unchecked(n) == TRUE

\* The check on a StreamEnded event, when n request bytes have arrived.
LengthMatches(n) == expected \in {None, n}

\* h2's own check of DATA, which implies that of the session.
BodyFits(f) ==
  expected = None \/ IF f.endStream THEN bytes + f.length = expected
                                    ELSE bytes + f.length <= expected

\* Our own windows are not tracked: any DATA may be more than they allow.
DataOverrun(f) ==
  /\ f.type = "DATA" /\ Passes(f)
  /\ H2Fails("FLOW_CONTROL_ERROR")

\* To DATA on a stream that is closed, h2 answers with RST_STREAM.
Data(f) ==
  /\ f.type = "DATA" /\ Passes(f)
  /\ \/ Idle(f.stream) /\ H2Fails("PROTOCOL_ERROR")
     \/ (stream[f.stream] = "reset" \/ Skipped(f.stream)) /\ Unaffected(f)
     \/ stream[f.stream] = "half" /\ StreamReset(f)
     \/ stream[f.stream] = "open" /\ ~BodyFits(f) /\ H2Fails("PROTOCOL_ERROR")
     \/ /\ stream[f.stream] = "open" /\ BodyFits(f)
        /\ bytes + f.length > MaxBody
        /\ FailNow("ENHANCE_YOUR_CALM")
     \/ /\ stream[f.stream] = "open" /\ BodyFits(f)
        /\ bytes + f.length <= MaxBody
        /\ Accepted
        /\ bytes' = bytes + f.length
        /\ ready' = (ready \/ f.endStream)
        /\ stream' = [stream EXCEPT ![f.stream] =
                        IF f.endStream THEN "half" ELSE "open"]
        /\ UNCHANGED <<prio, captured, expected, early, cancelled, highest,
                       initial, window, connWindow, answerVars, refused,
                       continued>>

-----------------------------------------------------------------------------
(* Header blocks *)

EndStream(f) == IF f.type = "HEADERS" THEN f.endStream ELSE ending

\* A fragment without END_HEADERS: h2 waits for the rest.
Fragment(f) ==
  /\ BlockFrame(f) /\ Passes(f) /\ ~f.endHeaders
  /\ f.type = "HEADERS" \/ cont # NoStream
  /\ first' = FALSE /\ frames' = frames + 1
  /\ cont' = f.stream /\ block' = block + 1 /\ ending' = EndStream(f)
  /\ UNCHANGED <<handlerVars, closeVars, prio, requestVars, cancelled, h2Vars,
                 answerVars, refused, continued>>

\* h2 decodes a complete block for stream s, whose state is st.
Block(f, st) ==
  /\ BlockFrame(f) /\ Passes(f) /\ f.endHeaders
  /\ f.type = "HEADERS" \/ cont # NoStream
  /\ f.fields.kind \notin {"undecodable", "oversized"}
  /\ stream[f.stream] = st

BlockRecorded ==
  /\ first' = FALSE /\ frames' = frames + 1
  /\ cont' = NoStream /\ block' = 0 /\ ending' = FALSE

BlockAccepted == BlockRecorded /\ UNCHANGED <<handlerVars, closeVars>>

\* h2 raises: a stray CONTINUATION, an undecodable block, an identifier that
\* the peer may not open (any more), or trailers that do not end the stream.
BlockError(f) ==
  \/ /\ f.type = "CONTINUATION" /\ Passes(f) /\ cont = NoStream
     /\ H2Fails("PROTOCOL_ERROR")
  \/ /\ BlockFrame(f) /\ Passes(f) /\ f.endHeaders
     /\ f.type = "HEADERS" \/ cont # NoStream
     /\ f.fields.kind \in {"undecodable", "oversized"}
     /\ H2Fails(IF f.fields.kind = "oversized" THEN "ENHANCE_YOUR_CALM"
                                                ELSE "COMPRESSION_ERROR")
  \/ /\ Block(f, "idle") /\ (~Odd(f.stream) \/ f.stream < highest)
     /\ H2Fails("PROTOCOL_ERROR")
  \/ /\ Block(f, "open") /\ ~EndStream(f)
     /\ H2Fails("PROTOCOL_ERROR")

\* A block on a stream that is over for one side.
LateBlock(f) ==
  \/ /\ Block(f, "half")
     /\ BlockAccepted
     /\ stream' = [stream EXCEPT ![f.stream] = "reset"]
     /\ cancelled' = (cancelled \/ f.stream = captured)
     /\ UNCHANGED <<prio, requestVars, highest, initial, window, connWindow,
                    answerVars, refused, continued>>
  \/ /\ Block(f, "reset")
     /\ BlockAccepted
     /\ UNCHANGED unframed

Targets_Kept(s) == prio

\* Opening a stream closes the lower idle ones.
Targets(s) == {p \in prio : p > s}

Opened(f) ==
  [stream EXCEPT ![f.stream] = IF EndStream(f) THEN "half" ELSE "open"]

\* A RequestReceived event.
Request(f) ==
  Block(f, "idle") /\ Odd(f.stream) /\ f.stream > highest

RequestRefused_Captured(f) ==
  /\ Request(f) /\ captured # NoStream
  /\ BlockAccepted
  /\ prio' = Targets(f.stream)
  /\ stream' = Opened(f)
  /\ highest' = f.stream
  /\ captured' = f.stream
  /\ UNCHANGED <<expected, bytes, ready, early, cancelled, initial, window,
                 connWindow, answerVars, refused, continued>>

RequestRefused(f) ==
  /\ Request(f) /\ captured # NoStream
  /\ BlockAccepted
  /\ prio' = Targets(f.stream)
  /\ stream' = [stream EXCEPT ![f.stream] = "reset"]
  /\ highest' = f.stream
  /\ refused' = refused \cup {f.stream}
  /\ UNCHANGED <<requestVars, cancelled, initial, window, connWindow,
                 answerVars, continued>>

\* It is invalid, or one stream too many beside the prioritized ones.
RequestInvalid(f) ==
  /\ Request(f) /\ captured = NoStream
  /\ \/ PriorityExceeded(Targets(f.stream), Opened(f))
     \/ f.fields.kind = "invalid"
  /\ FailNow("PROTOCOL_ERROR")

\* The first request is captured, and its length and its end are checked.
RequestCaptured(f) ==
  /\ Request(f) /\ captured = NoStream
  /\ ~PriorityExceeded(Targets(f.stream), Opened(f))
  /\ f.fields.kind # "invalid"
  /\ BlockRecorded
  /\ prio' = Targets(f.stream)
  /\ stream' = Opened(f)
  /\ highest' = f.stream
  /\ window' = initial
  /\ captured' = f.stream
  /\ expected' = f.fields.length
  /\ LET tooLong == f.fields.length > MaxBody
         wrong   == EndStream(f) /\ f.fields.length \notin {None, 0}
     IN /\ early' = (~tooLong /\ f.fields.kind \in {"unmet", "connect"})
        /\ ready' = (early' \/ (EndStream(f) /\ ~tooLong /\ ~wrong))
        /\ continued' = (/\ ~tooLong /\ ~EndStream(f)
                         /\ f.fields.kind = "continue")
        /\ \/ tooLong /\ Fail("ENHANCE_YOUR_CALM", f.stream)
           \/ ~tooLong /\ wrong /\ Fail("PROTOCOL_ERROR", f.stream)
           \/ ~tooLong /\ ~wrong /\ UNCHANGED <<handlerVars, closeVars>>
  /\ UNCHANGED <<bytes, cancelled, initial, connWindow, answerVars, refused>>

\* A TrailersReceived event; length and pseudo-header fields are not allowed.
Trailers(f) ==
  /\ Block(f, "open") /\ EndStream(f)
  /\ LET valid == /\ f.fields.kind \notin {"invalid", "connect"}
                  /\ f.fields.length = None
     IN \/ ~(valid /\ LengthMatches(bytes)) /\ FailNow("PROTOCOL_ERROR")
        \/ /\ valid /\ LengthMatches(bytes)
           /\ BlockAccepted
           /\ stream' = [stream EXCEPT ![f.stream] = "half"]
           /\ ready' = TRUE
           /\ UNCHANGED <<prio, captured, expected, bytes, early, cancelled,
                          highest, initial, window, connWindow, answerVars,
                          refused, continued>>

-----------------------------------------------------------------------------
(* send_response *)

\* The handler has built a response of n bytes: its headers are sent.
Respond(n) ==
  /\ Goto("ready", "respond")
  /\ content' = n
  /\ UNCHANGED <<parserVars, prio, requestVars, cancelled, h2Vars, sent,
                 closeVars, refused, continued>>

\* The report cannot be built.
RespondFails ==
  /\ pc = "ready"
  /\ Raise("INTERNAL_ERROR")
  /\ UNCHANGED <<closeVars, sessionVars>>

MinOf(S) == CHOOSE n \in S : \A m \in S : n <= m

Available_StreamOnly == MinOf({window, MaxOutFrame})

Available == MinOf({window, connWindow, MaxOutFrame})

Starved == Available <= 0

SendData ==
  /\ pc = "respond" /\ sent < content /\ CheckCancelled /\ ~Starved
  /\ LET n == MinOf({Available, content - sent}) IN
       /\ sent' = sent + n
       /\ window' = window - n
       /\ connWindow' = connWindow - n
  /\ UNCHANGED <<handlerVars, parserVars, prio, requestVars, cancelled, stream,
                 highest, initial, content, closeVars, refused, continued>>

\* Without credit the session reads on, until a WINDOW_UPDATE arrives.
AwaitCredit ==
  /\ pc = "respond" /\ sent < content /\ CheckCancelled /\ Starved
  /\ pc' = "read" /\ caller' = "response"
  /\ UNCHANGED <<code, closeVars, sessionVars>>

\* The response is complete; the handler closes the connection.
Responded ==
  /\ pc = "respond" /\ sent = content
  /\ Raise("NO_ERROR")
  /\ UNCHANGED <<closeVars, sessionVars>>

-----------------------------------------------------------------------------
BlockStep(f) ==
  \/ Fragment(f) \/ BlockError(f) \/ LateBlock(f) \/ Trailers(f)
  \/ RequestRefused(f) \/ RequestInvalid(f) \/ RequestCaptured(f)

OtherStep(f) ==
  \/ Advisory(f) \/ Settings(f) \/ SettingsRefused(f) \/ PeerGoaway(f)
  \/ PriorityUpdate(f) \/ RstStream(f) \/ WindowUpdate(f) \/ DataOverrun(f) \/ Data(f)

Step ==
  \/ Preface \/ PrefaceInvalid \/ Read \/ ReadTooMuch \/ ChunkEnds
  \/ (\E n \in 0 .. MaxContent : Respond(n)) \/ RespondFails
  \/ SendData \/ AwaitCredit \/ Responded
  \/ Interrupt \/ Close

Next ==
  \/ Step
  \/ pc = "chunk" /\ \E f \in Blocks : FrameRejected(f) \/ BlockStep(f)
  \/ pc = "chunk" /\ \E f \in OtherFrames : FrameRejected(f) \/ OtherStep(f)

Spec == Init /\ [][Next]_vars

\* Each await of the handler is under a timeout and its own steps are taken by
\* the event loop; nothing is assumed of the peer's frames.
FairSpec == Spec /\ WF_vars(Interrupt) /\ WF_vars(Step)

-----------------------------------------------------------------------------
(* Properties *)

Codes == {"NO_ERROR", "PROTOCOL_ERROR", "ENHANCE_YOUR_CALM", "INTERNAL_ERROR",
          "FRAME_SIZE_ERROR", "FLOW_CONTROL_ERROR", "COMPRESSION_ERROR"}

TypeOK ==
  /\ pc \in {"preface", "read", "chunk", "ready", "respond", "closing", "done"}
  /\ caller \in {"request", "response"}
  /\ code \in Codes
  /\ failed \in BOOLEAN /\ closed \in BOOLEAN /\ cancelled \in BOOLEAN
  /\ ready \in BOOLEAN /\ early \in BOOLEAN /\ continued \in BOOLEAN
  /\ first \in BOOLEAN /\ ending \in BOOLEAN /\ cont \in Streams \cup {NoStream}
  /\ captured \in Streams \cup {NoStream} /\ highest \in Streams \cup {NoStream}
  /\ block \in 0 .. MaxBlock /\ frames \in 0 .. MaxFrames
  /\ prio \subseteq Streams /\ refused \subseteq Streams
  /\ expected \in {None} \cup 0 .. MaxBody + 1 /\ bytes \in 0 .. MaxBody
  /\ stream \in [Streams -> {"idle", "open", "half", "reset"}]
  /\ initial \in 0 .. MaxWindow
  /\ window \in -MaxContent .. MaxWindow /\ connWindow \in 0 .. MaxWindow
  /\ content \in {None} \cup 0 .. MaxContent /\ sent \in 0 .. MaxContent
  /\ goaways \in Seq([code : Codes, last : Streams \cup {NoStream}])

\* What close() promises: "Send at most one GOAWAY; never replace a protocol
\* failure with NO_ERROR" (http2/session.py).
AtMostOneGoaway == Len(goaways) <= 1

\* As long as no write of a GOAWAY is interrupted, a session that is over has
\* sent exactly one, with the error the handler ended with, whether h2, the
\* session or the handler detected it.
FailureAnnounced ==
  ~failed =>
    /\ Len(goaways) <= 1
    /\ pc = "done" => Len(goaways) = 1 /\ goaways[1].code = code

\* Every GOAWAY covers the captured request: a client that retries the streams
\* above last_stream_id never repeats the request that may have been served.
GoawayCoversRequest ==
  captured # NoStream => \A i \in DOMAIN goaways : goaways[i].last >= captured

\* A request is answered as complete only if its body has the length it
\* declared, however DATA, trailers and END_STREAM were combined; only a failed
\* expectation and CONNECT are answered early.
CompleteRequest ==
  ready /\ ~early =>
    expected \in {None, bytes} /\ stream[captured] \in {"half", "reset"}

\* The idle streams counted against MAX_CONCURRENT_STREAMS are really idle, and
\* together with the open ones they stay within it.
PrioritiesBounded ==
  /\ TypeOK
  /\ pc \notin {"closing", "done"} =>
       /\ \A s \in prio : s > highest
       /\ ~PriorityExceeded(prio, stream)

\* The captured request is never replaced by a later stream, which is refused
\* instead.
CaptureFixed ==
  [][captured # NoStream =>
       UNCHANGED <<captured, expected, early, continued>>]_vars

\* No response byte is sent beyond the credit of the stream and of the
\* connection, also after SETTINGS made a window negative.
WithinCredit ==
  [][sent' # sent => window' >= 0 /\ connWindow' >= 0]_vars

\* Once the session has processed a reset of its request or a failing GOAWAY of
\* the peer, or has sent a GOAWAY itself, no part of a response is sent.
NothingAfterCancel ==
  [][cancelled \/ goaways # << >> => UNCHANGED answerVars]_vars

\* Every session comes to an end, with or without credit.
SessionEnds == <>(pc = "done")

-----------------------------------------------------------------------------
(* The inductive invariant behind these properties *)

Live == pc \notin {"closing", "done"}

\* A session that goes on has sent no GOAWAY.  One that is closed has announced
\* the error it is closed with, unless a write was interrupted.
CloseInv ==
  /\ Live => ~closed /\ ~failed /\ goaways = << >>
  /\ ~failed /\ ~closed => goaways = << >>
  /\ ~failed /\ closed => Len(goaways) = 1 /\ goaways[1].code = code
  /\ pc = "done" => closed

\* Only the captured stream is ever open, and none is beyond the highest.
StreamInv ==
  /\ captured <= highest
  /\ captured # NoStream => stream[captured] # "idle"
  /\ \A s \in Streams :
       /\ stream[s] # "idle" => s <= highest
       /\ Open(s) => s = captured

\* Before a request is captured, there is nothing of it.
RequestInv ==
  /\ captured = NoStream => ~ready /\ bytes = 0
  /\ CompleteRequest

\* While the session goes on, the prioritized streams are idle.
PriorityInv == Live => \A s \in prio : s > highest

\* A response is begun after the last check for a cancellation, once.
AnswerInv ==
  /\ pc = "ready" => ~cancelled /\ caller = "request"
  /\ pc \in {"preface", "read", "chunk", "ready"} /\ caller = "request" => content = None
  /\ pc = "respond" \/ caller = "response" => content # None
  /\ IF content = None THEN sent = 0 ELSE sent <= content

\* What was sent is all that an open stream's window is below its initial size.
WindowInv == captured # NoStream /\ Open(captured) => window >= initial - sent

SessionInv ==
  /\ TypeOK /\ CloseInv /\ GoawayCoversRequest /\ StreamInv /\ RequestInv
  /\ PriorityInv /\ AnswerInv /\ WindowInv
=============================================================================
