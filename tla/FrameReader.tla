---------------------------- MODULE FrameReader ----------------------------
(***************************************************************************)
(* The frame parser of the report: HTTP2FrameReader (solvetls/http2/       *)
(* frames.py), as HTTP2Session._receive uses it (forensic, padding not     *)
(* checked), one reader per complete frame.  A frame is its header and the *)
(* numbers its parser reads from the payload; the other payload bytes are  *)
(* only counted.                                                           *)
(***************************************************************************)
EXTENDS Integers

CONSTANTS
  MaxLength,   \* bound on the length of a payload
  MaxEntries,  \* MAX_CAPTURE_ENTRIES
  MaxFrames    \* MAX_CAPTURE_FRAMES

ASSUME LimitsAssumption == {MaxLength, MaxEntries, MaxFrames} \subseteq Nat

VARIABLES
  result,   \* "idle", "reading", "read", "faulty", or the end: "failed"
  frame,    \* the frame being parsed
  pos,      \* bytes of its payload that were read
  kept,     \* length of the data or header block that was taken from it
  code,     \* the error of a faulty frame, or of the failed session
  entries,  \* entries_read
  total,    \* _capture_entries
  origins,  \* history: the origins recorded for the frame
  frames    \* len(capture.frames)

budget == <<total, frames>>
vars == <<result, frame, pos, kept, code, entries, origins, budget>>

Lengths == 0 .. MaxLength
Extensions == {"ALTSVC", "ORIGIN"}
PaddedTypes == {"DATA", "HEADERS", "PUSH_PROMISE"}

NoFrame == [type |-> "none", length |-> 0]

\* stream: the stream identifier is not 0.  pad: the pad length field, if the
\* frame has one.  value: the number it carries (a promised or prioritized
\* stream, an increment, the length of an origin).
Unpadded == -1
Padding == Lengths \cup {Unpadded}

Frames ==
  [type : {"DATA"}, length : Lengths, stream : BOOLEAN, pad : Padding]
    \cup [type : {"HEADERS"}, length : Lengths, stream : BOOLEAN, pad : Padding,
          priority : BOOLEAN]
    \cup [type : {"PUSH_PROMISE"}, length : Lengths, stream : BOOLEAN,
          pad : Padding, value : 0 .. 1]
    \cup [type : {"PRIORITY", "RST_STREAM", "PING", "GOAWAY", "CONTINUATION",
                  "ORIGIN", "UNKNOWN"},
          length : Lengths, stream : BOOLEAN]
    \cup [type : {"WINDOW_UPDATE", "PRIORITY_UPDATE"}, length : Lengths,
          stream : BOOLEAN, value : 0 .. 1]
    \cup [type : {"ALTSVC"}, length : Lengths, stream : BOOLEAN,
          value : Lengths]
    \* bad: the error of its first invalid value
    \cup [type : {"SETTINGS"}, length : Lengths, stream : BOOLEAN,
          ack : BOOLEAN,
          bad : {"NO_ERROR", "PROTOCOL_ERROR", "FLOW_CONTROL_ERROR"}]

Init ==
  /\ result = "idle" /\ frame = NoFrame
  /\ pos = 0 /\ kept = 0 /\ code = "NO_ERROR"
  /\ entries = 0 /\ total = 0 /\ origins = 0 /\ frames = 0

-----------------------------------------------------------------------------
(* The parsers of the frame types *)

\* The error of the first check that applies; <<FALSE, e>> does not.
First(checks) ==
  LET hits == {i \in DOMAIN checks : checks[i][1]}
  IN IF hits = {} THEN "NO_ERROR"
     ELSE checks[CHOOSE i \in hits : \A j \in hits : i <= j][2]

Padded(f) == f.pad # Unpadded
PadField(f) == IF Padded(f) THEN 1 ELSE 0
PadLength(f) == IF Padded(f) THEN f.pad ELSE 0

\* Bytes between the pad length field and the header block.
Prefix(f) ==
  CASE f.type = "HEADERS" -> IF f.priority THEN 5 ELSE 0
    [] f.type = "PUSH_PROMISE" -> 4
    [] f.type = "DATA" -> 0

Overhead(f) == PadField(f) + Prefix(f) + PadLength(f)

PaddedFault_OffByOne(f) ==
  First(<< <<~f.stream, "PROTOCOL_ERROR">>,
           <<PadField(f) > f.length, "FRAME_SIZE_ERROR">>,
           <<Padded(f) /\ f.pad + 1 >= f.length, "PROTOCOL_ERROR">>,
           <<PadField(f) + Prefix(f) > f.length, "FRAME_SIZE_ERROR">>,
           <<f.type = "PUSH_PROMISE" /\ f.value = 0, "PROTOCOL_ERROR">>,
           <<Overhead(f) > f.length, "PROTOCOL_ERROR">> >>)

\* _parse_data, _parse_headers and _parse_push_promise: a missing pad length
\* or prefix field is too short a frame, padding that does not fit an error.
PaddedFault(f) ==
  First(<< <<~f.stream, "PROTOCOL_ERROR">>,
           <<PadField(f) > f.length, "FRAME_SIZE_ERROR">>,
           <<Padded(f) /\ f.pad >= f.length, "PROTOCOL_ERROR">>,
           <<PadField(f) + Prefix(f) > f.length, "FRAME_SIZE_ERROR">>,
           <<f.type = "PUSH_PROMISE" /\ f.value = 0, "PROTOCOL_ERROR">>,
           <<Overhead(f) > f.length, "PROTOCOL_ERROR">> >>)

PriorityFault(f) ==
  First(<< <<f.length # 5, "FRAME_SIZE_ERROR">>,
           <<~f.stream, "PROTOCOL_ERROR">> >>)

RstStreamFault(f) ==
  First(<< <<f.length # 4, "FRAME_SIZE_ERROR">>,
           <<~f.stream, "PROTOCOL_ERROR">> >>)

PingFault(f) ==
  First(<< <<f.stream, "PROTOCOL_ERROR">>,
           <<f.length # 8, "FRAME_SIZE_ERROR">> >>)

GoawayFault(f) ==
  First(<< <<f.stream, "PROTOCOL_ERROR">>,
           <<f.length < 8, "FRAME_SIZE_ERROR">> >>)

WindowUpdateFault(f) ==
  First(<< <<f.length # 4, "FRAME_SIZE_ERROR">>,
           <<f.value = 0, "PROTOCOL_ERROR">> >>)

ContinuationFault(f) == First(<< <<~f.stream, "PROTOCOL_ERROR">> >>)

AltsvcFault(f) ==
  First(<< <<f.length < 2, "PROTOCOL_ERROR">>,
           <<f.value + 2 > f.length, "PROTOCOL_ERROR">> >>)

PriorityUpdateFault(f) ==
  First(<< <<f.stream, "PROTOCOL_ERROR">>,
           <<f.length < 4, "FRAME_SIZE_ERROR">>,
           <<f.value = 0, "PROTOCOL_ERROR">> >>)

\* SETTINGS before its entries are reserved.
SettingsFault(f) ==
  First(<< <<f.stream, "PROTOCOL_ERROR">>,
           <<f.ack /\ f.length # 0, "FRAME_SIZE_ERROR">>,
           <<f.length % 6 # 0, "FRAME_SIZE_ERROR">> >>)

Fault(f) ==
  CASE f.type \in PaddedTypes -> PaddedFault(f)
    [] f.type = "PRIORITY" -> PriorityFault(f)
    [] f.type = "RST_STREAM" -> RstStreamFault(f)
    [] f.type = "PING" -> PingFault(f)
    [] f.type = "GOAWAY" -> GoawayFault(f)
    [] f.type = "WINDOW_UPDATE" -> WindowUpdateFault(f)
    [] f.type = "CONTINUATION" -> ContinuationFault(f)
    [] f.type = "ALTSVC" -> AltsvcFault(f)
    [] f.type = "PRIORITY_UPDATE" -> PriorityUpdateFault(f)
    [] f.type = "SETTINGS" -> SettingsFault(f)
    [] f.type = "UNKNOWN" -> "NO_ERROR"

\* The data or header block of a padded frame.
BlockLength(f) == f.length - Overhead(f)

\* What a parser that returns has read: fields of a fixed size, and with GOAWAY
\* and the types not named here the rest of the payload.
BytesRead(f) ==
  CASE f.type \in PaddedTypes -> Overhead(f) + BlockLength(f)
    [] f.type = "PRIORITY" -> 5
    [] f.type \in {"RST_STREAM", "WINDOW_UPDATE"} -> 4
    [] f.type = "PING" -> 8
    [] f.type = "GOAWAY" -> IF f.length > 8 THEN f.length ELSE 8
    [] OTHER -> f.length

-----------------------------------------------------------------------------
(* parse_frame *)

\* A complete frame is taken from the buffer and its header is read.
Receive(f) ==
  /\ result = "idle"
  /\ result' = "reading" /\ frame' = f
  /\ pos' = 0 /\ kept' = 0 /\ code' = "NO_ERROR" /\ entries' = 0
  /\ origins' = 0
  /\ UNCHANGED budget

Faulty(c) == result' = "faulty" /\ code' = c

ReserveEntries_Each(n) == n <= MaxEntries

\* _reserve_entries: max_entries is what earlier frames have left.
ReserveEntries(n) == entries + n <= MaxEntries - total

\* Any frame but ORIGIN: the payload is read, or a check fails.
ParsePayload ==
  /\ result = "reading" /\ frame.type \notin {"ORIGIN", "SETTINGS"}
  /\ \/ /\ Fault(frame) = "NO_ERROR"
        /\ result' = "read"
        /\ kept' = IF frame.type \in PaddedTypes THEN BlockLength(frame) ELSE 0
        /\ pos' = BytesRead(frame)
        /\ UNCHANGED code
     \/ /\ Fault(frame) # "NO_ERROR"
        /\ Faulty(Fault(frame))
        /\ UNCHANGED <<pos, kept>>
  /\ UNCHANGED <<frame, entries, origins, budget>>

\* The entries are reserved before they are read and checked.
ParseSettings ==
  /\ result = "reading" /\ frame.type = "SETTINGS"
  /\ LET n == frame.length \div 6
         fault == First(<< <<Fault(frame) # "NO_ERROR", Fault(frame)>>,
                           <<~ReserveEntries(n), "ENHANCE_YOUR_CALM">>,
                           <<n > 0, frame.bad>> >>)
     IN /\ entries' = IF Fault(frame) = "NO_ERROR" /\ ReserveEntries(n)
                        THEN entries + n ELSE entries
        /\ \/ /\ fault = "NO_ERROR" /\ result' = "read"
              /\ pos' = 6 * n /\ UNCHANGED code
           \/ fault # "NO_ERROR" /\ Faulty(fault) /\ UNCHANGED pos
  /\ UNCHANGED <<frame, kept, origins, budget>>

\* One turn of the loop of _parse_origin, whose origin has n bytes.
ParseOrigin(n) ==
  /\ result = "reading" /\ frame.type = "ORIGIN"
  /\ ~frame.stream /\ pos < frame.length /\ pos + 2 <= frame.length
  /\ \/ /\ pos + 2 + n <= frame.length /\ ReserveEntries(1)
        /\ pos' = pos + 2 + n
        /\ entries' = entries + 1 /\ origins' = origins + 1
        /\ UNCHANGED <<result, code>>
     \/ /\ pos + 2 + n > frame.length /\ Faulty("PROTOCOL_ERROR")
        /\ UNCHANGED <<pos, entries, origins>>
     \/ /\ pos + 2 + n <= frame.length /\ ~ReserveEntries(1)
        /\ Faulty("ENHANCE_YOUR_CALM")
        /\ UNCHANGED <<pos, entries, origins>>
  /\ UNCHANGED <<frame, kept, budget>>

\* The loop ends, or finds half a length field or a stream identifier.
OriginEnds ==
  /\ result = "reading" /\ frame.type = "ORIGIN"
  /\ \/ ~frame.stream /\ pos >= frame.length /\ result' = "read"
        /\ UNCHANGED code
     \/ /\ frame.stream \/ (pos < frame.length /\ pos + 2 > frame.length)
        /\ Faulty("PROTOCOL_ERROR")
  /\ UNCHANGED <<frame, pos, kept, entries, origins, budget>>

-----------------------------------------------------------------------------
(* _receive, with the frame that was read *)

Fail(c) ==
  /\ result' = "failed" /\ code' = c
  /\ UNCHANGED <<frame, pos, kept, entries, origins, frames>>

Raised_SkipsExtensions ==
  result = "faulty" /\ code = "ENHANCE_YOUR_CALM" /\ frame.type \notin Extensions

\* An exhausted budget is the only error that leaves parse_frame.
Raised == result = "faulty" /\ code = "ENHANCE_YOUR_CALM"

EntriesExceeded == Raised /\ Fail(code) /\ UNCHANGED total

\* The entries of a malformed frame count as well.
FramesExceeded ==
  /\ result \in {"read", "faulty"} /\ ~Raised
  /\ frames >= MaxFrames
  /\ total' = total + entries
  /\ Fail("ENHANCE_YOUR_CALM")

\* _process_frame ignores ALTSVC and ORIGIN and fails on a parse error.
Ignored == frame.type \in Extensions

Rejected ==
  /\ result = "faulty" /\ ~Raised /\ frames < MaxFrames /\ ~Ignored
  /\ result' = "failed"
  /\ total' = total + entries
  /\ frames' = frames + 1
  /\ pos' = frame.length
  /\ UNCHANGED <<frame, kept, code, entries, origins>>

Recorded ==
  /\ frames < MaxFrames /\ ~Raised
  /\ \/ result = "read"
     \/ result = "faulty" /\ Ignored
  /\ result' = "idle" /\ frame' = NoFrame
  /\ pos' = 0 /\ kept' = 0 /\ code' = "NO_ERROR"
  /\ entries' = 0 /\ origins' = 0
  /\ total' = total + entries
  /\ frames' = frames + 1

Next ==
  \/ \E f \in Frames : Receive(f)
  \/ ParsePayload \/ ParseSettings \/ OriginEnds
  \/ \E n \in Lengths : ParseOrigin(n)
  \/ EntriesExceeded \/ FramesExceeded \/ Rejected \/ Recorded

Spec == Init /\ [][Next]_vars

-----------------------------------------------------------------------------
(* Properties *)

TypeOK ==
  /\ result \in {"idle", "reading", "read", "faulty", "failed"}
  /\ frame \in Frames \cup {NoFrame}
  /\ pos \in Lengths /\ kept \in Lengths
  /\ code \in {"NO_ERROR", "PROTOCOL_ERROR", "FRAME_SIZE_ERROR",
               "FLOW_CONTROL_ERROR", "ENHANCE_YOUR_CALM"}
  /\ {entries, total, origins} \subseteq 0 .. MaxEntries
  /\ frames \in 0 .. MaxFrames

\* The layouts RFC 9113 allows a padded frame: a pad length field, a priority
\* or a promised stream, a block of n bytes and the padding fill its payload.
Layout(f, n) ==
  f.length = (IF Padded(f) THEN 1 + f.pad ELSE 0)
             + (CASE f.type = "DATA" -> 0
                  [] f.type = "HEADERS" -> IF f.priority THEN 5 ELSE 0
                  [] f.type = "PUSH_PROMISE" -> 4)
             + n

\* DATA, HEADERS and PUSH_PROMISE are read exactly when such a layout exists,
\* and the block that the parser takes is the one of that layout: no boundary
\* of padding, priority and length is off by one.  A parser that returns, of
\* whatever frame, has read its payload to the last byte: the checks of its
\* length fit the fields it reads, so the check of parse_frame for left-over
\* bytes never fails.
PaddingExact ==
  /\ result = "read" => pos = frame.length
  /\ frame.type \in PaddedTypes /\ result \in {"read", "faulty"} =>
       LET allowed == {n \in Lengths : Layout(frame, n)}
           named   == frame.stream /\ (frame.type = "PUSH_PROMISE" => frame.value # 0)
       IN IF result = "read" THEN named /\ allowed = {kept}
                             ELSE ~named \/ allowed = {}

\* All frames together never yield more entries than MAX_CAPTURE_ENTRIES, with
\* the entries of malformed frames and of a frame that is being read.
EntriesWithinBudget ==
  /\ TypeOK
  /\ origins <= entries
  /\ result # "failed" => total + entries <= MaxEntries

\* A malformed ALTSVC or ORIGIN never fails the session; only the budgets do.
ExtensionsSkipped ==
  result = "failed" /\ frame.type \in Extensions => code = "ENHANCE_YOUR_CALM"

\* A malformed ALTSVC or ORIGIN is skipped whole, but the same clause of
\* parse_frame lets an exhausted budget pass: it ends the session whatever frame
\* met it, also an ORIGIN.
ExtensionsIgnored ==
  /\ []ExtensionsSkipped
  /\ [][result = "faulty" /\ code = "ENHANCE_YOUR_CALM" => result' = "failed"]_vars

\* The inductive invariant behind them: a parser that reads on has found no
\* error, stays within the payload, and only that of ORIGIN stops in between.
ReaderInv ==
  /\ PaddingExact /\ EntriesWithinBudget /\ ExtensionsSkipped
  /\ result = "idle" => entries = 0 /\ origins = 0
  /\ result \in {"reading", "read", "faulty"} => frame \in Frames
  /\ result = "reading" => code = "NO_ERROR" /\ pos <= frame.length
=============================================================================
