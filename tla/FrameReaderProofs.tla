------------------------- MODULE FrameReaderProofs -------------------------
(***************************************************************************)
(* The frame parser, for every length of payload and padding, every number *)
(* of entries and frames.                                                  *)
(***************************************************************************)
EXTENDS FrameReader, TLAPS

Codes == {"NO_ERROR", "PROTOCOL_ERROR", "FRAME_SIZE_ERROR",
          "FLOW_CONTROL_ERROR", "ENHANCE_YOUR_CALM"}

\* The limits are numbers, and so are lengths.
LEMMA Limits ==
  /\ MaxLength \in Nat /\ MaxEntries \in Nat /\ MaxFrames \in Nat
  /\ Lengths = 0 .. MaxLength /\ Lengths \subseteq Nat
  BY LimitsAssumption DEF Lengths

-----------------------------------------------------------------------------
(* The checks of a parser *)

\* Some check that applies comes before the others: no parser has more than six.
LEMMA SomeCheckIsFirst ==
  ASSUME NEW S \in SUBSET (1 .. 6), S # {}
  PROVE  \E i \in S : \A j \in S : i <= j
  <1>1. CASE 1 \in S
    BY <1>1
  <1>2. CASE 1 \notin S /\ 2 \in S
    BY <1>2
  <1>3. CASE 1 \notin S /\ 2 \notin S /\ 3 \in S
    BY <1>3
  <1>4. CASE 1 \notin S /\ 2 \notin S /\ 3 \notin S /\ 4 \in S
    BY <1>4
  <1>5. CASE S \subseteq {5, 6} /\ 5 \in S
    BY <1>5
  <1>7. CASE S = {6}
    BY <1>7
  <1>6. \A i \in S : i \in {1, 2, 3, 4, 5, 6}
    OBVIOUS
  <1> QED
    BY <1>1, <1>2, <1>3, <1>4, <1>5, <1>6, <1>7, ZenonT(30)

\* The error of a parser is that of a check that applies, and none if none does.
LEMMA FirstIsOfACheck ==
  ASSUME NEW checks, DOMAIN checks \subseteq 1 .. 6
  PROVE  \/ /\ \A i \in DOMAIN checks : ~checks[i][1]
            /\ First(checks) = "NO_ERROR"
         \/ \E i \in DOMAIN checks : checks[i][1] /\ First(checks) = checks[i][2]
  <1> DEFINE hits == {i \in DOMAIN checks : checks[i][1]}
             first == CHOOSE i \in hits : \A j \in hits : i <= j
  <1>1. CASE hits = {}
    BY <1>1 DEF First
  <1>2. CASE hits # {}
    <2>1. \E i \in hits : \A j \in hits : i <= j
      BY <1>2, SomeCheckIsFirst
    <2>2. first \in hits
      BY <2>1
    <2>3. First(checks) = checks[first][2]
      BY <1>2 DEF First
    <2> QED
      BY <2>2, <2>3
  <1> QED
    BY <1>1, <1>2

\* What the fields of a frame can be.
LEMMA FrameTypes ==
  ASSUME NEW f \in Frames
  PROVE  /\ f.length \in Lengths
         /\ f.type \in PaddedTypes => f.pad \in Padding
         /\ f.type = "HEADERS" => f.priority \in BOOLEAN
         /\ f.type = "SETTINGS" =>
              f.bad \in {"NO_ERROR", "PROTOCOL_ERROR", "FLOW_CONTROL_ERROR"}
         /\ f.type \in PaddedTypes \cup
              {"PRIORITY", "RST_STREAM", "PING", "GOAWAY", "CONTINUATION", "ORIGIN", "UNKNOWN",
               "WINDOW_UPDATE", "PRIORITY_UPDATE", "ALTSVC", "SETTINGS"}
  BY DEF Frames, PaddedTypes

\* Overhead is a number: the bytes of a padded frame that are not its block.
LEMMA OverheadType ==
  ASSUME NEW f \in Frames, f.type \in PaddedTypes
  PROVE  /\ Prefix(f) \in {0, 4, 5} /\ PadLength(f) \in Nat
         /\ IF Padded(f) THEN f.pad \in Nat /\ PadField(f) = 1 /\ PadLength(f) = f.pad
                         ELSE PadField(f) = 0 /\ PadLength(f) = 0
         /\ Overhead(f) = PadField(f) + Prefix(f) + PadLength(f) /\ Overhead(f) \in Nat
  <1>1. IF Padded(f) THEN f.pad \in Nat /\ PadField(f) = 1 /\ PadLength(f) = f.pad
                     ELSE PadField(f) = 0 /\ PadLength(f) = 0
    BY FrameTypes, Limits DEF Padding, Padded, PadField, PadLength
  <1>2. Prefix(f) \in {0, 4, 5}
    BY FrameTypes DEF Prefix, PaddedTypes
  <1>3. PadLength(f) \in Nat /\ PadField(f) \in Nat
    BY <1>1
  <1> QED
    BY <1>1, <1>2, <1>3 DEF Overhead

\* The checks of the three padded types amount to this: the stream and the
\* promised stream are not 0, and the block has a length that is not negative.
LEMMA PaddedFaultMeans ==
  ASSUME NEW f \in Frames, f.type \in PaddedTypes
  PROVE  /\ PaddedFault(f) \in {"NO_ERROR", "PROTOCOL_ERROR", "FRAME_SIZE_ERROR"}
         /\ PaddedFault(f) = "NO_ERROR" <=>
              /\ f.stream /\ ~(f.type = "PUSH_PROMISE" /\ f.value = 0)
              /\ Overhead(f) <= f.length
  <1> DEFINE c == << <<~f.stream, "PROTOCOL_ERROR">>,
                     <<PadField(f) > f.length, "FRAME_SIZE_ERROR">>,
                     <<Padded(f) /\ f.pad >= f.length, "PROTOCOL_ERROR">>,
                     <<PadField(f) + Prefix(f) > f.length, "FRAME_SIZE_ERROR">>,
                     <<f.type = "PUSH_PROMISE" /\ f.value = 0, "PROTOCOL_ERROR">>,
                     <<Overhead(f) > f.length, "PROTOCOL_ERROR">> >>
  <1>1. DOMAIN c = 1 .. 6 /\ \A i \in 1 .. 6 : c[i][2] \in {"PROTOCOL_ERROR", "FRAME_SIZE_ERROR"}
    OBVIOUS
  <1>2. /\ (c[1][1] <=> ~f.stream) /\ (c[2][1] <=> PadField(f) > f.length)
        /\ (c[3][1] <=> Padded(f) /\ f.pad >= f.length)
        /\ (c[4][1] <=> PadField(f) + Prefix(f) > f.length)
        /\ (c[5][1] <=> f.type = "PUSH_PROMISE" /\ f.value = 0)
        /\ (c[6][1] <=> Overhead(f) > f.length)
    OBVIOUS
  <1>3. PaddedFault(f) = First(c)
    BY DEF PaddedFault
  <1> HIDE DEF c
  <1>4. f.length \in Nat
    BY FrameTypes, Limits
  <1>5. /\ PadField(f) > f.length => Overhead(f) > f.length
        /\ Padded(f) /\ f.pad >= f.length => Overhead(f) > f.length
        /\ PadField(f) + Prefix(f) > f.length => Overhead(f) > f.length
        /\ Overhead(f) > f.length <=> ~(Overhead(f) <= f.length)
    BY <1>4, OverheadType
  <1>6. (\A i \in 1 .. 6 : ~c[i][1]) <=>
          /\ f.stream /\ ~(f.type = "PUSH_PROMISE" /\ f.value = 0)
          /\ Overhead(f) <= f.length
    BY <1>2, <1>5
  <1> QED
    BY <1>1, <1>3, <1>6, FirstIsOfACheck

\* A parser fails with one of the errors of its checks.
LEMMA FirstType ==
  ASSUME NEW checks, DOMAIN checks \subseteq 1 .. 6, NEW S, "NO_ERROR" \in S,
         \A i \in DOMAIN checks : checks[i][2] \in S
  PROVE  First(checks) \in S
  BY FirstIsOfACheck

\* The parsers of all frame types but ORIGIN fail with these two errors.
LEMMA FaultType ==
  ASSUME NEW f \in Frames, f.type # "ORIGIN"
  PROVE  Fault(f) \in {"NO_ERROR", "PROTOCOL_ERROR", "FRAME_SIZE_ERROR"}
  <1> DEFINE S == {"NO_ERROR", "PROTOCOL_ERROR", "FRAME_SIZE_ERROR"}
  <1>1. ASSUME NEW a PROVE First(<< <<a, "PROTOCOL_ERROR">> >>) \in S
    <2> DEFINE c == << <<a, "PROTOCOL_ERROR">> >>
    <2>1. DOMAIN c \subseteq 1 .. 6 /\ \A i \in DOMAIN c : c[i][2] \in S
      OBVIOUS
    <2>2. "NO_ERROR" \in S
      OBVIOUS
    <2> HIDE DEF c, S
    <2>3. First(c) \in S
      BY <2>1, <2>2, FirstType
    <2> QED
      BY <2>3 DEF c
  <1>2. ASSUME NEW a, NEW b, NEW d \in S, NEW e \in S
        PROVE  First(<< <<a, d>>, <<b, e>> >>) \in S
    <2> DEFINE c == << <<a, d>>, <<b, e>> >>
    <2>1. DOMAIN c \subseteq 1 .. 6 /\ \A i \in DOMAIN c : c[i][2] \in S
      OBVIOUS
    <2>2. "NO_ERROR" \in S
      OBVIOUS
    <2> HIDE DEF c, S
    <2>3. First(c) \in S
      BY <2>1, <2>2, FirstType
    <2> QED
      BY <2>3 DEF c
  <1>3. ASSUME NEW a, NEW b, NEW h, NEW d \in S, NEW e \in S, NEW g \in S
        PROVE  First(<< <<a, d>>, <<b, e>>, <<h, g>> >>) \in S
    <2> DEFINE c == << <<a, d>>, <<b, e>>, <<h, g>> >>
    <2>1. DOMAIN c \subseteq 1 .. 6 /\ \A i \in DOMAIN c : c[i][2] \in S
      OBVIOUS
    <2>2. "NO_ERROR" \in S
      OBVIOUS
    <2> HIDE DEF c, S
    <2>3. First(c) \in S
      BY <2>1, <2>2, FirstType
    <2> QED
      BY <2>3 DEF c
  <1>4. f.type \in PaddedTypes => PaddedFault(f) \in S
    BY PaddedFaultMeans
  <1>5. "NO_ERROR" \in S /\ "PROTOCOL_ERROR" \in S /\ "FRAME_SIZE_ERROR" \in S
    OBVIOUS
  <1> HIDE DEF S
  <1>6. ContinuationFault(f) \in S
    BY <1>1 DEF ContinuationFault
  <1>7. /\ PriorityFault(f) \in S /\ RstStreamFault(f) \in S /\ PingFault(f) \in S
        /\ GoawayFault(f) \in S /\ WindowUpdateFault(f) \in S /\ AltsvcFault(f) \in S
    BY <1>2, <1>5, ZenonT(30)
    DEF PriorityFault, RstStreamFault, PingFault, GoawayFault, WindowUpdateFault, AltsvcFault
  <1>8. PriorityUpdateFault(f) \in S /\ SettingsFault(f) \in S
    BY <1>3, <1>5 DEF PriorityUpdateFault, SettingsFault
  <1>9. Fault(f) \in S
    BY <1>4, <1>5, <1>6, <1>7, <1>8, FrameTypes DEF Fault, PaddedTypes
  <1> QED
    BY <1>9 DEF S

\* The layouts RFC 9113 allows a padded frame, in terms of its overhead.
LEMMA LayoutMeans ==
  ASSUME NEW f \in Frames, f.type \in PaddedTypes, NEW n \in Lengths
  PROVE  Layout(f, n) <=> f.length = Overhead(f) + n
  <1>1. Layout(f, n) <=> f.length = (IF Padded(f) THEN 1 + f.pad ELSE 0) + Prefix(f) + n
    BY DEF Layout, Prefix, PaddedTypes
  <1>2. f.length \in Nat /\ n \in Nat
    BY FrameTypes, Limits
  <1> QED
    BY <1>1, <1>2, OverheadType

\* The parser accepts a padded frame exactly if a layout exists, and takes the
\* block of that layout.
LEMMA PaddedFaultExact ==
  ASSUME NEW f \in Frames, f.type \in PaddedTypes
  PROVE  LET allowed == {n \in Lengths : Layout(f, n)}
             named   == f.stream /\ (f.type = "PUSH_PROMISE" => f.value # 0)
         IN /\ Fault(f) = "NO_ERROR" =>
                 /\ named /\ allowed = {BlockLength(f)} /\ BlockLength(f) \in Lengths
                 /\ Overhead(f) + BlockLength(f) = f.length
            /\ Fault(f) # "NO_ERROR" => ~named \/ allowed = {}
  <1> DEFINE allowed == {n \in Lengths : Layout(f, n)}
             named   == f.stream /\ (f.type = "PUSH_PROMISE" => f.value # 0)
  <1>1. Fault(f) = "NO_ERROR" <=> named /\ Overhead(f) <= f.length
    <2>1. Fault(f) = PaddedFault(f)
      BY DEF Fault, PaddedTypes
    <2> QED
      BY <2>1, PaddedFaultMeans
  <1>2. f.length \in 0 .. MaxLength /\ Overhead(f) \in Nat /\ MaxLength \in Nat
    BY FrameTypes, OverheadType, Limits
  <1>3. \A n \in Lengths : n \in allowed <=> n = f.length - Overhead(f)
    BY <1>2, LayoutMeans, Limits
  <1>4. CASE Overhead(f) <= f.length
    <2>1. f.length - Overhead(f) \in Lengths
      BY <1>2, <1>4, Limits
    <2>2. allowed = {f.length - Overhead(f)}
      BY <1>3, <2>1
    <2>3. Overhead(f) + (f.length - Overhead(f)) = f.length
      BY <1>2
    <2> QED
      BY <1>1, <1>4, <2>1, <2>2, <2>3 DEF BlockLength
  <1>5. CASE ~(Overhead(f) <= f.length)
    <2>1. f.length - Overhead(f) \notin Lengths
      BY <1>2, <1>5, Limits
    <2>2. allowed = {}
      BY <1>3, <2>1
    <2> QED
      BY <1>1, <1>5, <2>2
  <1> QED
    BY <1>4, <1>5

\* Of two checks, neither applies if there is no error.
LEMMA NeitherApplies ==
  ASSUME NEW a, NEW b, NEW d, NEW e, d # "NO_ERROR", e # "NO_ERROR",
         First(<< <<a, d>>, <<b, e>> >>) = "NO_ERROR"
  PROVE  ~a /\ ~b
  <1> DEFINE c == << <<a, d>>, <<b, e>> >>
  <1>1. /\ DOMAIN c = 1 .. 2 /\ c[1][2] = d /\ c[2][2] = e
        /\ c[1][1] = a /\ c[2][1] = b
    OBVIOUS
  <1>2. First(c) = "NO_ERROR"
    OBVIOUS
  <1> HIDE DEF c
  <1>3. \A i \in DOMAIN c : ~c[i][1]
    <2>1. \A i \in DOMAIN c : c[i][2] # "NO_ERROR"
      BY <1>1
    <2>2. DOMAIN c \subseteq 1 .. 6
      BY <1>1
    <2> QED
      BY <1>2, <2>1, <2>2, FirstIsOfACheck
  <1>4. 1 \in DOMAIN c /\ 2 \in DOMAIN c
    BY <1>1
  <1> QED
    BY <1>1, <1>3, <1>4, Zenon

\* A parser without padding that finds no error has read its payload, no more and
\* no less.
LEMMA UnpaddedExact ==
  ASSUME NEW f \in Frames, f.type \notin PaddedTypes \cup {"ORIGIN", "SETTINGS"},
         Fault(f) = "NO_ERROR"
  PROVE  BytesRead(f) = f.length
  <1>1. f.length \in Nat
    BY FrameTypes, Limits
  <1>2. CASE f.type = "PRIORITY"
    <2>1. PriorityFault(f) = "NO_ERROR"
      BY <1>2 DEF Fault, PaddedTypes
    <2>2. f.length = 5
      BY <2>1, NeitherApplies DEF PriorityFault
    <2> QED
      BY <1>2, <2>2 DEF BytesRead, PaddedTypes
  <1>3. CASE f.type = "RST_STREAM"
    <2>1. RstStreamFault(f) = "NO_ERROR"
      BY <1>3 DEF Fault, PaddedTypes
    <2>2. f.length = 4
      BY <2>1, NeitherApplies DEF RstStreamFault
    <2> QED
      BY <1>3, <2>2 DEF BytesRead, PaddedTypes
  <1>4. CASE f.type = "WINDOW_UPDATE"
    <2>1. WindowUpdateFault(f) = "NO_ERROR"
      BY <1>4 DEF Fault, PaddedTypes
    <2>2. f.length = 4
      <3> DEFINE a == f.length # 4
                 b == f.value = 0
      <3>1. First(<< <<a, "FRAME_SIZE_ERROR">>, <<b, "PROTOCOL_ERROR">> >>) = "NO_ERROR"
        BY <2>1 DEF WindowUpdateFault
      <3> HIDE DEF a, b
      <3>2. ~a
        BY <3>1, NeitherApplies
      <3> QED
        BY <3>2 DEF a
    <2> QED
      BY <1>4, <2>2 DEF BytesRead, PaddedTypes
  <1>5. CASE f.type = "PING"
    <2>1. PingFault(f) = "NO_ERROR"
      BY <1>5 DEF Fault, PaddedTypes
    <2>2. f.length = 8
      BY <2>1, NeitherApplies DEF PingFault
    <2> QED
      BY <1>5, <2>2 DEF BytesRead, PaddedTypes
  <1>6. CASE f.type = "GOAWAY"
    <2>1. GoawayFault(f) = "NO_ERROR"
      BY <1>6 DEF Fault, PaddedTypes
    <2>2. ~(f.length < 8)
      BY <2>1, NeitherApplies DEF GoawayFault
    <2>3. (IF f.length > 8 THEN f.length ELSE 8) = f.length
      BY <1>1, <2>2
    <2> QED
      BY <1>6, <2>3 DEF BytesRead, PaddedTypes
  <1>7. CASE f.type \in {"CONTINUATION", "UNKNOWN", "PRIORITY_UPDATE", "ALTSVC"}
    BY <1>7 DEF BytesRead, PaddedTypes
  <1> QED
    BY <1>2, <1>3, <1>4, <1>5, <1>6, <1>7, FrameTypes

-----------------------------------------------------------------------------
(* ReaderInv is inductive *)

\* What the invariant says of the numbers.
LEMMA InvFacts ==
  ASSUME ReaderInv
  PROVE  /\ TypeOK /\ entries \in Nat /\ total \in Nat /\ origins \in Nat
         /\ entries <= MaxEntries /\ total <= MaxEntries /\ origins <= entries
         /\ result # "failed" => total + entries <= MaxEntries
         /\ frames \in Nat /\ frames <= MaxFrames /\ pos \in Lengths /\ kept \in Lengths
         /\ code \in Codes /\ frame \in Frames \cup {NoFrame}
  <1>1. TypeOK
    BY DEF ReaderInv, EntriesWithinBudget
  <1> QED
    BY <1>1, Limits DEF ReaderInv, EntriesWithinBudget, TypeOK, Codes

\* A reader is created for each frame.
LEMMA InitEstablishesInv == Init => ReaderInv
  <1> SUFFICES ASSUME Init PROVE ReaderInv
    OBVIOUS
  <1>1. /\ result = "idle" /\ frame = NoFrame /\ pos = 0 /\ kept = 0 /\ code = "NO_ERROR"
        /\ entries = 0 /\ total = 0 /\ origins = 0 /\ frames = 0
    BY DEF Init
  <1>2. 0 \in Lengths /\ 0 \in 0 .. MaxEntries /\ 0 \in 0 .. MaxFrames /\ 0 + 0 <= MaxEntries
    BY Limits
  <1>3. TypeOK
    BY <1>1, <1>2 DEF TypeOK
  <1>4. PaddingExact /\ ExtensionsSkipped
    BY <1>1 DEF PaddingExact, ExtensionsSkipped
  <1> QED
    BY <1>1, <1>2, <1>3, <1>4 DEF ReaderInv, EntriesWithinBudget

\* TypeOK of the next state, from its parts.
LEMMA TypeNext ==
  ASSUME result' \in {"idle", "reading", "read", "faulty", "failed"},
         frame' \in Frames \cup {NoFrame}, pos' \in Lengths, kept' \in Lengths,
         code' \in Codes, entries' \in 0 .. MaxEntries, total' \in 0 .. MaxEntries,
         origins' \in 0 .. MaxEntries, frames' \in 0 .. MaxFrames
  PROVE  TypeOK'
  BY DEF TypeOK, Codes

\* A frame arrives.
LEMMA ReceiveStep ==
  ASSUME ReaderInv, NEW f \in Frames, Receive(f)
  PROVE  ReaderInv'
  <1>1. /\ result = "idle" /\ result' = "reading" /\ frame' = f /\ pos' = 0 /\ kept' = 0
        /\ code' = "NO_ERROR" /\ entries' = 0 /\ origins' = 0
        /\ total' = total /\ frames' = frames
    BY DEF Receive, budget
  <1>2. /\ 0 \in Lengths /\ 0 \in 0 .. MaxEntries /\ total \in 0 .. MaxEntries
        /\ frames \in 0 .. MaxFrames /\ total + 0 <= MaxEntries /\ 0 <= f.length
    BY InvFacts, Limits, FrameTypes
  <1>3. TypeOK'
    BY <1>1, <1>2, TypeNext DEF Codes
  <1>4. PaddingExact' /\ ExtensionsSkipped'
    BY <1>1 DEF PaddingExact, ExtensionsSkipped
  <1> QED
    BY <1>1, <1>2, <1>3, <1>4 DEF ReaderInv, EntriesWithinBudget

\* Any frame but ORIGIN and SETTINGS.
LEMMA PayloadStep ==
  ASSUME ReaderInv, ParsePayload
  PROVE  ReaderInv'
  <1>1. /\ result = "reading" /\ frame \in Frames /\ frame.type \notin {"ORIGIN", "SETTINGS"}
        /\ frame' = frame /\ entries' = entries /\ origins' = origins /\ total' = total
        /\ frames' = frames
    BY DEF ParsePayload, ReaderInv, budget
  <1>2. /\ entries \in 0 .. MaxEntries /\ total \in 0 .. MaxEntries
        /\ origins \in 0 .. MaxEntries /\ frames \in 0 .. MaxFrames
        /\ total + entries <= MaxEntries /\ origins <= entries
    BY <1>1, InvFacts, Limits
  <1>3. CASE Fault(frame) = "NO_ERROR"
    <2>1. result' = "read" /\ code' = code
      BY <1>3 DEF ParsePayload
    <2>2. CASE frame.type \in PaddedTypes
      <3>0. BytesRead(frame) = Overhead(frame) + BlockLength(frame)
        BY <2>2 DEF BytesRead, PaddedTypes
      <3>1. kept' = BlockLength(frame) /\ pos' = Overhead(frame) + kept'
        BY <1>3, <2>2, <3>0 DEF ParsePayload
      <3>2. pos' = frame.length /\ kept' \in Lengths /\ pos' \in Lengths
        BY <1>1, <1>3, <2>2, <3>1, PaddedFaultExact, FrameTypes
      <3>3. PaddingExact'
        BY <1>1, <1>3, <2>1, <2>2, <3>1, <3>2, PaddedFaultExact DEF PaddingExact
      <3>4. TypeOK'
        BY <1>1, <1>2, <2>1, <3>2, InvFacts, TypeNext
      <3> QED
        BY <1>1, <1>2, <2>1, <3>3, <3>4
        DEF ReaderInv, EntriesWithinBudget, ExtensionsSkipped
    <2>3. CASE frame.type \notin PaddedTypes
      <3>1. kept' = 0 /\ pos' = frame.length
        BY <1>1, <1>3, <2>3, UnpaddedExact DEF ParsePayload
      <3>2. kept' \in Lengths /\ pos' \in Lengths
        BY <1>1, <3>1, FrameTypes, Limits
      <3>3. PaddingExact'
        BY <1>1, <2>1, <2>3, <3>1 DEF PaddingExact
      <3>4. TypeOK'
        BY <1>1, <1>2, <2>1, <3>2, InvFacts, TypeNext
      <3> QED
        BY <1>1, <1>2, <2>1, <3>3, <3>4
        DEF ReaderInv, EntriesWithinBudget, ExtensionsSkipped
    <2> QED
      BY <2>2, <2>3
  <1>4. CASE Fault(frame) # "NO_ERROR"
    <2>1. result' = "faulty" /\ code' = Fault(frame) /\ pos' = pos /\ kept' = kept
      BY <1>4 DEF ParsePayload, Faulty
    <2>2. code' \in Codes
      BY <1>1, <2>1, FaultType DEF Codes
    <2>3. TypeOK'
      BY <1>1, <1>2, <2>1, <2>2, InvFacts, TypeNext
    <2>4. PaddingExact'
      BY <1>1, <1>4, <2>1, PaddedFaultExact DEF PaddingExact
    <2> QED
      BY <1>1, <1>2, <2>1, <2>3, <2>4
      DEF ReaderInv, EntriesWithinBudget, ExtensionsSkipped
  <1> QED
    BY <1>3, <1>4

\* SETTINGS with a length that holds whole entries.
LEMMA SettingsLength ==
  ASSUME NEW f \in Frames, f.type = "SETTINGS", Fault(f) = "NO_ERROR"
  PROVE  6 * (f.length \div 6) = f.length
  <1> DEFINE c == << <<f.stream, "PROTOCOL_ERROR">>,
                     <<f.ack /\ f.length # 0, "FRAME_SIZE_ERROR">>,
                     <<f.length % 6 # 0, "FRAME_SIZE_ERROR">> >>
  <1>1. /\ DOMAIN c = 1 .. 3 /\ c[1][2] = "PROTOCOL_ERROR" /\ c[2][2] = "FRAME_SIZE_ERROR"
        /\ c[3][2] = "FRAME_SIZE_ERROR"
    OBVIOUS
  <1>5. c[3][1] <=> f.length % 6 # 0
    OBVIOUS
  <1>2. First(c) = "NO_ERROR"
    BY DEF Fault, SettingsFault, PaddedTypes
  <1> HIDE DEF c
  <1>3. ~c[3][1]
    <2>1. \A i \in DOMAIN c : c[i][2] # "NO_ERROR"
      BY <1>1
    <2> QED
      BY <1>1, <1>2, <2>1, FirstIsOfACheck
  <1>4. f.length \in Nat /\ f.length % 6 = 0
    BY <1>3, <1>5, FrameTypes, Limits
  <1> QED
    BY <1>4

\* The entries of SETTINGS are reserved before they are checked.
LEMMA SettingsStep ==
  ASSUME ReaderInv, ParseSettings
  PROVE  ReaderInv'
  <1> DEFINE n == frame.length \div 6
             c == << <<Fault(frame) # "NO_ERROR", Fault(frame)>>,
                     <<~ReserveEntries(n), "ENHANCE_YOUR_CALM">>,
                     <<n > 0, frame.bad>> >>
  <1>1. /\ result = "reading" /\ frame \in Frames /\ frame.type = "SETTINGS"
        /\ frame' = frame /\ kept' = kept /\ origins' = origins /\ total' = total
        /\ frames' = frames
        /\ entries' = IF Fault(frame) = "NO_ERROR" /\ ReserveEntries(n)
                        THEN entries + n ELSE entries
        /\ \/ First(c) = "NO_ERROR" /\ result' = "read" /\ pos' = 6 * n /\ code' = code
           \/ /\ First(c) # "NO_ERROR" /\ result' = "faulty" /\ code' = First(c)
              /\ pos' = pos
    BY DEF ParseSettings, ReaderInv, budget, Faulty
  <1>2. /\ DOMAIN c = 1 .. 3 /\ c[1][2] = Fault(frame) /\ c[2][2] = "ENHANCE_YOUR_CALM"
        /\ c[3][2] = frame.bad
    OBVIOUS
  <1>11. c[1][1] <=> Fault(frame) # "NO_ERROR"
    OBVIOUS
  <1>3. n \in Nat
    BY <1>1, FrameTypes, Limits
  <1> HIDE DEF n, c
  <1>4. First(c) \in Codes
    <2>1. Fault(frame) \in Codes /\ frame.bad \in Codes /\ "NO_ERROR" \in Codes
      BY <1>1, FaultType, FrameTypes DEF Codes
    <2>2. \A i \in 1 .. 3 : c[i][2] \in Codes
      BY <1>2, <2>1 DEF Codes
    <2> QED
      BY <1>2, <2>1, <2>2, FirstType
  <1>5. First(c) = "NO_ERROR" => Fault(frame) = "NO_ERROR"
    <2>1. SUFFICES ASSUME Fault(frame) # "NO_ERROR"
                   PROVE  First(c) # "NO_ERROR"
      OBVIOUS
    <2>2. DOMAIN c \subseteq 1 .. 6 /\ 1 \in DOMAIN c /\ c[1][1]
      BY <1>2, <1>11, <2>1
    <2> DEFINE hits == {i \in DOMAIN c : c[i][1]}
    <2>3. 1 \in hits /\ \A j \in hits : 1 <= j
      BY <1>2, <2>2
    <2>4. (CHOOSE i \in hits : \A j \in hits : i <= j) = 1
      <3>1. \A i \in hits : (\A j \in hits : i <= j) => i = 1
        BY <1>2, <2>3
      <3> QED
        BY <2>3, <3>1
    <2> QED
      BY <1>2, <2>1, <2>3, <2>4 DEF First
  <1>6. /\ entries' \in 0 .. MaxEntries /\ total' \in 0 .. MaxEntries
        /\ origins' \in 0 .. MaxEntries /\ frames' \in 0 .. MaxFrames
        /\ total' + entries' <= MaxEntries /\ origins' <= entries'
    BY <1>1, <1>3, InvFacts, Limits DEF ReserveEntries
  <1>7. pos' \in Lengths /\ (result' = "read" => pos' = frame.length)
    BY <1>1, <1>5, InvFacts, SettingsLength, FrameTypes DEF n
  <1>8. result' \in {"read", "faulty"} /\ code' \in Codes
    BY <1>1, <1>4, InvFacts
  <1>9. TypeOK'
    BY <1>1, <1>6, <1>7, <1>8, InvFacts, TypeNext
  <1>10. PaddingExact'
    BY <1>1, <1>7, <1>8 DEF PaddingExact, PaddedTypes
  <1> QED
    BY <1>1, <1>6, <1>8, <1>9, <1>10 DEF ReaderInv, EntriesWithinBudget, ExtensionsSkipped

\* One origin: it is counted before it is recorded.
LEMMA OriginStep ==
  ASSUME ReaderInv, NEW n \in Lengths, ParseOrigin(n)
  PROVE  ReaderInv'
  <1>1. /\ result = "reading" /\ frame \in Frames /\ frame.type = "ORIGIN"
        /\ frame' = frame /\ kept' = kept /\ total' = total /\ frames' = frames
        /\ \/ /\ pos + 2 + n <= frame.length /\ entries + 1 <= MaxEntries - total
              /\ pos' = pos + 2 + n /\ entries' = entries + 1 /\ origins' = origins + 1
              /\ result' = "reading" /\ code' = code
           \/ /\ result' = "faulty" /\ code' \in {"PROTOCOL_ERROR", "ENHANCE_YOUR_CALM"}
              /\ pos' = pos /\ entries' = entries /\ origins' = origins
    BY DEF ParseOrigin, ReaderInv, budget, Faulty, ReserveEntries
  <1>2. frame.length \in 0 .. MaxLength /\ n \in Nat /\ pos \in Nat /\ MaxLength \in Nat
    BY <1>1, FrameTypes, InvFacts, Limits
  <1>3. /\ entries' \in 0 .. MaxEntries /\ total' \in 0 .. MaxEntries
        /\ origins' \in 0 .. MaxEntries /\ frames' \in 0 .. MaxFrames
        /\ total' + entries' <= MaxEntries /\ origins' <= entries'
    <2>1. /\ entries \in Nat /\ total \in Nat /\ origins \in Nat /\ origins <= entries
          /\ total + entries <= MaxEntries /\ frames \in 0 .. MaxFrames /\ MaxEntries \in Nat
      BY <1>1, InvFacts, Limits
    <2>2. \/ /\ entries + 1 <= MaxEntries - total
             /\ entries' = entries + 1 /\ origins' = origins + 1
          \/ entries' = entries /\ origins' = origins
      BY <1>1
    <2>3. total' = total /\ frames' = frames
      BY <1>1
    <2> QED
      BY <2>1, <2>2, <2>3
  <1>4. pos' \in Lengths /\ pos' <= frame.length
    <2>1. pos' \in {pos + 2 + n, pos} /\ (pos' = pos \/ pos + 2 + n <= frame.length)
      BY <1>1
    <2>2. pos <= frame.length
      BY <1>1 DEF ReaderInv
    <2> QED
      BY <1>2, <2>1, <2>2, Limits
  <1>5. result' \in {"reading", "faulty"} /\ code' \in Codes
    BY <1>1, InvFacts DEF Codes
  <1>6. TypeOK'
    BY <1>1, <1>3, <1>4, <1>5, InvFacts, TypeNext
  <1>7. PaddingExact'
    BY <1>1, <1>5 DEF PaddingExact, PaddedTypes
  <1>8. result' = "reading" => code' = "NO_ERROR"
    BY <1>1 DEF ReaderInv
  <1> QED
    BY <1>1, <1>3, <1>4, <1>5, <1>6, <1>7, <1>8
    DEF ReaderInv, EntriesWithinBudget, ExtensionsSkipped

\* The loop over the origins ends.
LEMMA OriginEndsStep ==
  ASSUME ReaderInv, OriginEnds
  PROVE  ReaderInv'
  <1>1. /\ result = "reading" /\ frame \in Frames /\ frame.type = "ORIGIN"
        /\ frame' = frame /\ pos' = pos /\ kept' = kept /\ entries' = entries
        /\ origins' = origins /\ total' = total /\ frames' = frames
        /\ \/ pos >= frame.length /\ result' = "read" /\ code' = code
           \/ result' = "faulty" /\ code' = "PROTOCOL_ERROR"
    BY DEF OriginEnds, ReaderInv, budget, Faulty
  <1>2. pos <= frame.length /\ pos \in Nat /\ frame.length \in Nat
    BY <1>1, FrameTypes, InvFacts, Limits DEF ReaderInv
  <1>3. result' = "read" => pos' = frame.length
    BY <1>1, <1>2
  <1>4. result' \in {"read", "faulty"} /\ code' \in Codes
    BY <1>1, InvFacts DEF Codes
  <1>5. /\ entries' \in 0 .. MaxEntries /\ total' \in 0 .. MaxEntries
        /\ origins' \in 0 .. MaxEntries /\ frames' \in 0 .. MaxFrames
        /\ total' + entries' <= MaxEntries /\ origins' <= entries'
    BY <1>1, InvFacts, Limits
  <1>6. TypeOK'
    BY <1>1, <1>4, <1>5, InvFacts, TypeNext
  <1>7. PaddingExact'
    BY <1>1, <1>3, <1>4 DEF PaddingExact, PaddedTypes
  <1> QED
    BY <1>1, <1>4, <1>5, <1>6, <1>7 DEF ReaderInv, EntriesWithinBudget, ExtensionsSkipped

\* A frame without entries leaves the budget as it is.
LEMMA NothingMore ==
  ASSUME NEW t \in 0 .. MaxEntries
  PROVE  t + 0 <= MaxEntries
  BY Limits

\* What the four ends of a frame have in common.
LEMMA EndStep ==
  ASSUME ReaderInv, result \in {"read", "faulty"}, result' \in {"idle", "failed"},
         frame' \in Frames \cup {NoFrame}, pos' \in Lengths, kept' \in Lengths,
         code' \in Codes, total' \in {total, total + entries},
         entries' \in {0, entries}, origins' \in {0, origins}, frames' \in 0 .. MaxFrames,
         result' = "idle" => entries' = 0 /\ origins' = 0,
         entries' = 0 => origins' = 0, ExtensionsSkipped'
  PROVE  ReaderInv'
  <1>1. /\ entries \in Nat /\ total \in Nat /\ origins \in Nat /\ origins <= entries
        /\ total + entries <= MaxEntries /\ MaxEntries \in Nat
    BY InvFacts, Limits
  <1>2. /\ entries' \in 0 .. MaxEntries /\ total' \in 0 .. MaxEntries
        /\ origins' \in 0 .. MaxEntries
    BY <1>1
  <1>3. origins' <= entries'
    BY <1>1
  <1>4. entries' = 0 => total' + entries' <= MaxEntries
    <2>1. total' + 0 <= MaxEntries
      BY <1>2, NothingMore
    <2> QED
      BY <2>1
  <1>5. TypeOK'
    BY <1>2, TypeNext
  <1>6. PaddingExact'
    BY DEF PaddingExact
  <1> QED
    BY <1>3, <1>4, <1>5, <1>6 DEF ReaderInv, EntriesWithinBudget

\* _receive records the frame, ignores or rejects it, or finds a budget spent.
LEMMA ReceivedStep ==
  ASSUME ReaderInv, EntriesExceeded \/ FramesExceeded \/ Rejected \/ Recorded
  PROVE  ReaderInv'
  <1>1. result \in {"read", "faulty"} /\ frame \in Frames
    BY DEF EntriesExceeded, FramesExceeded, Rejected, Recorded, Raised, ReaderInv
  <1>2. pos \in Lengths /\ kept \in Lengths /\ code \in Codes /\ frames \in 0 .. MaxFrames
    BY InvFacts, Limits
  <1>3. origins = 0 \/ entries # 0
    <2>1. entries \in Nat /\ origins \in Nat /\ origins <= entries
      BY InvFacts
    <2> QED
      BY <2>1
  <1>4. CASE EntriesExceeded
    BY <1>1, <1>2, <1>3, <1>4, EndStep
    DEF EntriesExceeded, Fail, Raised, ExtensionsSkipped
  <1>5. CASE FramesExceeded
    BY <1>1, <1>2, <1>3, <1>5, EndStep DEF FramesExceeded, Fail, ExtensionsSkipped, Codes
  <1>6. CASE Rejected
    <2>1. frames' \in 0 .. MaxFrames
      BY <1>2, <1>6, Limits DEF Rejected
    <2>2. pos' \in Lengths
      BY <1>1, <1>6, FrameTypes DEF Rejected
    <2> QED
      BY <1>1, <1>2, <1>3, <1>6, <2>1, <2>2, EndStep
      DEF Rejected, Ignored, ExtensionsSkipped
  <1>7. CASE Recorded
    <2>1. frames' \in 0 .. MaxFrames
      BY <1>2, <1>7, Limits DEF Recorded
    <2>2. 0 \in Lengths
      BY Limits
    <2> QED
      BY <1>1, <1>2, <1>7, <2>1, <2>2, EndStep DEF Recorded, ExtensionsSkipped, Codes
  <1> QED
    BY <1>4, <1>5, <1>6, <1>7

\* Every step.
LEMMA NextStep == ReaderInv /\ [Next]_vars => ReaderInv'
  <1> SUFFICES ASSUME ReaderInv, [Next]_vars PROVE ReaderInv'
    OBVIOUS
  <1>1. CASE UNCHANGED vars
    BY <1>1, ZenonT(30)
    DEF vars, budget, ReaderInv, PaddingExact, EntriesWithinBudget, ExtensionsSkipped,
                TypeOK, Layout, Padded
  <1> QED
    BY <1>1, ReceiveStep, PayloadStep, SettingsStep, OriginStep, OriginEndsStep,
       ReceivedStep
    DEF Next

-----------------------------------------------------------------------------
(* The theorems *)

\* The inductive invariant holds for every sequence of frames.
THEOREM ReaderInvariant == Spec => []ReaderInv
  BY InitEstablishesInv, NextStep, PTL DEF Spec

\* For every length of payload and padding, DATA, HEADERS and PUSH_PROMISE are
\* accepted exactly when RFC 9113 has a layout for them, and every parser that
\* returns has read its payload to the last byte.
THEOREM NoBoundaryIsOffByOne == Spec => []PaddingExact
  <1>1. ReaderInv => PaddingExact
    BY DEF ReaderInv
  <1> QED
    BY <1>1, ReaderInvariant, PTL

\* The SETTINGS entries and origins of all frames of a connection stay within
\* MAX_CAPTURE_ENTRIES, those of malformed frames included.
THEOREM EntriesAreBounded == Spec => []EntriesWithinBudget
  <1>1. ReaderInv => EntriesWithinBudget
    BY DEF ReaderInv
  <1> QED
    BY <1>1, ReaderInvariant, PTL

\* ALTSVC and ORIGIN never end a session by being malformed, and an exhausted
\* budget always does, also inside an ORIGIN.
THEOREM ExtensionsAreHarmless == Spec => ExtensionsIgnored
  <1>1. ReaderInv => ExtensionsSkipped
    BY DEF ReaderInv
  <1>2. [Next]_vars =>
          [result = "faulty" /\ code = "ENHANCE_YOUR_CALM" => result' = "failed"]_vars
    BY DEF Next, Receive, ParsePayload, ParseSettings, OriginEnds, ParseOrigin,
       EntriesExceeded, FramesExceeded, Rejected, Recorded, Raised, Fail
  <1> QED
    BY <1>1, <1>2, ReaderInvariant, PTL DEF Spec, ExtensionsIgnored
=============================================================================
