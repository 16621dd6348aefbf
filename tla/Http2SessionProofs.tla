------------------------- MODULE Http2SessionProofs -------------------------
(***************************************************************************)
(* One HTTP/2 connection, for every set of streams, every limit and every  *)
(* sequence of frames: SessionInv holds at the beginning and is preserved  *)
(* by the steps of the handler, by every other frame and by the header     *)
(* blocks of a request; what it implies; and the limit on the streams that *)
(* a peer may prioritize before it opens them.                             *)
(***************************************************************************)
EXTENDS Http2Session, TLAPS

Goaways == [code : Codes, last : Streams \cup {NoStream}]

\* TypeOK, by the groups of variables that the actions leave unchanged.
HandlerOK ==
  /\ pc \in {"preface", "read", "chunk", "ready", "respond", "closing", "done"}
  /\ caller \in {"request", "response"} /\ code \in Codes
ParserOK ==
  /\ first \in BOOLEAN /\ ending \in BOOLEAN /\ cont \in Streams \cup {NoStream}
  /\ block \in 0 .. MaxBlock /\ frames \in 0 .. MaxFrames
RequestOK ==
  /\ captured \in Streams \cup {NoStream} /\ ready \in BOOLEAN /\ early \in BOOLEAN
  /\ expected \in {None} \cup 0 .. MaxBody + 1 /\ bytes \in 0 .. MaxBody
H2OK ==
  /\ stream \in [Streams -> {"idle", "open", "half", "reset"}]
  /\ highest \in Streams \cup {NoStream} /\ initial \in 0 .. MaxWindow
  /\ window \in -MaxContent .. MaxWindow /\ connWindow \in 0 .. MaxWindow
AnswerOK == content \in {None} \cup 0 .. MaxContent /\ sent \in 0 .. MaxContent
CloseOK == failed \in BOOLEAN /\ closed \in BOOLEAN /\ goaways \in Seq(Goaways)
OtherOK ==
  /\ cancelled \in BOOLEAN /\ continued \in BOOLEAN
  /\ prio \subseteq Streams /\ refused \subseteq Streams

\* TypeOK is the conjunction of its groups.
LEMMA TypeGroups ==
  TypeOK <=> /\ HandlerOK /\ ParserOK /\ RequestOK /\ H2OK
             /\ AnswerOK /\ CloseOK /\ OtherOK
  BY DEF TypeOK, HandlerOK, ParserOK, RequestOK, H2OK, AnswerOK, CloseOK, OtherOK, Goaways

\* The same of the state after a step.
LEMMA TypeGroupsNext ==
  ASSUME HandlerOK', ParserOK', RequestOK', H2OK', AnswerOK', CloseOK', OtherOK'
  PROVE  TypeOK'
  BY DEF TypeOK, HandlerOK, ParserOK, RequestOK, H2OK, AnswerOK, CloseOK, OtherOK, Goaways

\* The limits of the session are numbers, and no stream has identifier 0.
LEMMA Limits ==
  /\ MaxFrames \in Nat /\ MaxBlock \in Nat /\ MaxBody \in Nat /\ MaxConcurrent \in Nat
  /\ MaxWindow \in Nat /\ MaxContent \in Nat /\ MaxOutFrame \in Nat /\ MaxOutFrame > 0
  /\ DefaultWindow \in 0 .. MaxWindow /\ NoStream \notin Streams
  /\ \A s \in Streams \cup {NoStream} : s \in Nat
  BY StreamsAssumption, LimitsAssumption DEF NoStream

-----------------------------------------------------------------------------
(* Frames *)

\* What the fields of a HEADERS or CONTINUATION frame can be.
LEMMA BlockTypes ==
  ASSUME NEW f \in Blocks
  PROVE  /\ f.type \in {"HEADERS", "CONTINUATION"} /\ f.stream \in Streams
         /\ f.endHeaders \in BOOLEAN
         /\ f.fields.length \in {None} \cup 0 .. MaxBody + 1
         /\ f.type = "HEADERS" => f.endStream \in BOOLEAN
  <1>1. f.fields \in Fields \/ f.fields = NoFields
    BY ZenonT(30) DEF Blocks
  <1>2. f.fields.length \in {None} \cup 0 .. MaxBody + 1
    BY <1>1 DEF Fields, NoFields
  <1> QED
    BY <1>2, ZenonT(30) DEF Blocks

\* What the fields of every other frame can be.
LEMMA OtherTypes ==
  ASSUME NEW f \in OtherFrames
  PROVE  /\ f.type \notin {"HEADERS", "CONTINUATION"}
         /\ f.type = "DATA" =>
              /\ f.stream \in Streams /\ f.length \in 0 .. MaxBody + 1
              /\ f.endStream \in BOOLEAN
         /\ f.type = "SETTINGS" => f.window \in 0 .. MaxWindow
         /\ f.type = "WINDOW_UPDATE" =>
              f.stream \in Streams \cup {NoStream} /\ f.increment \in 1 .. MaxWindow
         /\ f.type \in {"RST_STREAM", "PRIORITY_UPDATE"} => f.stream \in Streams
         /\ f.type = "GOAWAY" => f.error \in BOOLEAN
         /\ f.type = "MALFORMED" => f.error \in Codes
  BY DEF OtherFrames, Codes

\* The session fails with an error code of HTTP/2.
LEMMA FaultIsCode ==
  ASSUME NEW f \in Blocks \cup OtherFrames
  PROVE  Fault(f) \in Codes
  BY BlockTypes, OtherTypes DEF Fault, Codes

-----------------------------------------------------------------------------
(* The session begins *)

\* A new session satisfies the invariant.
LEMMA InitEstablishesInv == Init => SessionInv
  <1> SUFFICES ASSUME Init PROVE SessionInv
    OBVIOUS
  <1>1. HandlerOK
    BY DEF Init, HandlerOK, Codes
  <1>2. ParserOK
    <2>1. first = TRUE /\ ending = FALSE /\ cont = NoStream /\ block = 0 /\ frames = 0
      BY DEF Init
    <2>2. 0 \in 0 .. MaxBlock /\ 0 \in 0 .. MaxFrames
      BY Limits
    <2> QED
      BY <2>1, <2>2, ZenonT(30) DEF ParserOK
  <1>3. RequestOK
    <2>1. /\ captured = NoStream /\ expected = None /\ bytes = 0
          /\ ready = FALSE /\ early = FALSE
      BY DEF Init
    <2>2. 0 \in 0 .. MaxBody
      BY Limits
    <2> QED
      BY <2>1, <2>2, ZenonT(30) DEF RequestOK
  <1>4. H2OK
    <2>1. /\ stream = [s \in Streams |-> "idle"] /\ highest = NoStream
          /\ initial = DefaultWindow /\ window = 0 /\ connWindow = DefaultWindow
      BY DEF Init, NoStream
    <2>2. 0 \in -MaxContent .. MaxWindow /\ DefaultWindow \in 0 .. MaxWindow
      BY Limits
    <2> QED
      BY <2>1, <2>2 DEF H2OK
  <1>5. AnswerOK
    <2>1. content = None /\ sent = 0
      BY DEF Init
    <2>2. 0 \in 0 .. MaxContent
      BY Limits
    <2> QED
      BY <2>1, <2>2 DEF AnswerOK
  <1>6. CloseOK
    <2>1. closed = FALSE /\ goaways = << >> /\ failed = FALSE
      BY DEF Init
    <2>2. << >> \in Seq(Goaways)
      OBVIOUS
    <2> QED
      BY <2>1, <2>2, ZenonT(30) DEF CloseOK
  <1>7. OtherOK
    BY ZenonT(30) DEF Init, OtherOK
  <1>8. TypeOK
    BY <1>1, <1>2, <1>3, <1>4, <1>5, <1>6, <1>7, TypeGroups
  <1>9. CloseInv /\ GoawayCoversRequest /\ RequestInv /\ AnswerInv /\ WindowInv
    <2>1. /\ pc = "preface" /\ caller = "request" /\ captured = NoStream /\ bytes = 0
          /\ ready = FALSE /\ content = None /\ sent = 0
          /\ closed = FALSE /\ goaways = << >> /\ failed = FALSE
      BY DEF Init
    <2> QED
      BY <2>1 DEF CloseInv, GoawayCoversRequest, RequestInv, CompleteRequest, AnswerInv,
                  WindowInv
  <1>10. OpenStreams(stream) = {}
    BY DEF Init, OpenStreams
  <1>11. StreamInv
    <2>1. captured = 0 /\ highest = 0 /\ NoStream = 0
      BY DEF Init, NoStream
    <2>2. \A s \in Streams : stream[s] = "idle"
      BY DEF Init
    <2> QED
      BY <1>10, <2>1, <2>2 DEF StreamInv, Open
  <1>12. PriorityInv
    BY DEF Init, PriorityInv
  <1> QED
    BY <1>8, <1>9, <1>11, <1>12 DEF SessionInv

-----------------------------------------------------------------------------
(* Steps that end the session *)

\* The properties of the request and its stream are left alone.
LEMMA SessionKept ==
  ASSUME SessionInv, UNCHANGED sessionVars
  PROVE  /\ ParserOK' /\ RequestOK' /\ H2OK' /\ AnswerOK' /\ OtherOK'
         /\ StreamInv' /\ RequestInv' /\ WindowInv'
         /\ \A s \in prio : s > highest <=> s > highest'
         /\ captured' = captured /\ prio' = prio /\ stream' = stream
  <1>1. UNCHANGED <<first, cont, block, frames, ending>>
    BY DEF sessionVars, parserVars
  <1>2. UNCHANGED <<captured, expected, bytes, ready, early>>
    BY DEF sessionVars, unframed, requestVars
  <1>3. UNCHANGED <<stream, highest, initial, window, connWindow>>
    BY DEF sessionVars, unframed, h2Vars
  <1>4. UNCHANGED <<content, sent, prio, cancelled, refused, continued>>
    BY DEF sessionVars, unframed, answerVars
  <1>5. ParserOK /\ RequestOK /\ H2OK /\ AnswerOK /\ OtherOK
    BY TypeGroups DEF SessionInv
  <1>6. ParserOK' /\ RequestOK' /\ H2OK' /\ AnswerOK' /\ OtherOK'
    BY <1>1, <1>2, <1>3, <1>4, <1>5 DEF ParserOK, RequestOK, H2OK, AnswerOK, OtherOK
  <1>7. StreamInv' /\ RequestInv' /\ WindowInv'
    BY <1>2, <1>3, <1>4
    DEF SessionInv, StreamInv, RequestInv, CompleteRequest, WindowInv, Open, OpenStreams
  <1> QED
    BY <1>2, <1>3, <1>4, <1>6, <1>7

\* _fail, and an exception of h2: the session is over, and the GOAWAY it sends
\* covers the captured request.
LEMMA GoawayWritten ==
  ASSUME SessionInv, Live, UNCHANGED answerVars,
         ParserOK', RequestOK', H2OK', OtherOK', StreamInv', RequestInv', WindowInv',
         NEW g \in Goaways, captured' <= g.last, WriteGoaway(g),
         closed' \in BOOLEAN, ~failed' => closed'
  PROVE  SessionInv'
  <1>1. goaways = << >> /\ ~failed /\ ~closed /\ HandlerOK
    BY TypeGroups DEF SessionInv, CloseInv
  <1>2. Append(goaways, g) = <<g>> /\ <<g>> \in Seq(Goaways) /\ << >> \in Seq(Goaways)
    BY <1>1
  <1>3. Len(<<g>>) = 1 /\ <<g>>[1] = g /\ DOMAIN <<g>> = {1} /\ DOMAIN << >> = {}
    OBVIOUS
  <1>4. /\ pc' = "closing" /\ caller' = caller
        /\ \/ goaways' = <<g>> /\ code' = g.code /\ failed' = failed
           \/ goaways' \in {<< >>, <<g>>} /\ code' = "NO_ERROR" /\ failed' = TRUE
    BY <1>1, <1>2 DEF WriteGoaway, Raise
  <1>5. HandlerOK' /\ CloseOK'
    <2>1. code' \in Codes
      BY <1>4 DEF Goaways, Codes
    <2>2. goaways' \in Seq(Goaways)
      BY <1>2, <1>4, ZenonT(30)
    <2>3. failed' \in BOOLEAN
      BY <1>4, TypeGroups, ZenonT(30) DEF SessionInv, CloseOK
    <2> QED
      BY <1>1, <1>4, <2>1, <2>2, <2>3 DEF HandlerOK, CloseOK
  <1>6. TypeOK'
    <2>1. AnswerOK'
      BY TypeGroups DEF SessionInv, AnswerOK, answerVars
    <2> QED
      BY <1>5, <2>1, TypeGroupsNext
  <1>7. CloseInv'
    BY <1>1, <1>3, <1>4 DEF CloseInv, Live
  <1>8. GoawayCoversRequest'
    BY <1>3, <1>4 DEF GoawayCoversRequest
  <1>9. PriorityInv'
    BY <1>4, <1>6 DEF PriorityInv, Live
  <1>10. AnswerInv'
    BY <1>4 DEF SessionInv, AnswerInv, answerVars
  <1> QED
    BY <1>6, <1>7, <1>8, <1>9, <1>10 DEF SessionInv

\* _fail in the middle of a frame, or between frames.
LEMMA FailNowStep ==
  ASSUME SessionInv, Live, NEW c \in Codes, FailNow(c)
  PROVE  SessionInv'
  <1>1. Goaway(c, captured) \in Goaways /\ captured <= Goaway(c, captured).last
    BY TypeGroups, Limits DEF SessionInv, RequestOK, Goaway, Goaways
  <1>2. UNCHANGED sessionVars /\ UNCHANGED answerVars
    BY DEF FailNow, sessionVars, unframed
  <1> QED
    BY <1>1, <1>2, SessionKept, GoawayWritten DEF FailNow, Fail

\* h2 queues a GOAWAY that covers the highest stream, and raises.
LEMMA H2FailsStep ==
  ASSUME SessionInv, Live, NEW c \in Codes, H2Fails(c)
  PROVE  SessionInv'
  <1>1. Goaway(c, highest) \in Goaways /\ captured <= Goaway(c, highest).last
    BY TypeGroups DEF SessionInv, StreamInv, H2OK, Goaway, Goaways
  <1>2. closed' \in BOOLEAN /\ (~failed' => closed')
    BY TypeGroups, ZenonT(30) DEF SessionInv, CloseOK, H2Fails
  <1>3. UNCHANGED sessionVars /\ UNCHANGED answerVars
    BY DEF H2Fails, sessionVars, unframed
  <1> QED
    BY <1>1, <1>2, <1>3, SessionKept, GoawayWritten DEF H2Fails

\* A step that changes neither the session nor what it has sent: the handler
\* goes on, or it raises and will close with c.
LEMMA HandlerStep ==
  ASSUME SessionInv, Live, UNCHANGED <<closeVars, sessionVars>>,
         HandlerOK', pc' # "done", pc' = "ready" => ~cancelled /\ caller' = "request",
         pc' \in {"preface", "read", "chunk", "ready"} /\ caller' = "request" => content = None,
         pc' = "respond" \/ caller' = "response" => content # None
  PROVE  SessionInv'
  <1>1. UNCHANGED <<closed, goaways, failed>>
    BY DEF closeVars
  <1>2. UNCHANGED <<content, sent, prio, cancelled>>
    BY DEF sessionVars, unframed, answerVars
  <1>3. goaways = << >> /\ ~failed /\ ~closed /\ CloseOK
    BY TypeGroups DEF SessionInv, CloseInv
  <1>4. TypeOK'
    <2>1. CloseOK'
      BY <1>1, <1>3 DEF CloseOK
    <2> QED
      BY <2>1, SessionKept, TypeGroupsNext
  <1>5. CloseInv'
    BY <1>1, <1>3 DEF CloseInv
  <1>6. GoawayCoversRequest'
    BY <1>1, <1>3 DEF GoawayCoversRequest
  <1>7. PriorityInv'
    BY <1>4, SessionKept DEF SessionInv, PriorityInv, Live
  <1>8. AnswerInv'
    BY <1>2 DEF SessionInv, AnswerInv
  <1> QED
    BY <1>4, <1>5, <1>6, <1>7, <1>8, SessionKept DEF SessionInv

\* close() sends its GOAWAY unless the session is closed.
LEMMA CloseStep ==
  ASSUME SessionInv, Close
  PROVE  SessionInv'
  <1> DEFINE g == Goaway(code, captured)
  <1>1. HandlerOK /\ CloseOK /\ RequestOK /\ CloseInv /\ GoawayCoversRequest
    BY TypeGroups DEF SessionInv
  <1>2. g \in Goaways /\ g.code = code /\ g.last = captured
    BY <1>1 DEF HandlerOK, RequestOK, Goaway, Goaways
  <1>3. /\ pc = "closing" /\ pc' = "done" /\ closed' = TRUE
        /\ UNCHANGED <<caller, code, sessionVars>>
        /\ \/ closed /\ UNCHANGED <<goaways, failed>>
           \/ ~closed /\ goaways' = Append(goaways, g) /\ failed' = failed
           \/ ~closed /\ goaways' \in {goaways, Append(goaways, g)} /\ failed' = TRUE
    BY DEF Close
  <1> HIDE DEF g
  <1>4. /\ goaways \in Seq(Goaways) /\ Append(goaways, g) \in Seq(Goaways)
        /\ Len(Append(goaways, g)) = Len(goaways) + 1
        /\ \A i \in 1 .. Len(goaways) : Append(goaways, g)[i] = goaways[i]
        /\ Append(goaways, g)[Len(goaways) + 1] = g
    BY <1>1, <1>2 DEF CloseOK
  <1>5. HandlerOK' /\ CloseOK'
    <2>1. goaways' \in Seq(Goaways)
      BY <1>3, <1>4
    <2>2. failed' \in BOOLEAN
      BY <1>1, <1>3, ZenonT(30) DEF CloseOK
    <2> QED
      BY <1>1, <1>3, <2>1, <2>2 DEF HandlerOK, CloseOK
  <1>6. TypeOK'
    BY <1>3, <1>5, SessionKept, TypeGroupsNext
  <1>7. CloseInv'
    <2>1. CASE ~failed /\ ~closed /\ failed' = failed
      <3>1. goaways = << >> /\ goaways' = Append(goaways, g)
        BY <1>1, <1>3, <2>1 DEF CloseInv
      <3>2. Len(goaways') = 1 /\ goaways'[1] = g
        BY <1>4, <3>1
      <3> QED
        BY <1>2, <1>3, <3>2 DEF CloseInv, Live
    <2>2. CASE closed \/ failed \/ failed' = TRUE
      BY <1>1, <1>3, <2>2 DEF CloseInv, Live
    <2> QED
      BY <1>3, <2>1, <2>2, ZenonT(30)
  <1>8. GoawayCoversRequest'
    <2> SUFFICES ASSUME captured # NoStream, NEW i \in DOMAIN goaways'
                 PROVE  goaways'[i].last >= captured
      BY <1>3, SessionKept DEF GoawayCoversRequest
    <2>1. captured \in Nat
      BY <1>1, Limits DEF RequestOK
    <2>2. DOMAIN goaways = 1 .. Len(goaways) /\ DOMAIN goaways' = 1 .. Len(goaways')
          /\ Len(goaways) \in Nat
      BY <1>1, <1>5 DEF CloseOK
    <2>3. \A k \in 1 .. Len(goaways) : goaways[k].last >= captured
      BY <1>1, <2>2 DEF GoawayCoversRequest
    <2>4. CASE goaways' = goaways
      BY <2>2, <2>3, <2>4
    <2>5. CASE goaways' = Append(goaways, g)
      <3>1. i \in 1 .. Len(goaways) \/ i = Len(goaways) + 1
        BY <1>4, <2>2, <2>5
      <3> QED
        BY <1>2, <1>4, <2>1, <2>3, <2>5, <3>1
    <2> QED
      BY <1>3, <2>4, <2>5
  <1>9. PriorityInv'
    BY <1>3, <1>6 DEF PriorityInv, Live
  <1>10. AnswerInv'
    BY <1>3 DEF SessionInv, AnswerInv, sessionVars, unframed, answerVars
  <1> QED
    BY <1>3, <1>6, <1>7, <1>8, <1>9, <1>10, SessionKept DEF SessionInv

-----------------------------------------------------------------------------
(* The handler's own steps *)

\* MinOf is the least of two numbers,
LEMMA MinOfTwo ==
  ASSUME NEW a \in Int, NEW b \in Int
  PROVE  MinOf({a, b}) \in {a, b} /\ MinOf({a, b}) <= a /\ MinOf({a, b}) <= b
  <1>1. \E n \in {a, b} : \A m \in {a, b} : n <= m
    <2>1. CASE a <= b
      BY <2>1
    <2>2. CASE b <= a
      BY <2>2
    <2> QED
      BY <2>1, <2>2
  <1> QED
    BY <1>1 DEF MinOf

\* and of three.
LEMMA MinOfThree ==
  ASSUME NEW a \in Int, NEW b \in Int, NEW c \in Int
  PROVE  /\ MinOf({a, b, c}) \in {a, b, c}
         /\ MinOf({a, b, c}) <= a /\ MinOf({a, b, c}) <= b /\ MinOf({a, b, c}) <= c
  <1>1. \E n \in {a, b, c} : \A m \in {a, b, c} : n <= m
    <2>1. CASE a <= b /\ a <= c
      BY <2>1
    <2>2. CASE b <= a /\ b <= c
      BY <2>2
    <2>3. CASE c <= a /\ c <= b
      BY <2>3
    <2> QED
      BY <2>1, <2>2, <2>3
  <1> QED
    BY <1>1 DEF MinOf

\* What send_response sends is more than nothing and at most the credit of the
\* stream and of the connection.
LEMMA CreditTaken ==
  ASSUME SessionInv, SendData
  PROVE  \E n \in Nat \ {0} :
           /\ n <= window /\ n <= connWindow /\ n <= content - sent
           /\ sent' = sent + n /\ window' = window - n /\ connWindow' = connWindow - n
  <1>1. H2OK /\ AnswerOK
    BY TypeGroups DEF SessionInv
  <1>2. window \in Int /\ connWindow \in Int /\ MaxOutFrame \in Int /\ sent \in Int
    BY <1>1, Limits DEF H2OK, AnswerOK
  <1>3. content \in Nat /\ sent < content
    BY <1>1, <1>2, Limits DEF SessionInv, AnswerInv, AnswerOK, SendData, None
  <1>4. Available \in Int /\ Available <= window /\ Available <= connWindow
    BY <1>2, MinOfThree, ZenonT(30) DEF Available
  <1>5. Available > 0
    BY <1>4 DEF SendData, Starved
  <1> DEFINE n == MinOf({Available, content - sent})
  <1>6. n \in {Available, content - sent} /\ n <= Available /\ n <= content - sent
    BY <1>2, <1>3, <1>4, MinOfTwo
  <1>7. sent' = sent + n /\ window' = window - n /\ connWindow' = connWindow - n
    BY DEF SendData
  <1> HIDE DEF n
  <1>8. n \in Nat \ {0} /\ n <= window /\ n <= connWindow
    BY <1>2, <1>3, <1>4, <1>5, <1>6
  <1> QED
    BY <1>6, <1>7, <1>8

\* A part of the response is sent: the stream's window falls below its initial
\* size by no more than what was sent.
LEMMA SendDataStep ==
  ASSUME SessionInv, SendData
  PROVE  SessionInv'
  <1>1. PICK n \in Nat \ {0} :
          /\ n <= window /\ n <= connWindow /\ n <= content - sent
          /\ sent' = sent + n /\ window' = window - n /\ connWindow' = connWindow - n
    BY CreditTaken
  <1>2. /\ pc = "respond" /\ UNCHANGED <<pc, caller, code>>
        /\ UNCHANGED <<first, cont, block, frames, ending>>
        /\ UNCHANGED <<captured, expected, bytes, ready, early>>
        /\ UNCHANGED <<closed, goaways, failed>>
        /\ UNCHANGED <<prio, cancelled, stream, highest, initial, content, refused, continued>>
    BY DEF SendData, handlerVars, parserVars, requestVars, closeVars
  <1>3. HandlerOK /\ ParserOK /\ RequestOK /\ H2OK /\ AnswerOK /\ CloseOK /\ OtherOK
    BY TypeGroups DEF SessionInv
  <1>4. content \in Nat /\ content <= MaxContent /\ sent \in Nat
    BY <1>2, <1>3, Limits DEF SessionInv, AnswerInv, AnswerOK, None
  <1>5. window' \in -MaxContent .. MaxWindow /\ connWindow' \in 0 .. MaxWindow
    BY <1>1, <1>3, Limits DEF H2OK
  <1>6. sent' \in 0 .. MaxContent /\ sent' <= content
    BY <1>1, <1>4, Limits
  <1>7. TypeOK'
    <2>1. HandlerOK' /\ ParserOK' /\ RequestOK' /\ CloseOK' /\ OtherOK'
      BY <1>2, <1>3 DEF HandlerOK, ParserOK, RequestOK, CloseOK, OtherOK
    <2>2. H2OK'
      BY <1>2, <1>3, <1>5 DEF H2OK
    <2>3. AnswerOK'
      BY <1>2, <1>3, <1>6 DEF AnswerOK
    <2> QED
      BY <2>1, <2>2, <2>3, TypeGroupsNext
  <1>8. CloseInv' /\ GoawayCoversRequest'
    BY <1>2 DEF SessionInv, CloseInv, Live, GoawayCoversRequest
  <1>9. StreamInv' /\ RequestInv'
    BY <1>2
    DEF SessionInv, StreamInv, RequestInv, CompleteRequest, Open, OpenStreams
  <1>10. PriorityInv'
    BY <1>2, <1>7 DEF SessionInv, PriorityInv, Live
  <1>11. AnswerInv'
    BY <1>2, <1>4, <1>6 DEF SessionInv, AnswerInv, None
  <1>12. WindowInv'
    <2>1. window \in Int /\ initial \in Int
      BY <1>3, Limits DEF H2OK
    <2> SUFFICES ASSUME captured # NoStream, Open(captured) PROVE window' >= initial - sent'
      BY <1>2 DEF WindowInv, Open, OpenStreams
    <2>2. window >= initial - sent
      BY DEF SessionInv, WindowInv
    <2> QED
      BY <1>1, <1>4, <2>1, <2>2
  <1> QED
    BY <1>7, <1>8, <1>9, <1>10, <1>11, <1>12 DEF SessionInv

\* send_response begins: headers are sent, for a request that was not cancelled.
LEMMA RespondStep ==
  ASSUME SessionInv, NEW n \in 0 .. MaxContent, Respond(n)
  PROVE  SessionInv'
  <1>2. /\ pc = "ready" /\ pc' = "respond" /\ UNCHANGED <<caller, code>>
        /\ UNCHANGED <<first, cont, block, frames, ending>>
        /\ UNCHANGED <<captured, expected, bytes, ready, early>>
        /\ UNCHANGED <<closed, goaways, failed>>
        /\ UNCHANGED <<stream, highest, initial, window, connWindow>>
        /\ UNCHANGED <<prio, cancelled, sent, refused, continued>> /\ content' = n
    BY DEF Respond, Goto, parserVars, requestVars, h2Vars, closeVars
  <1>3. HandlerOK /\ ParserOK /\ RequestOK /\ H2OK /\ AnswerOK /\ CloseOK /\ OtherOK
    BY TypeGroups DEF SessionInv
  <1>4. TypeOK'
    <2>1. HandlerOK' /\ ParserOK' /\ RequestOK' /\ CloseOK' /\ OtherOK'
      BY <1>2, <1>3 DEF HandlerOK, ParserOK, RequestOK, CloseOK, OtherOK
    <2>2. H2OK'
      BY <1>2, <1>3 DEF H2OK
    <2>3. AnswerOK'
      BY <1>2, <1>3 DEF AnswerOK
    <2> QED
      BY <2>1, <2>2, <2>3, TypeGroupsNext
  <1>5. CloseInv' /\ GoawayCoversRequest'
    BY <1>2 DEF SessionInv, CloseInv, Live, GoawayCoversRequest
  <1>6. StreamInv' /\ RequestInv' /\ WindowInv'
    BY <1>2
    DEF SessionInv, StreamInv, RequestInv, CompleteRequest, WindowInv, Open, OpenStreams
  <1>7. PriorityInv'
    BY <1>2, <1>4 DEF SessionInv, PriorityInv, Live
  <1>8. AnswerInv'
    <2>1. sent = 0 /\ n # None /\ 0 <= n
      BY <1>2, Limits DEF SessionInv, AnswerInv, None
    <2> QED
      BY <1>2, <2>1 DEF AnswerInv
  <1> QED
    BY <1>4, <1>5, <1>6, <1>7, <1>8 DEF SessionInv

\* Every step of the handler itself.
LEMMA StepInv ==
  ASSUME SessionInv, Step
  PROVE  SessionInv'
  <1>0. HandlerOK /\ AnswerInv
    BY TypeGroups DEF SessionInv
  <1>1. CASE Preface \/ Read \/ ChunkEnds \/ RespondFails \/ AwaitCredit \/ Responded
             \/ Interrupt
    <2>1. /\ Live /\ UNCHANGED <<closeVars, sessionVars>> /\ pc' # "done"
          /\ pc' \in {"read", "chunk", "ready", "respond", "closing"}
          /\ caller' \in {caller, "response"}
          /\ code' \in {code, "NO_ERROR", "INTERNAL_ERROR"}
          /\ pc' = "ready" => ~cancelled /\ caller' = "request"
          /\ pc' \in {"preface", "read", "chunk", "ready"} /\ caller' = "request" =>
               pc \in {"preface", "read", "chunk"} /\ caller = "request"
          /\ pc' = "respond" \/ caller' = "response" => pc = "respond" \/ caller = "response"
      BY <1>1
      DEF Preface, Read, ChunkEnds, RespondFails, AwaitCredit, Responded, Interrupt,
                  Goto, Raise, CheckCancelled, Live
    <2>2. HandlerOK'
      BY <1>0, <2>1 DEF HandlerOK, Codes
    <2> QED
      BY <1>0, <2>1, <2>2, HandlerStep DEF AnswerInv
  <1>2. CASE PrefaceInvalid \/ ReadTooMuch
    <2>1. \E c \in Codes : FailNow(c)
      BY <1>2 DEF PrefaceInvalid, ReadTooMuch, Codes
    <2>2. Live
      BY <1>2 DEF PrefaceInvalid, ReadTooMuch, Live
    <2> QED
      BY <2>1, <2>2, FailNowStep
  <1> QED
    BY <1>1, <1>2, SendDataStep, RespondStep, CloseStep DEF Step

-----------------------------------------------------------------------------
(* Frames that the session accepts *)

\* The bookkeeping of a frame stays within MAX_CAPTURE_FRAMES.
LEMMA FrameRecorded ==
  ASSUME SessionInv, NEW f, Passes(f), Recorded \/ BlockRecorded
  PROVE  ParserOK'
  <1>1. ParserOK
    BY TypeGroups DEF SessionInv
  <1>2. frames < MaxFrames
    BY <1>1, Limits DEF ParserOK, Passes, Fault
  <1>3. frames + 1 \in 0 .. MaxFrames /\ 0 \in 0 .. MaxBlock
    BY <1>1, <1>2, Limits DEF ParserOK
  <1>4. first' = FALSE /\ frames' = frames + 1
    BY DEF Recorded, BlockRecorded
  <1>5. CASE Recorded
    BY <1>1, <1>3, <1>4, <1>5, ZenonT(30) DEF Recorded, ParserOK
  <1>6. CASE BlockRecorded
    BY <1>3, <1>4, <1>6, ZenonT(30) DEF BlockRecorded, ParserOK
  <1> QED
    BY <1>5, <1>6

\* A frame after which the handler goes on.
LEMMA FrameAccepted ==
  ASSUME SessionInv, pc = "chunk", UNCHANGED <<handlerVars, closeVars, answerVars>>,
         ParserOK', RequestOK', H2OK', OtherOK', StreamInv', RequestInv', WindowInv',
         \A s \in prio' : s > highest'
  PROVE  SessionInv'
  <1>1. UNCHANGED <<pc, caller, code, closed, goaways, failed, content, sent>>
    BY DEF handlerVars, closeVars, answerVars
  <1>2. HandlerOK' /\ CloseOK' /\ AnswerOK'
    BY <1>1, TypeGroups DEF SessionInv, HandlerOK, CloseOK, AnswerOK
  <1>3. TypeOK'
    BY <1>2, TypeGroupsNext
  <1>4. CloseInv' /\ GoawayCoversRequest'
    <2>1. goaways = << >>
      BY DEF SessionInv, CloseInv, Live
    <2> QED
      BY <1>1, <2>1 DEF SessionInv, CloseInv, Live, GoawayCoversRequest
  <1>5. AnswerInv'
    BY <1>1 DEF SessionInv, AnswerInv
  <1>6. PriorityInv'
    BY <1>3 DEF PriorityInv
  <1> QED
    BY <1>3, <1>4, <1>5, <1>6 DEF SessionInv

\* The state that frames which are not recorded by the parser build on.
LEMMA FrameFacts ==
  ASSUME SessionInv, pc = "chunk"
  PROVE  /\ RequestOK /\ H2OK /\ OtherOK /\ StreamInv /\ RequestInv /\ WindowInv
         /\ \A s \in prio : s > highest
         /\ captured \in Nat /\ highest \in Nat /\ captured <= highest
         /\ \A s \in Streams : s \in Nat /\ s # NoStream
  <1>1. RequestOK /\ H2OK /\ OtherOK
    BY TypeGroups DEF SessionInv
  <1>2. captured \in Nat /\ highest \in Nat
    BY <1>1, Limits DEF RequestOK, H2OK
  <1> QED
    BY <1>1, <1>2, Limits DEF SessionInv, PriorityInv, Live, StreamInv

\* A frame that only the parser records.
LEMMA UnframedStep ==
  ASSUME SessionInv, pc = "chunk", ParserOK', UNCHANGED <<handlerVars, closeVars, unframed>>
  PROVE  SessionInv'
  <1>1. /\ UNCHANGED <<captured, expected, bytes, ready, early>>
        /\ UNCHANGED <<stream, highest, initial, window, connWindow>>
        /\ UNCHANGED <<prio, cancelled, refused, continued, sent>> /\ UNCHANGED answerVars
    BY DEF unframed, requestVars, h2Vars, answerVars
  <1>2. RequestOK' /\ H2OK' /\ OtherOK'
    BY <1>1, FrameFacts, ZenonT(30) DEF RequestOK, H2OK, OtherOK
  <1>3. StreamInv' /\ RequestInv' /\ WindowInv'
    BY <1>1, FrameFacts
    DEF StreamInv, RequestInv, CompleteRequest, WindowInv, Open, OpenStreams
  <1>4. \A s \in prio' : s > highest'
    BY <1>1, FrameFacts
  <1> QED
    BY <1>1, <1>2, <1>3, <1>4, FrameAccepted

\* A stream ends: one open stream less, and the request stays as it is.
LEMMA ResetStep ==
  ASSUME SessionInv, pc = "chunk", ParserOK', UNCHANGED <<handlerVars, closeVars, answerVars>>,
         NEW s \in Streams, Open(s), stream' = [stream EXCEPT ![s] = "reset"],
         cancelled' \in BOOLEAN,
         UNCHANGED <<prio, requestVars, highest, initial, window, connWindow, refused, continued>>
  PROVE  SessionInv'
  <1>0. RequestOK /\ H2OK /\ OtherOK /\ StreamInv /\ RequestInv /\ WindowInv
    BY FrameFacts
  <1>1. UNCHANGED <<captured, expected, bytes, ready, early, sent>>
    BY DEF requestVars, answerVars
  <1>2. RequestOK' /\ H2OK' /\ OtherOK'
    BY <1>0, <1>1 DEF RequestOK, H2OK, OtherOK
  <1>3. s = captured /\ \A t \in Streams : stream'[t] = IF t = s THEN "reset" ELSE stream[t]
    BY <1>0 DEF StreamInv, H2OK
  <1>4. OpenStreams(stream') \subseteq OpenStreams(stream)
    BY <1>3 DEF OpenStreams
  <1>5. StreamInv'
    <2>1. s <= highest
      BY <1>0 DEF StreamInv, Open, OpenStreams
    <2>2. \A t \in Streams : Open(t)' => Open(t)
      BY <1>4 DEF Open
    <2> QED
      BY <1>0, <1>1, <1>3, <2>1, <2>2 DEF StreamInv
  <1>6. RequestInv'
    BY <1>0, <1>1, <1>3 DEF RequestInv, CompleteRequest
  <1>7. WindowInv'
    BY <1>0, <1>1, <1>4 DEF WindowInv, Open
  <1>8. \A t \in prio' : t > highest'
    BY FrameFacts
  <1> QED
    BY <1>1, <1>2, <1>5, <1>6, <1>7, <1>8, FrameAccepted

-----------------------------------------------------------------------------
(* Frames that are not part of a request *)

\* apply_settings moves the window of the open stream, by no more than it has
\* sent below zero.
LEMMA SettingsStep ==
  ASSUME SessionInv, pc = "chunk", NEW f \in OtherFrames, Settings(f)
  PROVE  SessionInv'
  <1> DEFINE moved == IF Open(captured) THEN window + f.window - initial ELSE window
  <1>1. CASE H2Fails("FLOW_CONTROL_ERROR")
    BY <1>1, H2FailsStep, ZenonT(30) DEF Codes, Live
  <1>2. CASE /\ moved <= MaxWindow /\ Accepted
             /\ initial' = f.window /\ window' = moved
             /\ UNCHANGED <<prio, requestVars, cancelled, stream, highest,
                            connWindow, answerVars, refused, continued>>
    <2>1. RequestOK /\ H2OK /\ OtherOK /\ StreamInv /\ RequestInv /\ WindowInv /\ AnswerOK
      BY FrameFacts, TypeGroups DEF SessionInv
    <2>2. /\ UNCHANGED <<captured, expected, bytes, ready, early, sent>>
          /\ UNCHANGED <<stream, highest, connWindow, prio, cancelled, refused, continued>>
      BY <1>2 DEF requestVars, answerVars
    <2>3. f.window \in 0 .. MaxWindow /\ f.type = "SETTINGS" /\ Passes(f)
      BY OtherTypes DEF Settings
    <2>4. Open(captured) => captured # NoStream
      BY Limits DEF Open, OpenStreams
    <2>5. /\ window \in -MaxContent .. MaxWindow /\ initial \in 0 .. MaxWindow
          /\ sent \in 0 .. MaxContent /\ (Open(captured) => window >= initial - sent)
      BY <2>1, <2>4, ZenonT(30) DEF H2OK, AnswerOK, WindowInv
    <2>6. moved \in -MaxContent .. MaxWindow
      BY <1>2, <2>3, <2>5, Limits
    <2>7. Open(captured) => moved >= f.window - sent
      BY <2>3, <2>5, Limits
    <2>8. RequestOK' /\ OtherOK'
      BY <2>1, <2>2, ZenonT(30) DEF RequestOK, OtherOK
    <2>9. H2OK'
      BY <1>2, <2>1, <2>2, <2>3, <2>6, ZenonT(30) DEF H2OK
    <2>10. StreamInv' /\ RequestInv'
      BY <2>1, <2>2, ZenonT(30)
      DEF StreamInv, RequestInv, CompleteRequest, Open, OpenStreams
    <2>11. WindowInv'
      BY <1>2, <2>2, <2>7 DEF WindowInv, Open, OpenStreams
    <2>12. \A s \in prio' : s > highest'
      BY <2>2, FrameFacts, ZenonT(30)
    <2>13. ParserOK'
      BY <1>2, <2>3, FrameRecorded, ZenonT(30) DEF Accepted
    <2> QED
      BY <1>2, <2>2, <2>8, <2>9, <2>10, <2>11, <2>12, <2>13, FrameAccepted DEF Accepted
  <1> QED
    BY <1>1, <1>2 DEF Settings

\* A failing GOAWAY of the peer cancels, nothing else.
LEMMA PeerGoawayStep ==
  ASSUME SessionInv, pc = "chunk", NEW f \in OtherFrames, PeerGoaway(f)
  PROVE  SessionInv'
  <1>1. /\ UNCHANGED <<captured, expected, bytes, ready, early>>
        /\ UNCHANGED <<stream, highest, initial, window, connWindow>>
        /\ UNCHANGED <<prio, refused, continued, sent>> /\ UNCHANGED answerVars
    BY DEF PeerGoaway, requestVars, h2Vars, answerVars
  <1>2. cancelled' \in BOOLEAN
    BY ZenonT(30) DEF PeerGoaway
  <1>3. RequestOK' /\ H2OK' /\ OtherOK'
    BY <1>1, <1>2, FrameFacts, ZenonT(30) DEF RequestOK, H2OK, OtherOK
  <1>4. StreamInv' /\ RequestInv' /\ WindowInv'
    BY <1>1, FrameFacts
    DEF StreamInv, RequestInv, CompleteRequest, WindowInv, Open, OpenStreams
  <1>5. \A s \in prio' : s > highest'
    BY <1>1, FrameFacts
  <1>6. ParserOK'
    BY FrameRecorded, ZenonT(30) DEF PeerGoaway, Accepted
  <1> QED
    BY <1>1, <1>3, <1>4, <1>5, <1>6, FrameAccepted, ZenonT(30) DEF PeerGoaway, Accepted

\* PRIORITY_UPDATE adds an idle stream only within the limit.
LEMMA PriorityUpdateStep ==
  ASSUME SessionInv, pc = "chunk", NEW f \in OtherFrames, PriorityUpdate(f)
  PROVE  SessionInv'
  <1> DEFINE targets == IF f.stream > highest THEN prio \cup {f.stream} ELSE prio
             checked == f.stream > highest \/ Open(f.stream)
  <1>1. CASE FailNow("PROTOCOL_ERROR")
    BY <1>1, FailNowStep, ZenonT(30) DEF Codes, Live
  <1>2. CASE /\ ~(checked /\ PriorityExceeded(targets, stream))
             /\ Accepted
             /\ prio' = targets
             /\ UNCHANGED <<requestVars, cancelled, h2Vars, answerVars, refused, continued>>
    <2>1. f.stream \in Streams /\ Passes(f)
      BY OtherTypes, ZenonT(30) DEF PriorityUpdate
    <2>2. /\ UNCHANGED <<captured, expected, bytes, ready, early>>
          /\ UNCHANGED <<stream, highest, initial, window, connWindow>>
          /\ UNCHANGED <<cancelled, refused, continued, sent>> /\ UNCHANGED answerVars
      BY <1>2 DEF requestVars, h2Vars, answerVars
    <2>3. targets \subseteq Streams /\ \A s \in targets : s > highest
      BY <2>1, FrameFacts, ZenonT(30) DEF OtherOK
    <2>5. RequestOK' /\ H2OK' /\ OtherOK'
      BY <1>2, <2>2, <2>3, FrameFacts, ZenonT(30) DEF RequestOK, H2OK, OtherOK
    <2>6. StreamInv' /\ RequestInv' /\ WindowInv'
      BY <2>2, FrameFacts, ZenonT(30)
      DEF StreamInv, RequestInv, CompleteRequest, WindowInv, Open, OpenStreams
    <2>7. \A s \in prio' : s > highest'
      BY <1>2, <2>2, <2>3, ZenonT(30)
    <2>8. ParserOK'
      BY <1>2, <2>1, FrameRecorded DEF Accepted
    <2> QED
      BY <1>2, <2>2, <2>5, <2>6, <2>7, <2>8, FrameAccepted, ZenonT(30) DEF Accepted
  <1> QED
    BY <1>1, <1>2 DEF PriorityUpdate

-----------------------------------------------------------------------------
(* Frames on streams *)

\* The peer or h2 resets an open stream.
LEMMA StreamResetStep ==
  ASSUME SessionInv, pc = "chunk", NEW f, f.stream \in Streams, Open(f.stream),
         Passes(f), StreamReset(f)
  PROVE  SessionInv'
  <1>1. ParserOK'
    BY FrameRecorded DEF StreamReset, Accepted
  <1>2. cancelled' \in BOOLEAN
    BY DEF StreamReset
  <1> QED
    BY <1>1, <1>2, ResetStep, ZenonT(30) DEF StreamReset, Accepted

\* The session takes a frame that changes nothing.
LEMMA UnaffectedStep ==
  ASSUME SessionInv, pc = "chunk", NEW f, Passes(f), Accepted, UNCHANGED unframed
  PROVE  SessionInv'
  BY FrameRecorded, UnframedStep, ZenonT(30) DEF Accepted

\* Windows and counts of bytes are numbers.
LEMMA WindowsAreNumbers ==
  /\ -MaxContent .. MaxWindow \subseteq Int
  /\ 0 .. MaxWindow \subseteq Int /\ 0 .. MaxContent \subseteq Int
  BY LimitsAssumption

\* An increment that does not exceed the largest window leads to a window.
LEMMA WindowGrows ==
  ASSUME NEW w \in -MaxContent .. MaxWindow, NEW c \in 0 .. MaxWindow,
         NEW i \in 1 .. MaxWindow
  PROVE  /\ w + i <= MaxWindow => w + i \in -MaxContent .. MaxWindow /\ w + i >= w
         /\ c + i <= MaxWindow => c + i \in 0 .. MaxWindow
         /\ w >= w
  <1>1. /\ MaxContent \in Nat /\ MaxWindow \in Nat
        /\ w \in Int /\ c \in Nat /\ i \in Nat /\ -MaxContent <= w
    BY LimitsAssumption
  <1>2. w + i <= MaxWindow => w + i \in -MaxContent .. MaxWindow /\ w + i >= w
    BY <1>1
  <1>3. c + i <= MaxWindow => c + i \in 0 .. MaxWindow
    BY <1>1
  <1>4. w >= w
    BY <1>1
  <1> QED
    BY <1>2, <1>3, <1>4, Zenon

\* WINDOW_UPDATE on a stream or on the connection.
LEMMA WindowUpdateStep ==
  ASSUME SessionInv, pc = "chunk", NEW f \in OtherFrames, WindowUpdate(f)
  PROVE  SessionInv'
  <1>1. /\ f.stream \in Streams \cup {NoStream} /\ f.increment \in 1 .. MaxWindow
        /\ Passes(f)
    BY OtherTypes DEF WindowUpdate
  <1>2. Open(f.stream) => f.stream \in Streams /\ f.stream = captured
    BY FrameFacts DEF Open, OpenStreams, StreamInv
  <1>3. H2OK /\ WindowInv
    BY FrameFacts
  <1> /\ window \in -MaxContent .. MaxWindow
      /\ connWindow \in 0 .. MaxWindow /\ initial \in 0 .. MaxWindow
    BY <1>3, ZenonT(30) DEF H2OK
  <1>4. CASE H2Fails("FLOW_CONTROL_ERROR") \/ H2Fails("PROTOCOL_ERROR")
    BY <1>4, H2FailsStep, ZenonT(30) DEF Codes, Live
  <1>5. CASE Open(f.stream) /\ StreamReset(f)
    BY <1>1, <1>2, <1>5, StreamResetStep
  <1>6. CASE Unaffected(f)
    BY <1>1, <1>6, UnaffectedStep, ZenonT(30) DEF Unaffected
  <1>7. ASSUME Accepted, window' \in -MaxContent .. MaxWindow, window' >= window,
               connWindow' \in 0 .. MaxWindow,
               UNCHANGED <<prio, requestVars, cancelled, stream, highest, initial,
                           answerVars, refused, continued>>
        PROVE  SessionInv'
    <2>1. /\ UNCHANGED <<captured, expected, bytes, ready, early, sent>>
          /\ UNCHANGED <<stream, highest, initial, prio, cancelled, refused, continued>>
          /\ UNCHANGED answerVars
      BY <1>7, ZenonT(30) DEF requestVars, answerVars
    <2>2. RequestOK' /\ OtherOK'
      BY <2>1, FrameFacts, ZenonT(30) DEF RequestOK, OtherOK
    <2>3. H2OK'
      BY <1>3, <1>7, <2>1, ZenonT(30) DEF H2OK
    <2>4. StreamInv' /\ RequestInv'
      BY <2>1, FrameFacts, ZenonT(30)
      DEF StreamInv, RequestInv, CompleteRequest, Open, OpenStreams
    <2>5. WindowInv'
      <3>1. sent \in 0 .. MaxContent
        BY TypeGroups, ZenonT(30) DEF SessionInv, AnswerOK
      <3>2. window \in Int /\ window' \in Int /\ initial \in Int /\ sent \in Int
        BY <1>7, <3>1, WindowsAreNumbers, ZenonT(30)
      <3> QED
        BY <1>3, <1>7, <2>1, <3>2 DEF WindowInv, Open, OpenStreams
    <2>6. \A s \in prio' : s > highest'
      BY <2>1, FrameFacts
    <2>7. ParserOK'
      BY <1>1, <1>7, FrameRecorded DEF Accepted
    <2> QED
      BY <1>7, <2>1, <2>2, <2>3, <2>4, <2>5, <2>6, <2>7, FrameAccepted, ZenonT(30)
      DEF Accepted
  <1>8. CASE /\ connWindow + f.increment <= MaxWindow
             /\ Accepted
             /\ connWindow' = connWindow + f.increment
             /\ UNCHANGED <<prio, requestVars, cancelled, stream, highest, initial,
                            window, answerVars, refused, continued>>
    <2>1. /\ connWindow' \in 0 .. MaxWindow
          /\ window' \in -MaxContent .. MaxWindow /\ window' >= window
      <3>1. connWindow' = connWindow + f.increment /\ window' = window
        BY <1>8, ZenonT(30)
      <3> QED
        <4>1. connWindow + f.increment \in 0 .. MaxWindow /\ window >= window
          BY <1>1, <1>8, WindowGrows, ZenonT(30)
        <4> QED
          BY <3>1, <4>1, ZenonT(30)
    <2> QED
      BY <1>7, <1>8, <2>1, ZenonT(30)
  <1>9. CASE /\ window + f.increment <= MaxWindow
             /\ Accepted
             /\ window' = window + f.increment
             /\ UNCHANGED <<prio, requestVars, cancelled, stream, highest, initial,
                            connWindow, answerVars, refused, continued>>
    <2>1. /\ connWindow' \in 0 .. MaxWindow
          /\ window' \in -MaxContent .. MaxWindow /\ window' >= window
      <3>1. window' = window + f.increment /\ connWindow' = connWindow
        BY <1>9, ZenonT(30)
      <3> QED
        BY <1>1, <1>9, <3>1, WindowGrows, ZenonT(30)
    <2> QED
      BY <1>7, <1>9, <2>1, ZenonT(30)
  <1> QED
    BY <1>4, <1>5, <1>6, <1>8, <1>9, ZenonT(30) DEF WindowUpdate

\* The open stream ends, or goes on, with n request bytes; the request is ready
\* if it ends with the length it declared.
LEMMA BodyStep ==
  ASSUME SessionInv, pc = "chunk", ParserOK', UNCHANGED <<handlerVars, closeVars, answerVars>>,
         NEW s \in Streams, stream[s] = "open", NEW end \in BOOLEAN,
         stream' = [stream EXCEPT ![s] = IF end THEN "half" ELSE "open"],
         bytes' \in 0 .. MaxBody, ready' \in BOOLEAN, ready' <=> ready \/ end,
         end => expected \in {None, bytes'}, ready /\ ~early => bytes' = bytes,
         UNCHANGED <<prio, captured, expected, early, cancelled, highest, initial,
                     window, connWindow, refused, continued>>
  PROVE  SessionInv'
  <1>1. RequestOK /\ H2OK /\ OtherOK /\ StreamInv /\ RequestInv /\ WindowInv
    BY FrameFacts
  <1>2. UNCHANGED sent
    BY ZenonT(30) DEF answerVars
  <1>3. RequestOK' /\ H2OK' /\ OtherOK'
    BY <1>1, ZenonT(30) DEF RequestOK, H2OK, OtherOK
  <1>4. Open(s) /\ s = captured /\ captured # NoStream
    BY <1>1, FrameFacts, ZenonT(30) DEF StreamInv, Open, OpenStreams
  <1>5. /\ \A t \in Streams :
             stream'[t] = IF t = s THEN IF end THEN "half" ELSE "open" ELSE stream[t]
        /\ stream'[s] \in {"half", "open"}
    BY <1>1 DEF H2OK
  <1>6. OpenStreams(stream') = OpenStreams(stream)
    BY <1>5, ZenonT(30) DEF OpenStreams
  <1>7. StreamInv'
    BY <1>1, <1>4, <1>5, <1>6, ZenonT(30) DEF StreamInv, Open
  <1>8. RequestInv'
    <2>1. CASE end
      BY <1>4, <1>5, <2>1, ZenonT(30) DEF RequestInv, CompleteRequest
    <2>2. CASE ~end
      <3>1. stream[captured] = "open"
        BY <1>4
      <3>2. ~(ready /\ ~early)
        BY <1>1, <3>1, ZenonT(30) DEF RequestInv, CompleteRequest
      <3> QED
        BY <1>4, <2>2, <3>2 DEF RequestInv, CompleteRequest
    <2> QED
      BY <2>1, <2>2, ZenonT(30)
  <1>9. WindowInv'
    BY <1>1, <1>2, <1>6 DEF WindowInv, Open
  <1>10. \A t \in prio' : t > highest'
    BY FrameFacts, ZenonT(30)
  <1> QED
    BY <1>3, <1>7, <1>8, <1>9, <1>10, FrameAccepted, ZenonT(30)

\* DATA, for the request or for a stream that is over.
LEMMA DataStep ==
  ASSUME SessionInv, pc = "chunk", NEW f \in OtherFrames, Data(f)
  PROVE  SessionInv'
  <1>1. /\ f.stream \in Streams /\ f.length \in 0 .. MaxBody + 1
        /\ f.endStream \in BOOLEAN /\ Passes(f)
    BY OtherTypes DEF Data
  <1>2. CASE H2Fails("PROTOCOL_ERROR")
    BY <1>2, H2FailsStep DEF Codes, Live
  <1>3. CASE FailNow("ENHANCE_YOUR_CALM")
    BY <1>3, FailNowStep DEF Codes, Live
  <1>4. CASE Unaffected(f)
    BY <1>1, <1>4, UnaffectedStep, ZenonT(30) DEF Unaffected
  <1>5. CASE stream[f.stream] = "half" /\ StreamReset(f)
    BY <1>1, <1>5, StreamResetStep DEF Open, OpenStreams
  <1>6. CASE /\ stream[f.stream] = "open" /\ BodyFits(f)
             /\ bytes + f.length <= MaxBody
             /\ Accepted
             /\ bytes' = bytes + f.length
             /\ ready' = (ready \/ f.endStream)
             /\ stream' = [stream EXCEPT ![f.stream] =
                             IF f.endStream THEN "half" ELSE "open"]
             /\ UNCHANGED <<prio, captured, expected, early, cancelled, highest,
                            initial, window, connWindow, answerVars, refused,
                            continued>>
    <2>1. bytes \in 0 .. MaxBody /\ RequestInv /\ StreamInv
      BY FrameFacts, ZenonT(30) DEF RequestOK
    <2>2. bytes' \in 0 .. MaxBody
      BY <1>1, <1>6, <2>1, Limits
    <2>3. f.endStream => expected \in {None, bytes'}
      BY <1>6, ZenonT(30) DEF BodyFits
    <2>4. ~(ready /\ ~early)
      BY <1>1, <1>6, <2>1, ZenonT(30)
      DEF RequestInv, CompleteRequest, StreamInv, Open, OpenStreams
    <2>5. ParserOK'
      BY <1>1, <1>6, FrameRecorded DEF Accepted
    <2>6. ready' \in BOOLEAN /\ (ready' <=> ready \/ f.endStream)
      BY <1>6, ZenonT(30)
    <2> QED
      BY <1>1, <1>6, <2>2, <2>3, <2>4, <2>5, <2>6, BodyStep, ZenonT(30) DEF Accepted
  <1> QED
    BY <1>2, <1>3, <1>4, <1>5, <1>6, ZenonT(30) DEF Data

\* Every frame that is not part of a header block.
LEMMA OtherStepInv ==
  ASSUME SessionInv, pc = "chunk", NEW f \in OtherFrames, OtherStep(f)
  PROVE  SessionInv'
  <1>1. CASE Advisory(f)
    BY <1>1, UnaffectedStep DEF Advisory
  <1>2. CASE SettingsRefused(f) \/ DataOverrun(f)
    BY <1>2, H2FailsStep DEF SettingsRefused, DataOverrun, Codes, Live
  <1>3. CASE RstStream(f)
    <2>1. f.stream \in Streams /\ Passes(f)
      BY <1>3, OtherTypes DEF RstStream
    <2> QED
      BY <1>3, <2>1, StreamResetStep, UnaffectedStep, ZenonT(30) DEF RstStream, Unaffected
  <1> QED
    BY <1>1, <1>2, <1>3, SettingsStep, PeerGoawayStep, PriorityUpdateStep,
       WindowUpdateStep,
       DataStep DEF OtherStep

-----------------------------------------------------------------------------
(* Header blocks *)

\* A fragment is collected within MAX_HEADER_LIST_SIZE.
LEMMA FragmentStep ==
  ASSUME SessionInv, pc = "chunk", NEW f \in Blocks, Fragment(f)
  PROVE  SessionInv'
  <1>1. ParserOK
    BY TypeGroups, ZenonT(30) DEF SessionInv
  <1>2. Passes(f) /\ BlockFrame(f) /\ f.stream \in Streams
    BY BlockTypes DEF Fragment
  <1>3. frames < MaxFrames /\ block + 1 <= MaxBlock
    BY <1>1, <1>2, Limits DEF ParserOK, Passes, Fault, BlockTooLong
  <1>4. frames + 1 \in 0 .. MaxFrames /\ block + 1 \in 0 .. MaxBlock
    <2>1. frames \in 0 .. MaxFrames /\ block \in 0 .. MaxBlock
      BY <1>1, ZenonT(30) DEF ParserOK
    <2> QED
      BY <1>3, <2>1, Limits
  <1>5. ending' \in BOOLEAN
    BY <1>1, BlockTypes DEF Fragment, EndStream, ParserOK
  <1>6. first' = FALSE /\ frames' = frames + 1 /\ cont' = f.stream /\ block' = block + 1
    BY DEF Fragment
  <1>7. ParserOK'
    BY <1>2, <1>4, <1>5, <1>6, ZenonT(30) DEF ParserOK
  <1> QED
    BY <1>7, UnframedStep DEF Fragment, unframed

\* A block that h2 raises on.
LEMMA BlockErrorStep ==
  ASSUME SessionInv, pc = "chunk", NEW f \in Blocks, BlockError(f)
  PROVE  SessionInv'
  <1>1. \E c \in Codes : H2Fails(c)
    BY DEF BlockError, Codes
  <1> QED
    BY <1>1, H2FailsStep DEF Live

\* A block on a stream that is over.
LEMMA LateBlockStep ==
  ASSUME SessionInv, pc = "chunk", NEW f \in Blocks, LateBlock(f)
  PROVE  SessionInv'
  <1>1. Passes(f) /\ f.stream \in Streams /\ BlockRecorded
    BY BlockTypes DEF LateBlock, Block, BlockAccepted
  <1>2. ParserOK'
    BY <1>1, FrameRecorded
  <1>3. CASE /\ Block(f, "half") /\ BlockAccepted
             /\ stream' = [stream EXCEPT ![f.stream] = "reset"]
             /\ cancelled' = (cancelled \/ f.stream = captured)
             /\ UNCHANGED <<prio, requestVars, highest, initial, window, connWindow,
                            answerVars, refused, continued>>
    <2>1. Open(f.stream)
      BY <1>1, <1>3 DEF Block, Open, OpenStreams
    <2>2. cancelled' \in BOOLEAN
      BY <1>3
    <2> QED
      BY <1>1, <1>2, <1>3, <2>1, <2>2, ResetStep, ZenonT(30) DEF BlockAccepted
  <1>4. CASE BlockAccepted /\ UNCHANGED unframed
    BY <1>2, <1>4, UnframedStep DEF BlockAccepted
  <1> QED
    BY <1>3, <1>4, ZenonT(30) DEF LateBlock

\* Trailers end the request's stream.
LEMMA TrailersStep ==
  ASSUME SessionInv, pc = "chunk", NEW f \in Blocks, Trailers(f)
  PROVE  SessionInv'
  <1>1. CASE FailNow("PROTOCOL_ERROR")
    BY <1>1, FailNowStep DEF Codes, Live
  <1>2. CASE /\ LengthMatches(bytes)
             /\ BlockAccepted
             /\ stream' = [stream EXCEPT ![f.stream] = "half"]
             /\ ready' = TRUE
             /\ UNCHANGED <<prio, captured, expected, bytes, early, cancelled,
                            highest, initial, window, connWindow, answerVars,
                            refused, continued>>
    <2>1. Passes(f) /\ f.stream \in Streams /\ stream[f.stream] = "open"
      BY BlockTypes DEF Trailers, Block
    <2>2. ParserOK'
      BY <1>2, <2>1, FrameRecorded DEF BlockAccepted
    <2>3. bytes' \in 0 .. MaxBody /\ bytes' = bytes
      BY <1>2, FrameFacts DEF RequestOK
    <2>4. expected \in {None, bytes'}
      BY <1>2, <2>3 DEF LengthMatches
    <2>5. ready' \in BOOLEAN /\ (ready' <=> ready \/ TRUE)
      BY <1>2
    <2>6. stream' = [stream EXCEPT ![f.stream] = IF TRUE THEN "half" ELSE "open"]
      BY <1>2
    <2> QED
      BY <1>2, <2>1, <2>2, <2>3, <2>4, <2>5, <2>6, BodyStep, ZenonT(30) DEF BlockAccepted
  <1> QED
    BY <1>1, <1>2, ZenonT(30) DEF Trailers

\* Opening a stream above the highest one leaves only higher streams idle.
LEMMA TargetsAbove ==
  ASSUME NEW s \in Streams, prio \subseteq Streams
  PROVE  Targets(s) \subseteq prio /\ \A p \in Targets(s) : p > s
  BY DEF Targets

\* Another request is refused: its stream is reset at once.
LEMMA RefusedStep ==
  ASSUME SessionInv, pc = "chunk", NEW f \in Blocks, RequestRefused(f)
  PROVE  SessionInv'
  <1>1. RequestOK /\ H2OK /\ OtherOK /\ StreamInv /\ RequestInv /\ WindowInv
    BY FrameFacts, ZenonT(30)
  <1>2. /\ Passes(f) /\ f.stream \in Streams /\ stream[f.stream] = "idle"
        /\ f.stream > highest /\ captured # NoStream
    BY BlockTypes DEF RequestRefused, Request, Block
  <1>3. /\ UNCHANGED <<captured, expected, bytes, ready, early>>
        /\ UNCHANGED <<initial, window, connWindow, cancelled, continued, sent>>
        /\ UNCHANGED answerVars
        /\ prio' = Targets(f.stream) /\ highest' = f.stream
        /\ refused' = refused \cup {f.stream}
        /\ stream' = [stream EXCEPT ![f.stream] = "reset"]
    BY DEF RequestRefused, requestVars, answerVars
  <1>4. \A t \in Streams : stream'[t] = IF t = f.stream THEN "reset" ELSE stream[t]
    BY <1>1, <1>3 DEF H2OK
  <1>5. OpenStreams(stream') = OpenStreams(stream)
    BY <1>2, <1>4 DEF OpenStreams
  <1>6. RequestOK' /\ H2OK' /\ OtherOK'
    <2>1. RequestOK' /\ H2OK'
      BY <1>1, <1>2, <1>3 DEF RequestOK, H2OK
    <2>2. OtherOK'
      BY <1>1, <1>2, <1>3, TargetsAbove, ZenonT(30) DEF OtherOK
    <2> QED
      BY <2>1, <2>2
  <1>7. captured \in Nat /\ highest \in Nat /\ f.stream \in Nat /\ captured <= highest
    BY <1>2, FrameFacts
  <1>8. StreamInv'
    <2>1. captured' <= highest'
      BY <1>2, <1>3, <1>7
    <2>2. captured' \in Streams /\ stream'[captured'] # "idle"
      BY <1>1, <1>2, <1>3, <1>4, ZenonT(30) DEF StreamInv, RequestOK
    <2>3. ASSUME NEW t \in Streams, stream'[t] # "idle"
          PROVE  t <= highest'
      <3>1. t = f.stream \/ t <= highest
        BY <1>1, <1>4, <2>3 DEF StreamInv
      <3>2. t \in Nat
        BY FrameFacts
      <3> QED
        BY <1>2, <1>3, <1>7, <3>1, <3>2
    <2>4. \A t \in Streams : Open(t)' => t = captured'
      BY <1>1, <1>3, <1>5, ZenonT(30) DEF StreamInv, Open
    <2> QED
      BY <2>1, <2>2, <2>3, <2>4, ZenonT(30) DEF StreamInv
  <1>9. RequestInv'
    <2>1. captured \in Streams /\ stream'[captured] = stream[captured]
      BY <1>1, <1>2, <1>4, ZenonT(30) DEF StreamInv, RequestOK
    <2> QED
      BY <1>1, <1>2, <1>3, <2>1, ZenonT(30) DEF RequestInv, CompleteRequest
  <1>10. WindowInv'
    BY <1>1, <1>3, <1>5 DEF WindowInv, Open
  <1>11. \A p \in prio' : p > highest'
    BY <1>1, <1>2, <1>3, TargetsAbove, ZenonT(30) DEF OtherOK
  <1>12. ParserOK'
    BY <1>2, FrameRecorded, ZenonT(30) DEF RequestRefused, BlockAccepted
  <1> QED
    BY <1>3, <1>6, <1>8, <1>9, <1>10, <1>11, <1>12, FrameAccepted, ZenonT(30)
    DEF RequestRefused, BlockAccepted

\* The first request is captured.  Its declared length and its end are checked
\* before it can be ready, and a GOAWAY sent for it covers it.
LEMMA CapturedStep ==
  ASSUME SessionInv, pc = "chunk", NEW f \in Blocks, RequestCaptured(f)
  PROVE  SessionInv'
  <1> DEFINE tooLong == f.fields.length > MaxBody
             wrong   == EndStream(f) /\ f.fields.length \notin {None, 0}
  <1>1. RequestOK /\ H2OK /\ OtherOK /\ StreamInv /\ RequestInv /\ WindowInv
    BY FrameFacts
  <1>2. /\ Passes(f) /\ f.stream \in Streams /\ stream[f.stream] = "idle"
        /\ f.stream > highest /\ captured = NoStream
        /\ f.fields.length \in {None} \cup 0 .. MaxBody + 1
    BY BlockTypes, ZenonT(30) DEF RequestCaptured, Request, Block
  <1>3. /\ BlockRecorded /\ prio' = Targets(f.stream) /\ stream' = Opened(f)
        /\ highest' = f.stream /\ window' = initial /\ captured' = f.stream
        /\ expected' = f.fields.length
        /\ UNCHANGED <<bytes, cancelled, initial, connWindow, refused>>
        /\ UNCHANGED answerVars /\ UNCHANGED sent
    BY DEF RequestCaptured, answerVars
  <1>4. EndStream(f) \in BOOLEAN
    BY TypeGroups, BlockTypes, ZenonT(30) DEF SessionInv, ParserOK, EndStream
  <1>5. /\ early' = (~tooLong /\ f.fields.kind \in {"unmet", "connect"})
        /\ ready' = (early' \/ (EndStream(f) /\ ~tooLong /\ ~wrong))
        /\ continued' = (~tooLong /\ ~EndStream(f) /\ f.fields.kind = "continue")
    BY DEF RequestCaptured
  <1>6. early' \in BOOLEAN /\ ready' \in BOOLEAN /\ continued' \in BOOLEAN
    BY <1>5
  <1>7. ready' /\ ~early' => EndStream(f) /\ f.fields.length \in {None, 0}
    BY <1>5, ZenonT(30)
  <1>8. /\ \A t \in Streams :
             stream'[t] = IF t = f.stream THEN IF EndStream(f) THEN "half" ELSE "open"
                                          ELSE stream[t]
        /\ stream' \in [Streams -> {"idle", "open", "half", "reset"}]
    BY <1>1, <1>2, <1>3 DEF H2OK, Opened
  <1> HIDE DEF tooLong, wrong
  <1>9. f.stream \in Nat /\ f.stream # NoStream /\ highest \in Nat /\ bytes = 0
    BY <1>1, <1>2, FrameFacts, ZenonT(30) DEF RequestInv
  <1>10. RequestOK'
    BY <1>1, <1>2, <1>3, <1>6, ZenonT(30) DEF RequestOK
  <1>11. H2OK'
    <2>1. initial \in -MaxContent .. MaxWindow
      BY <1>1, Limits DEF H2OK
    <2>2. /\ highest' = f.stream /\ window' = initial
          /\ initial' = initial /\ connWindow' = connWindow
      BY <1>3
    <2>3. initial \in 0 .. MaxWindow /\ connWindow \in 0 .. MaxWindow
      BY <1>1 DEF H2OK
    <2>4. f.stream \in Streams
      BY <1>2
    <2> QED
      BY <1>8, <2>1, <2>2, <2>3, <2>4, ZenonT(30) DEF H2OK
  <1>12. OtherOK'
    BY <1>1, <1>2, <1>3, <1>6, TargetsAbove, ZenonT(30) DEF OtherOK
  <1>13. StreamInv'
    <2>1. captured' <= highest' /\ stream'[captured'] # "idle"
      <3>1. captured' = f.stream /\ highest' = f.stream
        BY <1>3
      <3>2. stream'[f.stream] # "idle"
        BY <1>2, <1>8
      <3> QED
        BY <1>9, <3>1, <3>2
    <2>2. ASSUME NEW t \in Streams, stream'[t] # "idle"
          PROVE  t <= highest'
      <3>1. t = f.stream \/ t <= highest
        BY <1>1, <1>8, <2>2, ZenonT(30) DEF StreamInv
      <3>2. t \in Nat
        BY FrameFacts
      <3>3. highest' = f.stream /\ f.stream > highest
        BY <1>2, <1>3
      <3> QED
        BY <1>9, <3>1, <3>2, <3>3
    <2>3. ASSUME NEW t \in Streams, Open(t)'
          PROVE  t = captured'
      <3>1. stream'[t] \in {"open", "half"}
        BY <2>3 DEF Open, OpenStreams
      <3>2. SUFFICES ASSUME t # f.stream PROVE FALSE
        BY <1>3
      <3>3. Open(t)
        BY <1>8, <3>1, <3>2, ZenonT(30) DEF Open, OpenStreams
      <3> QED
        BY <1>1, <1>2, <3>3, FrameFacts, ZenonT(30) DEF StreamInv
    <2> QED
      BY <2>1, <2>2, <2>3 DEF StreamInv
  <1>14. RequestInv'
    <2>1. /\ captured' = f.stream /\ expected' = f.fields.length /\ bytes' = 0
          /\ f.stream \in Streams
      BY <1>2, <1>3, <1>9, ZenonT(30)
    <2>2. ready' /\ ~early' => expected' \in {None, bytes'} /\ stream'[captured'] = "half"
      BY <1>7, <1>8, <2>1, ZenonT(30)
    <2> QED
      BY <1>9, <2>1, <2>2, ZenonT(30) DEF RequestInv, CompleteRequest
  <1>15. WindowInv'
    <2>1. initial \in 0 .. MaxWindow
      BY <1>1 DEF H2OK
    <2>2. sent \in 0 .. MaxContent
      BY TypeGroups DEF SessionInv, AnswerOK
    <2>3. initial \in Int /\ sent \in Int /\ sent >= 0
      BY <2>1, <2>2
    <2>4. window' = initial /\ initial' = initial /\ sent' = sent
      BY <1>3, ZenonT(30)
    <2> QED
      BY <2>3, <2>4 DEF WindowInv
  <1>16. ParserOK'
    BY <1>2, <1>3, FrameRecorded, ZenonT(30)
  <1>17. CASE UNCHANGED <<handlerVars, closeVars>>
    <2>1. \A p \in prio' : p > highest'
      BY <1>1, <1>2, <1>3, TargetsAbove, ZenonT(30) DEF OtherOK
    <2> QED
      BY <1>3, <1>10, <1>11, <1>12, <1>13, <1>14, <1>15, <1>16, <1>17, <2>1,
         FrameAccepted, ZenonT(30)
  <1>18. CASE \E c \in Codes : Fail(c, f.stream)
    <2>1. PICK c \in Codes : Fail(c, f.stream)
      BY <1>18
    <2> DEFINE g == Goaway(c, f.stream)
    <2>2. g \in Goaways /\ captured' <= g.last
      <3>1. captured' = f.stream /\ f.stream \in Streams
        BY <1>2, <1>3
      <3>2. g \in Goaways /\ g.last = f.stream
        BY <3>1 DEF Goaway, Goaways
      <3>3. \A n \in Nat : n <= n
        OBVIOUS
      <3> QED
        BY <1>9, <3>1, <3>2, <3>3, ZenonT(30)
    <2>3. WriteGoaway(g) /\ closed' \in BOOLEAN /\ (~failed' => closed')
      BY <2>1 DEF Fail
    <2>4. Live
      BY DEF Live
    <2> HIDE DEF g
    <2> QED
      BY <1>3, <1>10, <1>11, <1>12, <1>13, <1>14, <1>15, <1>16, <2>2, <2>3, <2>4,
         GoawayWritten, ZenonT(30)
  <1> QED
    BY <1>17, <1>18, ZenonT(30) DEF RequestCaptured, Codes

\* Every frame of a header block.
LEMMA BlockStepInv ==
  ASSUME SessionInv, pc = "chunk", NEW f \in Blocks, BlockStep(f)
  PROVE  SessionInv'
  <1>1. CASE RequestInvalid(f)
    BY <1>1, FailNowStep DEF RequestInvalid, Codes, Live
  <1> QED
    BY <1>1, FragmentStep, BlockErrorStep, LateBlockStep, TrailersStep, RefusedStep,
       CapturedStep, ZenonT(30) DEF BlockStep

-----------------------------------------------------------------------------
(* Every step *)

\* Nothing happens to the session.
LEMMA StutterStep ==
  ASSUME SessionInv, UNCHANGED vars
  PROVE  SessionInv'
  <1>1. UNCHANGED <<pc, caller, code, closed, goaways, failed, content, sessionVars>>
    BY DEF vars, handlerVars, closeVars, sessionVars, unframed, answerVars
  <1>2. HandlerOK' /\ CloseOK'
    BY <1>1, TypeGroups, ZenonT(30) DEF SessionInv, HandlerOK, CloseOK
  <1>3. TypeOK'
    BY <1>1, <1>2, SessionKept, TypeGroupsNext, ZenonT(30)
  <1>4. CloseInv' /\ GoawayCoversRequest'
    BY <1>1, SessionKept, ZenonT(30) DEF SessionInv, CloseInv, Live, GoawayCoversRequest
  <1>5. PriorityInv'
    BY <1>1, <1>3, SessionKept, ZenonT(30) DEF SessionInv, PriorityInv, Live
  <1>6. AnswerInv'
    BY <1>1 DEF SessionInv, AnswerInv, sessionVars, unframed, answerVars
  <1> QED
    BY <1>1, <1>3, <1>4, <1>5, <1>6, SessionKept, ZenonT(30) DEF SessionInv

\* A frame that fails one of the session's own checks.
LEMMA RejectedStep ==
  ASSUME SessionInv, pc = "chunk", NEW f \in Blocks \cup OtherFrames, FrameRejected(f)
  PROVE  SessionInv'
  BY FaultIsCode, FailNowStep DEF FrameRejected, Live

\* SessionInv is inductive.
LEMMA NextStep == SessionInv /\ [Next]_vars => SessionInv'
  <1> SUFFICES ASSUME SessionInv, [Next]_vars PROVE SessionInv'
    OBVIOUS
  <1>1. CASE Step
    BY <1>1, StepInv
  <1>2. CASE pc = "chunk" /\ \E f \in Blocks : FrameRejected(f) \/ BlockStep(f)
    BY <1>2, RejectedStep, BlockStepInv
  <1>3. CASE pc = "chunk" /\ \E f \in OtherFrames : FrameRejected(f) \/ OtherStep(f)
    BY <1>3, RejectedStep, OtherStepInv
  <1>4. CASE UNCHANGED vars
    BY <1>4, StutterStep
  <1> QED
    BY <1>1, <1>2, <1>3, <1>4 DEF Next

\* A frame changes nothing of the response.
LEMMA FramesKeepAnswer ==
  ASSUME NEW f, FrameRejected(f) \/ BlockStep(f) \/ OtherStep(f)
  PROVE  UNCHANGED answerVars
  <1>1. CASE \/ UNCHANGED sessionVars \/ UNCHANGED unframed
    BY <1>1, ZenonT(30) DEF sessionVars, unframed
  <1>2. CASE \/ FrameRejected(f) \/ RequestInvalid(f) \/ BlockError(f)
             \/ SettingsRefused(f) \/ DataOverrun(f)
    BY <1>1, <1>2, ZenonT(30)
    DEF FrameRejected, RequestInvalid, BlockError, SettingsRefused, DataOverrun, FailNow,
        H2Fails
  <1>3. CASE Fragment(f) \/ LateBlock(f) \/ RequestRefused(f) \/ RequestCaptured(f)
    BY <1>1, <1>3, ZenonT(30)
    DEF Fragment, LateBlock, RequestRefused, RequestCaptured
  <1>4. CASE Trailers(f) \/ Settings(f) \/ PriorityUpdate(f)
    BY <1>1, <1>4 DEF Trailers, Settings, PriorityUpdate, FailNow, H2Fails
  <1>5. CASE Advisory(f) \/ PeerGoaway(f) \/ RstStream(f)
    BY <1>1, <1>5, ZenonT(30) DEF Advisory, PeerGoaway, RstStream, StreamReset, Unaffected
  <1>6. CASE WindowUpdate(f)
    BY <1>1, <1>6, ZenonT(30) DEF WindowUpdate, StreamReset, Unaffected, H2Fails
  <1>7. CASE Data(f)
    BY <1>1, <1>7 DEF Data, StreamReset, Unaffected, H2Fails, FailNow
  <1> QED
    BY <1>2, <1>3, <1>4, <1>5, <1>6, <1>7, ZenonT(30) DEF BlockStep, OtherStep

\* Only send_response changes it.
LEMMA OnlyResponding ==
  ASSUME [Next]_vars
  PROVE  SendData \/ (\E n \in 0 .. MaxContent : Respond(n)) \/ UNCHANGED answerVars
  <1>1. CASE UNCHANGED sessionVars \/ UNCHANGED vars
    BY <1>1, ZenonT(30) DEF vars, sessionVars, unframed
  <1>2. CASE Step
    BY <1>1, <1>2
    DEF Step, Preface, PrefaceInvalid, Read, ReadTooMuch, ChunkEnds, RespondFails, AwaitCredit,
        Responded, Interrupt, Close, FailNow
  <1>3. CASE \E f \in Blocks : FrameRejected(f) \/ BlockStep(f)
    BY <1>3, FramesKeepAnswer
  <1>4. CASE \E f \in OtherFrames : FrameRejected(f) \/ OtherStep(f)
    BY <1>4, FramesKeepAnswer, ZenonT(30)
  <1> QED
    BY <1>1, <1>2, <1>3, <1>4 DEF Next

\* A frame on a connection that has its request leaves that request alone.
LEMMA FramesKeepCapture ==
  ASSUME NEW f, FrameRejected(f) \/ BlockStep(f) \/ OtherStep(f), captured # NoStream
  PROVE  UNCHANGED <<captured, expected, early, continued>>
  <1>1. CASE UNCHANGED sessionVars \/ UNCHANGED unframed
    BY <1>1, ZenonT(30) DEF sessionVars, unframed, requestVars
  <1>2. CASE \/ FrameRejected(f) \/ RequestInvalid(f) \/ BlockError(f)
             \/ SettingsRefused(f) \/ DataOverrun(f)
    <2>1. UNCHANGED sessionVars
      BY <1>2, ZenonT(30)
      DEF FrameRejected, RequestInvalid, BlockError, SettingsRefused, DataOverrun, FailNow,
          H2Fails
    <2> QED
      BY <1>1, <2>1
  <1>3. CASE Fragment(f) \/ LateBlock(f) \/ RequestRefused(f) \/ RequestCaptured(f)
    BY <1>1, <1>3, ZenonT(30)
    DEF Fragment, LateBlock, RequestRefused, RequestCaptured, requestVars
  <1>4. CASE Trailers(f) \/ Settings(f) \/ PriorityUpdate(f)
    BY <1>1, <1>4 DEF Trailers, Settings, PriorityUpdate, FailNow, H2Fails, requestVars
  <1>5. CASE Advisory(f) \/ PeerGoaway(f) \/ RstStream(f)
    BY <1>1, <1>5, ZenonT(30)
    DEF Advisory, PeerGoaway, RstStream, StreamReset, Unaffected, requestVars
  <1>6. CASE WindowUpdate(f)
    BY <1>1, <1>6, ZenonT(30)
    DEF WindowUpdate, StreamReset, Unaffected, H2Fails, requestVars
  <1>7. CASE Data(f)
    BY <1>1, <1>7 DEF Data, StreamReset, Unaffected, H2Fails, FailNow, requestVars
  <1> QED
    BY <1>2, <1>3, <1>4, <1>5, <1>6, <1>7, ZenonT(30) DEF BlockStep, OtherStep

-----------------------------------------------------------------------------
(* The theorems *)

\* The inductive invariant holds in every session, whatever frames the peer
\* sends, however they are split into reads and wherever an await is interrupted.
THEOREM SessionInvariant == Spec => []SessionInv
  BY InitEstablishesInv, NextStep, PTL DEF Spec

\* A session that is over, with no write of a GOAWAY interrupted, has sent
\* exactly one GOAWAY, with the error it ended with: _fail, h2's own failures
\* and close() never announce twice and never replace a failure by NO_ERROR.
THEOREM OneGoaway == Spec => []FailureAnnounced
  <1>1. SessionInv => FailureAnnounced
    <2> SUFFICES ASSUME SessionInv, ~failed PROVE
          Len(goaways) <= 1 /\ (pc = "done" => Len(goaways) = 1 /\ goaways[1].code = code)
      BY DEF FailureAnnounced
    <2>1. CloseInv /\ CloseOK
      BY TypeGroups DEF SessionInv
    <2>2. goaways = << >> \/ Len(goaways) = 1
      BY <2>1, ZenonT(30) DEF CloseInv, CloseOK
    <2>3. Len(goaways) <= 1
      <3>1. Len(<< >>) <= 1 /\ 1 <= 1
        OBVIOUS
      <3> QED
        BY <2>2, <3>1, Zenon
    <2> QED
      BY <2>1, <2>3, Zenon DEF CloseInv
  <1> QED
    BY <1>1, SessionInvariant, PTL

\* The last_stream_id of every GOAWAY covers the captured request, so that a
\* client never retries a request that may have been served.
THEOREM RequestNeverRetried == Spec => []GoawayCoversRequest
  <1>1. SessionInv => GoawayCoversRequest
    BY DEF SessionInv
  <1> QED
    BY <1>1, SessionInvariant, PTL

\* A request that is answered as complete has the length it declared, for every
\* MAX_REQUEST_BODY and every combination of DATA, trailers and END_STREAM.
THEOREM ReadyIsComplete == Spec => []CompleteRequest
  <1>1. SessionInv => CompleteRequest
    BY DEF SessionInv, RequestInv
  <1> QED
    BY <1>1, SessionInvariant, PTL

\* No frame replaces the captured request or changes what it declared.
THEOREM RequestIsFixed == Spec => CaptureFixed
  <1>1. [Next]_vars => [captured # NoStream =>
                          UNCHANGED <<captured, expected, early, continued>>]_vars
    <2> SUFFICES ASSUME [Next]_vars, captured # NoStream
                 PROVE  UNCHANGED <<captured, expected, early, continued>>
      OBVIOUS
    <2>1. CASE UNCHANGED sessionVars \/ UNCHANGED vars
      BY <2>1, ZenonT(30) DEF vars, sessionVars, unframed, requestVars
    <2>2. CASE Step
      BY <2>1, <2>2, ZenonT(30)
      DEF Step, Preface, PrefaceInvalid, Read, ReadTooMuch, ChunkEnds, Respond, RespondFails,
          SendData, AwaitCredit, Responded, Interrupt, Close, FailNow, requestVars
    <2>3. CASE \E f \in Blocks : FrameRejected(f) \/ BlockStep(f)
      BY <2>3, FramesKeepCapture
    <2>4. CASE \E f \in OtherFrames : FrameRejected(f) \/ OtherStep(f)
      BY <2>4, FramesKeepCapture
    <2> QED
      BY <2>1, <2>2, <2>3, <2>4, ZenonT(30) DEF Next
  <1> QED
    BY <1>1, PTL DEF Spec, CaptureFixed

\* send_response never overdraws the stream's or the connection's window, also
\* when SETTINGS has made the stream's negative.
THEOREM NeverOverdrawn == Spec => WithinCredit
  <1>1. SessionInv /\ [Next]_vars =>
          [sent' # sent => window' >= 0 /\ connWindow' >= 0]_vars
    <2> SUFFICES ASSUME SessionInv, [Next]_vars, sent' # sent
                 PROVE  window' >= 0 /\ connWindow' >= 0
      OBVIOUS
    <2>1. SendData
      BY OnlyResponding, ZenonT(30) DEF Respond, answerVars
    <2>2. window \in Int /\ connWindow \in Int
      BY TypeGroups, Limits DEF SessionInv, H2OK
    <2> QED
      BY <2>1, <2>2, CreditTaken
  <1> QED
    BY <1>1, SessionInvariant, PTL DEF Spec, WithinCredit

\* After a reset of the request, a failing GOAWAY of the peer or a GOAWAY of its
\* own, the session begins no response and sends no more of one.
THEOREM SilentAfterCancel == Spec => NothingAfterCancel
  <1>1. SessionInv /\ [Next]_vars =>
          [cancelled \/ goaways # << >> => UNCHANGED answerVars]_vars
    <2> SUFFICES ASSUME SessionInv, [Next]_vars, cancelled \/ goaways # << >>
                 PROVE  UNCHANGED answerVars
      OBVIOUS
    <2>1. CASE SendData
      BY <2>1, ZenonT(30) DEF SendData, CheckCancelled, SessionInv, CloseInv, Live
    <2>2. CASE \E n \in 0 .. MaxContent : Respond(n)
      BY <2>2, ZenonT(30) DEF Respond, Goto, SessionInv, CloseInv, AnswerInv, Live
    <2> QED
      BY <2>1, <2>2, OnlyResponding, ZenonT(30)
  <1> QED
    BY <1>1, SessionInvariant, PTL DEF Spec, NothingAfterCancel

-----------------------------------------------------------------------------
(* The limit on prioritized streams.  Apart from PRIORITY_UPDATE and the     *)
(* captured request, which check it, no step adds a prioritized or an open   *)
(* stream.                                                                   *)

INSTANCE FiniteSetTheorems

\* Closing streams and forgetting prioritized ones keeps within the limit.
LEMMA FewerStreams ==
  ASSUME NEW S \in SUBSET Streams, NEW T \in SUBSET S, NEW st, NEW new,
         OpenStreams(new) \subseteq OpenStreams(st), ~PriorityExceeded(S, st)
  PROVE  ~PriorityExceeded(T, new)
  <1>1. OpenStreams(st) \subseteq Streams
    BY DEF OpenStreams
  <1>2. /\ IsFiniteSet(S) /\ IsFiniteSet(T)
        /\ IsFiniteSet(OpenStreams(st)) /\ IsFiniteSet(OpenStreams(new))
    BY <1>1, StreamsAssumption, FS_Subset, ZenonT(30)
  <1>3. /\ Cardinality(OpenStreams(new)) <= Cardinality(OpenStreams(st))
        /\ Cardinality(T) <= Cardinality(S)
    BY <1>2, FS_Subset, ZenonT(30)
  <1>4. /\ Cardinality(OpenStreams(st)) \in Nat /\ Cardinality(OpenStreams(new)) \in Nat
        /\ Cardinality(S) \in Nat /\ Cardinality(T) \in Nat
    BY <1>2, FS_CardinalityType, ZenonT(30)
  <1> QED
    <2>1. \A a, b, c, d, m \in Nat : a <= b /\ c <= d /\ ~(d + b > m) => ~(c + a > m)
      OBVIOUS
    <2> QED
      BY <1>3, <1>4, <2>1, Limits, ZenonT(30) DEF PriorityExceeded

\* The session ends.
LEMMA EndsSession ==
  ASSUME NEW c, H2Fails(c) \/ FailNow(c) \/ Raise(c) \/ (\E n : Fail(c, n))
  PROVE  ~Live'
  BY DEF H2Fails, FailNow, Fail, WriteGoaway, Raise, Live

Fewer == prio' \subseteq prio /\ OpenStreams(stream') \subseteq OpenStreams(stream)

\* A stream that is reset is open no longer.
LEMMA FewerByReset ==
  ASSUME NEW s, stream \in [Streams -> {"idle", "open", "half", "reset"}],
         stream' = [stream EXCEPT ![s] = "reset"], UNCHANGED prio
  PROVE  Fewer
  BY DEF Fewer, OpenStreams

\* A stream that is open stays open when only the peer's side of it is over.
LEMMA FewerByEnd ==
  ASSUME NEW s \in Streams, NEW end \in BOOLEAN, stream[s] = "open",
         stream \in [Streams -> {"idle", "open", "half", "reset"}],
         stream' = [stream EXCEPT ![s] = IF end THEN "half" ELSE "open"],
         UNCHANGED prio
  PROVE  Fewer
  BY DEF Fewer, OpenStreams

\* Every frame outside header blocks ends the session, frees streams or has been
\* checked against the limit.
LEMMA OtherWithin ==
  ASSUME SessionInv, pc = "chunk", NEW f \in OtherFrames, OtherStep(f), Live'
  PROVE  Fewer \/ ~PriorityExceeded(prio', stream')
  <1>1. stream \in [Streams -> {"idle", "open", "half", "reset"}]
    BY FrameFacts DEF H2OK
  <1>2. CASE UNCHANGED <<prio, stream>>
    BY <1>2 DEF Fewer, OpenStreams
  <1>3. CASE StreamReset(f)
    BY <1>1, <1>3, FewerByReset, ZenonT(30) DEF StreamReset
  <1>4. CASE Advisory(f) \/ PeerGoaway(f) \/ RstStream(f)
    BY <1>2, <1>3, <1>4, EndsSession, ZenonT(30)
    DEF Advisory, PeerGoaway, RstStream, Unaffected, unframed, h2Vars
  <1>5. CASE Settings(f)
    BY <1>2, <1>5, EndsSession, ZenonT(30) DEF Settings
  <1>6. CASE WindowUpdate(f)
    BY <1>2, <1>3, <1>6, EndsSession DEF WindowUpdate, Unaffected, unframed, h2Vars
  <1>7. CASE PriorityUpdate(f)
    <2>1. ~FailNow("PROTOCOL_ERROR")
      BY EndsSession, ZenonT(30)
    <2>2. UNCHANGED stream
      BY <1>7, <2>1, ZenonT(30) DEF PriorityUpdate, h2Vars
    <2>3. CASE f.stream > highest
      BY <1>7, <2>1, <2>2, <2>3, ZenonT(30) DEF PriorityUpdate
    <2>4. CASE ~(f.stream > highest)
      BY <1>2, <1>7, <2>1, <2>2, <2>4, ZenonT(30) DEF PriorityUpdate
    <2> QED
      BY <2>3, <2>4
  <1>8. CASE Data(f)
    <2>1. f.stream \in Streams /\ f.endStream \in BOOLEAN
      BY <1>8, OtherTypes DEF Data
    <2>2. CASE /\ stream[f.stream] = "open"
               /\ stream' = [stream EXCEPT ![f.stream] =
                               IF f.endStream THEN "half" ELSE "open"]
               /\ UNCHANGED prio
      BY <1>1, <2>1, <2>2, FewerByEnd, ZenonT(30)
    <2> QED
      BY <1>2, <1>3, <1>8, <2>2, EndsSession, ZenonT(30)
      DEF Data, Unaffected, unframed, h2Vars
  <1>9. CASE SettingsRefused(f) \/ DataOverrun(f)
    BY <1>9, EndsSession, ZenonT(30) DEF SettingsRefused, DataOverrun
  <1> QED
    BY <1>4, <1>5, <1>6, <1>7, <1>8, <1>9, ZenonT(30) DEF OtherStep

\* The same of header blocks: a refused stream is reset at once, and the captured
\* one is counted beside the prioritized ones above it.
LEMMA BlockWithin ==
  ASSUME SessionInv, pc = "chunk", NEW f \in Blocks, BlockStep(f), Live'
  PROVE  Fewer \/ ~PriorityExceeded(prio', stream')
  <1>1. /\ stream \in [Streams -> {"idle", "open", "half", "reset"}]
        /\ f.stream \in Streams
    BY FrameFacts, BlockTypes, ZenonT(30) DEF H2OK
  <1>2. CASE UNCHANGED <<prio, stream>>
    BY <1>2 DEF Fewer, OpenStreams
  <1>3. CASE Fragment(f) \/ BlockError(f) \/ RequestInvalid(f)
    BY <1>2, <1>3, EndsSession DEF Fragment, BlockError, RequestInvalid, h2Vars
  <1>4. CASE LateBlock(f)
    BY <1>1, <1>2, <1>4, FewerByReset, ZenonT(30) DEF LateBlock, unframed, h2Vars
  <1>5. CASE Trailers(f)
    <2>1. stream[f.stream] = "open"
      BY <1>5, ZenonT(30) DEF Trailers, Block
    <2>2. stream' = [stream EXCEPT ![f.stream] = "half"] /\ UNCHANGED prio
      BY <1>5, EndsSession, ZenonT(30) DEF Trailers
    <2> QED
      BY <1>1, <2>1, <2>2, ZenonT(30) DEF Fewer, OpenStreams
  <1>6. CASE RequestRefused(f)
    BY <1>1, <1>6, ZenonT(30) DEF RequestRefused, Targets, Fewer, OpenStreams
  <1>7. CASE RequestCaptured(f)
    BY <1>7 DEF RequestCaptured
  <1> QED
    BY <1>3, <1>4, <1>5, <1>6, <1>7, ZenonT(30) DEF BlockStep

\* The idle streams counted by PRIORITY_UPDATE are idle, and with the open ones
\* they stay within MAX_CONCURRENT_STREAMS, for every limit and set of streams.
THEOREM PrioritizedWithinLimit == Spec => []PrioritiesBounded
  <1>1. Init => PrioritiesBounded
    <2> SUFFICES ASSUME Init PROVE PrioritiesBounded
      OBVIOUS
    <2>1. prio = {} /\ OpenStreams(stream) = {}
      BY ZenonT(30) DEF Init, OpenStreams
    <2>2. ~PriorityExceeded(prio, stream)
      <3>1. Cardinality({}) = 0
        BY FS_EmptySet, ZenonT(30)
      <3>2. ~(0 + 0 > MaxConcurrent)
        BY Limits
      <3> QED
        BY <2>1, <3>1, <3>2, ZenonT(30) DEF PriorityExceeded
    <2> QED
      BY <2>2, InitEstablishesInv DEF PrioritiesBounded, SessionInv, PriorityInv, Live
  <1>2. SessionInv /\ SessionInv' /\ PrioritiesBounded /\ [Next]_vars => PrioritiesBounded'
    <2> SUFFICES ASSUME SessionInv, SessionInv', PrioritiesBounded, [Next]_vars, Live'
                 PROVE  ~PriorityExceeded(prio', stream')
      BY ZenonT(30) DEF PrioritiesBounded, SessionInv, PriorityInv, Live
    <2>1. prio \subseteq Streams
      BY DEF SessionInv, TypeOK
    <2>2. CASE Live /\ Fewer
      BY <2>1, <2>2, FewerStreams, ZenonT(30) DEF PrioritiesBounded, Live, Fewer
    <2>3. CASE Step \/ UNCHANGED vars
      <3>1. UNCHANGED <<prio, stream>>
        BY <2>3, ZenonT(30)
        DEF Step, Preface, PrefaceInvalid, Read, ReadTooMuch, ChunkEnds, Respond, RespondFails,
            SendData, AwaitCredit, Responded, Interrupt, Close, FailNow, sessionVars, unframed,
            h2Vars, vars
      <3>2. Live
        BY <2>3
        DEF Live, Step, Preface, PrefaceInvalid, Read, ReadTooMuch, ChunkEnds, Respond,
            RespondFails, SendData, AwaitCredit, Responded, Interrupt, Close, Goto, vars,
            handlerVars
      <3> QED
        BY <2>2, <3>1, <3>2, ZenonT(30) DEF Fewer, OpenStreams
    <2>4. ASSUME pc = "chunk", NEW f, FrameRejected(f) PROVE FALSE
      BY <2>4, EndsSession, ZenonT(30) DEF FrameRejected
    <2>5. CASE pc = "chunk" /\ \E f \in Blocks : BlockStep(f)
      BY <2>2, <2>5, BlockWithin, ZenonT(30) DEF Live
    <2>6. CASE pc = "chunk" /\ \E f \in OtherFrames : OtherStep(f)
      BY <2>2, <2>6, OtherWithin DEF Live
    <2> QED
      BY <2>3, <2>4, <2>5, <2>6, ZenonT(30) DEF Next
  <1> QED
    BY <1>1, <1>2, SessionInvariant, PTL DEF Spec
=============================================================================
