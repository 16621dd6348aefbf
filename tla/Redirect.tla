------------------------------ MODULE Redirect ------------------------------
(***************************************************************************)
(* One plain HTTP connection: handle_redirect (solvetls/redirect.py) reads *)
(* a request head within bounds, answers it with a redirect to HTTPS or an *)
(* error, and closes.  The peer sends its bytes in any portions, may close *)
(* or stall; every await may time out, fail or be cancelled.               *)
(*                                                                         *)
(* Bytes are counted; heads and requests are those of RequestHead.         *)
(***************************************************************************)
EXTENDS RequestHead

CONSTANTS
  Chunk,     \* the most bytes one read returns
  MaxTail,   \* bound on the content that follows a head
  Peers      \* what peers may send: a head, and the request it stands for

ASSUME SizesAssumption == Chunk \in Nat \ {0} /\ MaxTail \in Nat

ASSUME PeersAssumption ==
  /\ Peers \subseteq [head : AnyHead, request : AnyRequest]
  /\ \A p \in Peers : Says(p.head, p.request)

VARIABLES
  pc,         \* the await the handler is in
  head,       \* the lengths of the parts of the head the peer sends
  request,    \* what that head says
  got,        \* len(data)
  status,     \* the status of the response, 0 before there is one
  location,   \* the response names a location
  sent,       \* what was handed to the transport, in order
  transport,  \* "open", "eof", "closing", "closed" or "aborted"
  disturbed   \* history: an await after the head was read did not return

peerVars == <<head, request>>
vars == <<pc, peerVars, got, status, location, sent, transport, disturbed>>

Init ==
  /\ pc = "read"
  /\ \E p \in Peers : head = p.head /\ request = p.request
  /\ got = 0 /\ status = 0 /\ location = FALSE
  /\ sent = {}
  /\ transport = "open"
  /\ disturbed = FALSE

-----------------------------------------------------------------------------
(* The head *)

Complete(n) == n >= Size(head)

\* The response is handed to the transport, and drain() is awaited.
Respond(s) ==
  /\ pc' = "write"
  /\ sent' = {"response"}
  /\ status' = s
  /\ location' = (s = 308)

\* reader.read(4096) returns n bytes, which are content past the head.
ReadChunk(n) ==
  /\ pc = "read" /\ got + n <= Size(head) + MaxTail
  /\ got' = got + n
  /\ LET error == CheckHeadSize(head, got', TRUE)
     IN \/ error # 0 /\ Respond(error)
        \/ error = 0 /\ Complete(got') /\ Respond(Status(request))
        \/ /\ error = 0 /\ ~Complete(got')
           /\ UNCHANGED <<pc, status, location, sent>>
  /\ UNCHANGED <<peerVars, transport, disturbed>>

ReadEof_Silent ==
  /\ pc = "read"
  /\ pc' = "close"
  /\ UNCHANGED <<peerVars, got, status, location, sent, transport, disturbed>>

\* The peer closes: before its first byte there is nothing to answer.
ReadEof ==
  /\ pc = "read"
  /\ \/ got = 0 /\ pc' = "close" /\ UNCHANGED <<status, location, sent>>
     \/ got > 0 /\ Respond(400)
  /\ UNCHANGED <<peerVars, got, transport, disturbed>>

\* REQUEST_TIMEOUT passes before the head is complete.
ReadTimeout ==
  /\ pc = "read"
  /\ Respond(408)
  /\ UNCHANGED <<peerVars, got, transport, disturbed>>

-----------------------------------------------------------------------------
(* The response *)

\* drain() returns, and the FIN is sent.
Write ==
  /\ pc = "write"
  /\ sent' = sent \cup {"fin"}
  /\ transport' = "eof"
  /\ pc' = "drain"
  /\ UNCHANGED <<peerVars, got, status, location, disturbed>>

\* drain() times out or fails: neither the FIN nor draining the body follows.
WriteStalls ==
  /\ pc = "write"
  /\ pc' = "close"
  /\ disturbed' = TRUE
  /\ UNCHANGED <<peerVars, got, status, location, sent, transport>>

\* The body is read to its end, or DRAIN_TIMEOUT passes.
Drain ==
  /\ pc = "drain"
  /\ pc' = "close"
  /\ UNCHANGED <<peerVars, got, status, location, sent, transport, disturbed>>

\* A lost connection is logged (OSError).
Lost ==
  /\ pc \in {"read", "drain"}
  /\ pc' = "close"
  /\ disturbed' = TRUE
  /\ UNCHANGED <<peerVars, got, status, location, sent, transport>>

-----------------------------------------------------------------------------
(* The finally clause *)

CloseTransport ==
  /\ pc = "close"
  /\ pc' = "wait"
  /\ transport' = IF transport = "aborted" THEN "aborted" ELSE "closing"
  /\ UNCHANGED <<peerVars, got, status, location, sent, disturbed>>

Stuck_Left == UNCHANGED transport

\* wait_closed() times out, fails or is cancelled.
Stuck == transport' = "aborted"

WaitClosed ==
  /\ pc = "wait"
  /\ pc' = "done"
  /\ \/ transport' = IF transport = "closing" THEN "closed" ELSE transport
     \/ Stuck
  /\ UNCHANGED <<peerVars, got, status, location, sent, disturbed>>

\* The server's shutdown aborts the transport and cancels the handler; inside
\* wait_closed() that ends it.
Cancel ==
  /\ pc \notin {"close", "done"} /\ transport # "aborted"
  /\ transport' = "aborted"
  /\ disturbed' = TRUE
  /\ pc' = IF pc = "wait" THEN "done" ELSE "close"
  /\ UNCHANGED <<peerVars, got, status, location, sent>>

-----------------------------------------------------------------------------
Handler ==
  ReadTimeout \/ Write \/ WriteStalls \/ Drain \/ CloseTransport \/ WaitClosed

Next ==
  \/ \E n \in 1 .. Chunk : ReadChunk(n)
  \/ ReadEof \/ Handler \/ Lost \/ Cancel

Spec == Init /\ [][Next]_vars

\* Every await of the handler is under a timeout; the peer owes nothing.
FairSpec == Spec /\ WF_vars(Handler)

-----------------------------------------------------------------------------
(* Properties *)

TypeOK ==
  /\ pc \in {"read", "write", "drain", "close", "wait", "done"}
  /\ got \in 0 .. Size(head) + MaxTail
  /\ status \in {0, 308, 400, 408, 414, 431, 501, 505}
  /\ location \in BOOLEAN /\ disturbed \in BOOLEAN
  /\ sent \subseteq {"response", "fin"}
  /\ transport \in {"open", "eof", "closing", "closed", "aborted"}

\* A connection that was not disturbed and sent anything gets an answer; one that
\* stayed silent until its end gets none.
Answered ==
  pc = "done" /\ ~disturbed =>
    IF status = 0 THEN got = 0 /\ sent = {} ELSE sent = {"response", "fin"}

\* A location is given only for a complete head within the limit that names a
\* host, and whose content has lengths that are equal numbers, or is chunked in the
\* end if it has a transfer coding.
LocationSound ==
  location =>
    /\ Size(head) <= Min({got, MaxHead})
    /\ request.target = "http" \/ request.hosts = <<"name">>
    /\ request.encoded =>
         /\ request.lengths = << >>
         /\ request.codings[Len(request.codings)].name = "chunked"
    /\ \A k, l \in Range(request.lengths) : Number(k) = Number(l)

\* A connection that was not disturbed and sent anything gets an answer, also
\* if its head is unterminated, oversized or late; one that stayed silent until
\* its end gets none.  The answer has a location only for a complete head within
\* the limit that names a host, and about whose content no two recipients can
\* disagree: its lengths are equal numbers, or it is chunked in the end.
EveryRequestAnswered == Answered /\ LocationSound

\* However the peer's bytes are split into reads, the head gets one verdict: the
\* one for all of it at once.  The exceptions are a head that does not arrive in
\* time (408) or ends early (400).  Meanwhile the handler holds less than
\* MAX_HEAD_SIZE bytes, and reads on only while the terminator can still fit.
SplitsDoNotMatter ==
  LET whole == CheckHeadSize(head, Size(head), FALSE)
  IN /\ TypeOK
     /\ pc = "read" => got < MaxHead
     /\ \/ status \in {0, 408}
        \/ status = (IF whole = 0 THEN Status(request) ELSE whole)
        \/ status = 400 /\ got < Min({Size(head), MaxHead})

\* The handler ends although the peer neither sends nor reads, and leaves no
\* transport behind that is neither closed nor aborted, also when it is
\* cancelled while it waits for the transport.
HandlerEnds == <>[](pc = "done" /\ transport \in {"closed", "aborted"})

-----------------------------------------------------------------------------
(* The inductive invariant behind the safety properties *)

\* The head is read while it is not complete, its verdict precedes the response,
\* and what was sent follows from how far the handler has come.
RedirectInv ==
  /\ SplitsDoNotMatter
  /\ pc = "read" => ~Complete(got) /\ status = 0
  /\ status = 0 => ~location
  /\ pc = "read" => sent = {}
  /\ pc = "write" => sent = {"response"} /\ status # 0
  /\ pc = "drain" => sent = {"response", "fin"} /\ status # 0
  /\ pc \in {"close", "wait", "done"} /\ ~disturbed =>
       IF status = 0 THEN got = 0 /\ sent = {} ELSE sent = {"response", "fin"}
  /\ LocationSound
=============================================================================
