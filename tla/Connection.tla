----------------------------- MODULE Connection -----------------------------
(***************************************************************************)
(* One TLS connection: ClientConnection (solvetls/connection.py) over an   *)
(* SSLObject with memory BIOs and an asyncio transport.  The handler reads *)
(* the ClientHello, completes the handshake, reads and writes application  *)
(* data and calls close(); the peer may send close_notify, misbehave or    *)
(* stall at any time, and every await may fail, time out or be cancelled,  *)
(* by the server's shutdown with the transport aborted.                    *)
(*                                                                         *)
(* A record is reduced to its kind and length; "wire" holds what was       *)
(* handed to the transport, without the records of a successful handshake  *)
(* and those with which OpenSSL answers a key update or a renegotiation.   *)
(* The SSLObject is modelled from the way the code uses it.                *)
(***************************************************************************)
EXTENDS Naturals, Sequences

CONSTANTS
  HeaderSize,    \* TLS_MESSAGE_HEADER_SIZE
  MaxRecord,     \* MAX_TLS_RECORD_SIZE
  MaxHello,      \* MAX_CLIENT_HELLO_SIZE
  MaxHandshake,  \* MAX_HANDSHAKE_BYTES
  MaxData        \* bound on the application data records written

ASSUME SizesAssumption ==
  /\ HeaderSize \in Nat \ {0} /\ MaxRecord \in Nat /\ MaxHello \in Nat
  /\ MaxHandshake \in Nat /\ MaxData \in Nat

VARIABLES
  pc,            \* the await the handler is in
  hello,         \* the message the peer begins with
  got,           \* bytes received of it, then of the handshake
  alert,         \* description of the plain alert sent, 0 if none
  foreign,       \* history: a record no ClientHello can come in was received
  version,       \* the TLS version negotiated
  h2,            \* _http2_session is not None and has a GOAWAY to send
  established,   \* SSLObject: the handshake is complete, without fatal error
  peerClosed,    \* SSLObject: the peer's close_notify has been received
  tlsEof,        \* _tls_eof
  shutdownSent,  \* _tls_shutdown_sent
  fatalSent,     \* _tls_fatal_alert_sent
  bio,           \* _outgoing
  wire,          \* records handed to the transport
  transport,     \* "open", "eof" (FIN sent), "closing", "closed", "aborted"
  disturbed      \* history: an await of the connection failed

helloVars == <<hello, got, alert, foreign>>
tlsVars  == <<version, established, peerClosed, tlsEof>>
sentVars == <<shutdownSent, fatalSent>>
vars     == <<pc, helloVars, h2, tlsVars, sentVars, bio, wire, transport, disturbed>>

\* What the message's header says, and what parsing its body would find.
Hellos ==
  [type : {"client_hello", "other"}, length : 0 .. MaxHello + 1,
   body : {"good", "malformed", "disjoint ALPN"}]

Init ==
  /\ pc = "hello"
  /\ hello \in Hellos
  /\ got = 0 /\ alert = 0 /\ foreign = FALSE
  /\ version \in {"TLSv1.2", "TLSv1.3"}
  /\ h2 = FALSE
  /\ established = FALSE /\ peerClosed = FALSE /\ tlsEof = FALSE
  /\ shutdownSent = FALSE /\ fatalSent = FALSE
  /\ bio = << >> /\ wire = << >>
  /\ transport = "open"
  /\ disturbed = FALSE

-----------------------------------------------------------------------------
\* _handle_outgoing_data with records rs in the BIO, up to its drain().  An
\* aborted transport drops them.
Flush(rs) ==
  /\ bio' = << >>
  /\ wire' = IF transport = "open" THEN wire \o rs ELSE wire

\* The await returns and the handler goes on to "next", or it raises.
Returns(next) == pc' = next /\ UNCHANGED disturbed
Raises(next) == pc' = next /\ disturbed' = TRUE

\* SSLObject.unwrap(): a close_notify, unless the connection is unusable.
Unwrap == IF established THEN <<"notify">> ELSE << >>

MustAnswerPeerClose_Never(eof) == FALSE

MustAnswerPeerClose(eof) == eof /\ version # "TLSv1.3"

AnswerPeerClose_Always == Unwrap

\* _answer_peer_close: the records it adds.
AnswerPeerClose == IF shutdownSent THEN << >> ELSE Unwrap

-----------------------------------------------------------------------------
(* do_tls_handshake *)

\* _send_plaintext_alert, after which the handler raises.
RaisesAlert(description) ==
  /\ fatalSent' = TRUE /\ alert' = description
  /\ wire' = Append(wire, "alert")
  /\ Raises("close")

RaisesSilently ==
  /\ Raises("close")
  /\ UNCHANGED <<fatalSent, alert, wire>>

HelloUnchanged == UNCHANGED <<hello, h2, tlsVars, shutdownSent, bio, transport>>

\* A record that is no handshake record, empty or too long.  A peer's alert is
\* not answered with another one.
ForeignRecord ==
  /\ pc = "hello"
  /\ foreign' = TRUE
  /\ \/ RaisesAlert(10)
     \/ RaisesAlert(22)
     \/ RaisesSilently
  /\ HelloUnchanged /\ UNCHANGED got

Verdict_WithoutHeader(n) ==
  IF n < HeaderSize THEN "more"
  ELSE IF hello.type # "client_hello" THEN "unexpected_message"
  ELSE IF hello.length > MaxHello THEN "too large"
  ELSE IF n < hello.length THEN "more"
  ELSE hello.body

\* What n bytes of the message lead to.
Verdict(n) ==
  IF n < HeaderSize THEN "more"
  ELSE IF hello.type # "client_hello" THEN "unexpected_message"
  ELSE IF hello.length > MaxHello THEN "too large"
  ELSE IF n < HeaderSize + hello.length THEN "more"
  ELSE hello.body

\* A record with the next n bytes, or more than the message needs.
HelloRecord(n) ==
  /\ pc = "hello" /\ n \in 1 .. MaxRecord
  /\ got' = got + n
  /\ LET verdict == Verdict(got')
     IN \/ verdict = "more" /\ Returns("hello") /\ UNCHANGED <<fatalSent, alert, wire>>
        \/ verdict = "unexpected_message" /\ RaisesAlert(10)
        \/ verdict = "too large" /\ RaisesSilently
        \/ verdict = "malformed" /\ RaisesAlert(50)
        \/ verdict = "disjoint ALPN" /\ RaisesAlert(120)
        \/ verdict = "good" /\ Returns("handshake") /\ UNCHANGED <<fatalSent, alert, wire>>
  /\ HelloUnchanged /\ UNCHANGED foreign

\* The connection ends or stalls, during the ClientHello or later.
HandshakeStalls ==
  /\ pc \in {"hello", "handshake"}
  /\ RaisesSilently
  /\ HelloUnchanged /\ UNCHANGED <<got, foreign>>

\* OpenSSL wants more: what it has to send is flushed, n bytes are read.
HandshakeRead(n) ==
  /\ pc = "handshake"
  /\ got' = got + n
  /\ IF got' > MaxHandshake THEN Raises("close") ELSE Returns("handshake")
  /\ UNCHANGED <<alert, fatalSent, wire, foreign>>
  /\ HelloUnchanged

\* The handshake completes, and its last records are flushed, which may raise.
Handshake ==
  /\ pc = "handshake"
  /\ established' = TRUE
  /\ Returns("serve") \/ Returns("preface") \/ Raises("close")
  /\ UNCHANGED <<helloVars, h2, version, peerClosed, tlsEof, sentVars, bio, wire,
                 transport>>

\* It fails.  An alert OpenSSL has put into the BIO stays there until close().
HandshakeFails ==
  /\ pc = "handshake"
  /\ bio' \in {<< >>, <<"alert">>}
  /\ Raises("close")
  /\ UNCHANGED <<helloVars, h2, tlsVars, sentVars, wire, transport>>

-----------------------------------------------------------------------------
(* read() and write() *)

\* The peer sends close_notify.
PeerCloses ==
  /\ established /\ ~peerClosed
  /\ peerClosed' = TRUE
  /\ UNCHANGED <<pc, helloVars, h2, version, established, tlsEof, sentVars, bio, wire,
                 transport, disturbed>>

\* read() finds plaintext or the end of the TLS stream, or both.
ReadReturns ==
  /\ tlsEof' \in {tlsEof, peerClosed}
  /\ ~MustAnswerPeerClose(tlsEof')
  /\ UNCHANGED <<helloVars, version, established, peerClosed, sentVars, bio, wire,
                 transport>>

\* What was read belongs to the preface of HTTP/2.  The session is created once
\* the preface is complete, or cannot become so.
ReadPreface ==
  /\ pc = "preface"
  /\ ReadReturns
  /\ \/ Returns("preface") /\ UNCHANGED h2
     \/ Returns("serve") /\ h2' = TRUE

ReadData ==
  /\ pc = "serve"
  /\ ReadReturns
  /\ Returns("serve") /\ UNCHANGED h2

\* read() has looked for plaintext, and the flush of what OpenSSL had to answer
\* meanwhile raises.  The end of the stream may have been noticed, but not answered.
ReadFlushFails ==
  /\ pc \in {"preface", "serve"}
  /\ tlsEof' \in {tlsEof, peerClosed}
  /\ Raises("close")
  /\ UNCHANGED <<helloVars, h2, version, established, peerClosed, sentVars, bio, wire,
                 transport>>

\* TLS 1.2: the answer is sent at once, and what was read is discarded.
ReadAnswers ==
  /\ pc \in {"preface", "serve"}
  /\ tlsEof' = peerClosed
  /\ MustAnswerPeerClose(tlsEof')
  /\ Flush(bio \o AnswerPeerClose)
  /\ shutdownSent' = TRUE
  /\ Returns("close") \/ Raises("close")
  /\ UNCHANGED <<helloVars, h2, version, established, peerClosed, fatalSent, transport>>

\* The request ends: it was answered, or with an error, a timeout, a lost
\* connection, or OpenSSL meeting a bad record, which leaves an alert in the BIO,
\* or the peer's fatal alert, which does not.
Served ==
  /\ pc \in {"preface", "serve"}
  /\ \/ Returns("close") /\ UNCHANGED <<established, bio>>
     \/ Raises("close") /\ established' = FALSE /\ bio' \in {<< >>, <<"alert">>}
  /\ UNCHANGED <<helloVars, h2, version, peerClosed, tlsEof, sentVars, wire, transport>>

\* write(): the record is encrypted and flushed.
WriteData ==
  /\ pc = "serve" /\ Len(wire) < MaxData
  /\ ~MustAnswerPeerClose(tlsEof)
  /\ Flush(Append(bio, "data"))
  /\ Returns("serve") \/ Raises("close")
  /\ UNCHANGED <<helloVars, h2, tlsVars, sentVars, transport>>

-----------------------------------------------------------------------------
(* close() *)

\* HTTP2Session.close writes its GOAWAY, if the connection still can.  Its write()
\* may be the first to answer a close_notify.
CloseSession ==
  /\ pc = "close"
  /\ h2' = FALSE
  /\ \/ /\ h2 /\ established /\ ~MustAnswerPeerClose(tlsEof)
        /\ Flush(Append(bio, "data"))
        /\ Returns("notify") \/ Raises("notify")
        /\ UNCHANGED shutdownSent
     \/ /\ h2 /\ MustAnswerPeerClose(tlsEof)
        /\ Flush(bio \o AnswerPeerClose)
        /\ shutdownSent' = TRUE
        /\ Returns("notify") \/ Raises("notify")
     \/ /\ ~h2 \/ (~established /\ ~MustAnswerPeerClose(tlsEof))
        /\ Returns("notify")
        /\ UNCHANGED <<bio, wire, shutdownSent>>
  /\ UNCHANGED <<helloVars, tlsVars, fatalSent, transport>>

Notify_UnlessEof ==
  IF shutdownSent \/ fatalSent \/ tlsEof THEN << >> ELSE Unwrap

\* The close_notify, unless one or a fatal alert was sent.
Notify == IF shutdownSent \/ fatalSent THEN << >> ELSE Unwrap

\* TLS is shut down, the BIO flushed and the FIN sent; if the flush raises, the
\* FIN and the drain are skipped.
CloseTls ==
  /\ pc = "notify"
  /\ Flush(bio \o Notify)
  /\ shutdownSent' = (shutdownSent \/ ~fatalSent)
  /\ \/ /\ Returns("drain")
        /\ transport' = IF transport = "open" THEN "eof" ELSE transport
     \/ Raises("finally") /\ UNCHANGED transport
  /\ UNCHANGED <<helloVars, h2, tlsVars, fatalSent>>

\* The peer is read out to its EOF, or CLOSE_DRAIN_TIMEOUT passes.
Drain ==
  /\ pc = "drain"
  /\ Returns("finally")
  /\ UNCHANGED <<helloVars, h2, tlsVars, sentVars, bio, wire, transport>>

\* The outer finally clause: writer.close().
CloseTransport ==
  /\ pc = "finally"
  /\ Returns("wait")
  /\ transport' = IF transport \in {"open", "eof"} THEN "closing"
                                                  ELSE transport
  /\ UNCHANGED <<helloVars, h2, tlsVars, sentVars, bio, wire>>

Stuck_Left == UNCHANGED transport

\* wait_closed() timed out or was cancelled.
Stuck == transport' = "aborted"

WaitClosed ==
  /\ pc = "wait"
  /\ \/ /\ transport' = IF transport = "closing" THEN "closed" ELSE transport
        /\ Returns("done")
     \/ Stuck /\ Raises("done")
  /\ UNCHANGED <<helloVars, h2, tlsVars, sentVars, bio, wire>>

\* The server's shutdown aborts the transport and cancels the handler: outside
\* close() this leads into it, inside to its finally clause and out of it.
Cancel ==
  /\ transport # "aborted" /\ pc # "done"
  /\ transport' = "aborted"
  /\ disturbed' = TRUE
  /\ pc' = CASE pc \in {"hello", "handshake", "preface", "serve"} -> "close"
             [] pc \in {"close", "notify", "drain"} -> "finally"
             [] pc = "finally" -> "wait"
             [] pc = "wait" -> "done"
  /\ UNCHANGED <<helloVars, h2, tlsVars, sentVars, bio, wire>>

-----------------------------------------------------------------------------
CloseStep ==
  CloseSession \/ CloseTls \/ Drain \/ CloseTransport \/ WaitClosed

Next ==
  \/ ForeignRecord \/ (\E n \in 1 .. MaxRecord : HelloRecord(n))
  \/ HandshakeStalls \/ (\E n \in 1 .. MaxRecord : HandshakeRead(n))
  \/ Handshake \/ HandshakeFails
  \/ PeerCloses \/ ReadPreface \/ ReadData \/ ReadFlushFails \/ ReadAnswers
  \/ WriteData \/ Served
  \/ CloseStep \/ Cancel

Spec == Init /\ [][Next]_vars

\* Every await of close() is under a timeout.
FairSpec == Spec /\ WF_vars(CloseStep)

-----------------------------------------------------------------------------
(* Properties *)

Records == {"data", "notify", "alert"}

TypeOK ==
  /\ pc \in {"hello", "handshake", "preface", "serve", "close", "notify", "drain",
             "finally", "wait", "done"}
  /\ hello \in Hellos /\ got \in Nat /\ foreign \in BOOLEAN
  /\ alert \in {0, 10, 22, 50, 120}
  /\ version \in {"TLSv1.2", "TLSv1.3"}
  /\ h2 \in BOOLEAN /\ disturbed \in BOOLEAN
  /\ established \in BOOLEAN /\ peerClosed \in BOOLEAN /\ tlsEof \in BOOLEAN
  /\ shutdownSent \in BOOLEAN /\ fatalSent \in BOOLEAN
  /\ bio \in Seq(Records) /\ wire \in Seq(Records)
  /\ transport \in {"open", "eof", "closing", "closed", "aborted"}

\* The records of a connection are application data, then at most one
\* close_notify or fatal alert, and nothing after it: no GOAWAY, answer or
\* second close_notify follows, whichever path led to close().
RecordsInOrder ==
  \A i \in 1 .. Len(wire) - 1 : wire[i] = "data"

\* RFC 5246 7.2.1, cited by _must_answer_peer_close: once read() has seen the
\* close_notify of a TLS 1.2 peer, pending writes are discarded.
PendingWritesDiscarded ==
  [][tlsEof /\ version = "TLSv1.2" /\ wire' # wire =>
       wire'[Len(wire')] # "data"]_vars

\* A connection that was not disturbed ends with a close_notify, also when the
\* peer has closed its own direction first and when the request failed.
EndsWithNotify ==
  pc = "done" /\ established /\ ~disturbed =>
    wire # << >> /\ wire[Len(wire)] = "notify"

\* close() returns, whatever the peer does, and never leaves a transport behind
\* that is neither closed nor aborted, "even when graceful shutdown is cancelled"
\* and the peer does not read.
CloseReturns ==
  pc = "close" ~> pc = "done" /\ transport \in {"closed", "aborted"}

\* The bytes that a verdict on the first message rests on.
Needed ==
  IF hello.type # "client_hello" \/ hello.length > MaxHello
    THEN HeaderSize ELSE HeaderSize + hello.length

\* However the peer splits its first message into records, the message is judged
\* as a whole and once: no verdict before the bytes it rests on, none withheld
\* when they are there, and the alert that its fault asks for.
JudgedWhole ==
  /\ pc = "hello" => got < Needed
  /\ alert # 0 /\ ~foreign =>
       /\ got >= Needed
       /\ hello.type # "client_hello" => alert = 10
       /\ hello.type = "client_hello" =>
            <<hello.body, alert>> \in {<<"malformed", 50>>, <<"disjoint ALPN", 120>>}
  /\ pc = "handshake" \/ established =>
       got >= Needed /\ hello.type = "client_hello" /\ hello.body = "good"

-----------------------------------------------------------------------------
(* The inductive invariant behind RecordsInOrder and EndsWithNotify *)

AllData == \A i \in 1 .. Len(wire) : wire[i] = "data"

\* Undisturbed, the transport takes every record until close() has sent its own,
\* which is the close_notify that _tls_shutdown_sent stands for.
NotifyInv ==
  /\ ~disturbed /\ pc \notin {"drain", "finally", "wait", "done"} => transport = "open"
  /\ ~disturbed /\ established /\ pc \in {"drain", "finally", "wait", "done"} =>
       shutdownSent
  /\ ~disturbed /\ established /\ shutdownSent =>
       wire # << >> /\ wire[Len(wire)] = "notify"

\* Only an unusable connection has an alert pending; the last record goes out
\* with the flag that forbids another one.
SentInv ==
  /\ bio \in {<< >>, <<"alert">>}
  /\ established => bio = << >>
  /\ ~shutdownSent /\ ~fatalSent => AllData
  /\ fatalSent => bio = << >> /\ ~established
  /\ fatalSent <=> alert # 0
  /\ pc \in {"hello", "handshake"} => ~established /\ bio = << >>
  /\ pc \in {"preface", "serve"} => established
  /\ pc \in {"hello", "handshake", "preface", "serve"} =>
       ~shutdownSent /\ ~fatalSent /\ (tlsEof => version = "TLSv1.3")
  /\ shutdownSent /\ pc \in {"close", "notify"} =>
       bio = << >> /\ tlsEof /\ version = "TLSv1.2"

ConnectionInv == TypeOK /\ RecordsInOrder /\ SentInv /\ NotifyInv
=============================================================================
