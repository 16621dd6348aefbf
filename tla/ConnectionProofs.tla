-------------------------- MODULE ConnectionProofs --------------------------
(***************************************************************************)
(* One TLS connection, for every size limit and any amount of data.        *)
(*                                                                         *)
(* ConnectionInv is inductive: the flags _tls_shutdown_sent and            *)
(* _tls_fatal_alert_sent are set with the last record, and while neither   *)
(* is set only application data has gone out.  NotifyInv and HelloInv add  *)
(* what EndsWithNotify and JudgedWhole rest on.                            *)
(***************************************************************************)
EXTENDS Connection, SequenceTheorems, TLAPS

-----------------------------------------------------------------------------
(* What a flush does to the records on the wire *)

\* A record handed to the transport comes last, after the data before it.
LEMMA RecordAdded ==
  ASSUME wire \in Seq(Records), AllData, NEW r \in Records,
         wire' = wire \o <<r>>
  PROVE  /\ wire' \in Seq(Records) /\ wire' # << >>
         /\ wire'[Len(wire')] = r
         /\ RecordsInOrder'
         /\ r = "data" => AllData'
  <1>1. <<r>> \in Seq(Records) /\ Len(<<r>>) = 1 /\ <<r>>[1] = r
    OBVIOUS
  <1>2. Len(wire) \in Nat
    BY LenProperties
  <1>3. /\ wire' \in Seq(Records)
        /\ Len(wire') = Len(wire) + 1
        /\ \A i \in 1 .. Len(wire) + 1 :
             wire'[i] = IF i <= Len(wire) THEN wire[i] ELSE <<r>>[i - Len(wire)]
    BY <1>1, ConcatProperties
  <1>4. wire'[Len(wire')] = r
    BY <1>1, <1>2, <1>3
  <1>5. \A i \in 1 .. Len(wire') - 1 : wire'[i] = "data"
    BY <1>2, <1>3 DEF AllData
  <1>6. ASSUME r = "data" PROVE \A i \in 1 .. Len(wire') : wire'[i] = "data"
    BY <1>2, <1>3, <1>4, <1>5, <1>6
  <1> QED
    BY <1>2, <1>3, <1>4, <1>5, <1>6 DEF RecordsInOrder, AllData

\* _handle_outgoing_data with at most one record, which only data precedes.
LEMMA Flushed ==
  ASSUME TypeOK, RecordsInOrder, NEW rs, Flush(rs),
         rs = << >> \/ (AllData /\ rs \in {<<"data">>, <<"notify">>, <<"alert">>})
  PROVE  /\ bio' = << >> /\ wire' \in Seq(Records) /\ RecordsInOrder'
         /\ AllData /\ rs \in {<< >>, <<"data">>} => AllData'
         /\ rs = << >> \/ transport # "open" => wire' = wire
         /\ \A r \in Records : rs = <<r>> /\ transport = "open" =>
              wire' # << >> /\ wire'[Len(wire')] = r
  <1>1. wire \in Seq(Records)
    BY DEF TypeOK
  <1>2. CASE rs = << >> \/ transport # "open"
    <2>1. wire' = wire
      BY <1>1, <1>2, ConcatEmptySeq DEF Flush
    <2>2. RecordsInOrder' /\ (AllData => AllData')
      BY <2>1 DEF RecordsInOrder, AllData
    <2>3. \A r \in Records : ~(rs = <<r>> /\ transport = "open")
      BY <1>2
    <2> QED
      BY <1>1, <2>1, <2>2, <2>3, ZenonT(30) DEF Flush
  <1>3. CASE rs # << >> /\ transport = "open"
    <2>1. PICK r \in Records : rs = <<r>>
      BY <1>3 DEF Records
    <2>2. AllData /\ wire' = wire \o <<r>>
      BY <1>3, <2>1 DEF Flush
    <2>3. /\ wire' \in Seq(Records) /\ wire' # << >>
          /\ wire'[Len(wire')] = r
          /\ RecordsInOrder'
          /\ r = "data" => AllData'
      BY <1>1, <2>2, RecordAdded
    <2>4. \A q \in Records : rs = <<q>> => q = r
      BY <2>1
    <2>5. rs = <<"data">> => r = "data"
      BY <2>1
    <2> QED
      BY <1>3, <2>3, <2>4, <2>5 DEF Flush
  <1> QED
    BY <1>2, <1>3

-----------------------------------------------------------------------------
(* ConnectionInv is inductive *)

\* The two beginnings of a connection: silence, or an alert.
LEMMA ShortRecords ==
  << >> \in Seq(Records) /\ <<"alert">> \in Seq(Records)
  BY DEF Records

\* A step that hands nothing to the transport.
LEMMA WireKept ==
  ASSUME ConnectionInv, UNCHANGED wire
  PROVE  /\ wire' \in Seq(Records) /\ RecordsInOrder' /\ (AllData' <=> AllData)
         /\ wire' = << >> <=> wire = << >>
         /\ wire'[Len(wire')] = wire[Len(wire)]
  BY DEF ConnectionInv, TypeOK, RecordsInOrder, AllData

\* A connection begins with nothing sent.
LEMMA InitEstablishesInv == Init => ConnectionInv
  <1> SUFFICES ASSUME Init PROVE ConnectionInv
    OBVIOUS
  <1>1. TypeOK
    BY ShortRecords, ZenonT(30) DEF Init, TypeOK
  <1>2. RecordsInOrder
    BY DEF Init, RecordsInOrder
  <1>3. SentInv
    BY DEF Init, SentInv, AllData
  <1>4. NotifyInv
    BY DEF Init, NotifyInv
  <1> QED
    BY <1>1, <1>2, <1>3, <1>4 DEF ConnectionInv

\* do_tls_handshake sends a plain alert: the connection's last record.
LEMMA AlertStep ==
  ASSUME ConnectionInv, NEW d \in {10, 22, 50, 120}, RaisesAlert(d), HelloUnchanged,
         pc = "hello", got' \in Nat, foreign' \in BOOLEAN
  PROVE  ConnectionInv'
  <1>1. /\ pc' = "close" /\ disturbed' = TRUE /\ fatalSent' = TRUE /\ alert' = d
        /\ UNCHANGED <<hello, h2, version, established, peerClosed, tlsEof, shutdownSent,
                       bio, transport>>
    BY DEF RaisesAlert, Raises, HelloUnchanged, tlsVars
  <1>2. wire \in Seq(Records) /\ AllData /\ bio = << >> /\ ~established /\ ~shutdownSent
    BY DEF ConnectionInv, TypeOK, SentInv
  <1>3. wire' = wire \o <<"alert">>
    BY <1>2, AppendIsConcat DEF RaisesAlert, Records
  <1>4. wire' \in Seq(Records) /\ RecordsInOrder'
    BY <1>2, <1>3, RecordAdded DEF Records
  <1>5. TypeOK'
    BY <1>1, <1>4 DEF ConnectionInv, TypeOK
  <1>6. SentInv'
    BY <1>1, <1>2 DEF SentInv
  <1>7. NotifyInv'
    BY <1>1 DEF NotifyInv
  <1> QED
    BY <1>4, <1>5, <1>6, <1>7 DEF ConnectionInv

\* A step of do_tls_handshake that sends nothing and goes on or raises.
LEMMA QuietHandshake ==
  ASSUME ConnectionInv, HelloUnchanged, UNCHANGED <<fatalSent, alert, wire>>,
         pc \in {"hello", "handshake"}, got' \in Nat, foreign' \in BOOLEAN,
         \/ Returns("hello") \/ Returns("handshake") \/ Raises("close")
  PROVE  ConnectionInv'
  <1>1. UNCHANGED <<hello, h2, version, established, peerClosed, tlsEof, shutdownSent,
                    bio, transport>>
    BY DEF HelloUnchanged, tlsVars
  <1>2. wire' \in Seq(Records) /\ RecordsInOrder' /\ (AllData' <=> AllData)
    BY WireKept
  <1>3. TypeOK'
    <2>1. pc' \in {"hello", "handshake", "close"}
      BY DEF Returns, Raises
    <2>2. disturbed' \in BOOLEAN
      BY ZenonT(30) DEF ConnectionInv, TypeOK, Returns, Raises
    <2> QED
      BY <1>1, <1>2, <2>1, <2>2 DEF ConnectionInv, TypeOK
  <1>4. SentInv'
    BY <1>1, <1>2 DEF ConnectionInv, SentInv, Returns, Raises
  <1>5. NotifyInv'
    BY <1>1 DEF ConnectionInv, SentInv, NotifyInv, Returns, Raises
  <1> QED
    BY <1>2, <1>3, <1>4, <1>5 DEF ConnectionInv

\* do_tls_handshake: at most one plain alert is sent, and then the connection
\* has sent its last record.
LEMMA HandshakeStep ==
  ASSUME ConnectionInv,
         \/ ForeignRecord \/ (\E n \in 1 .. MaxRecord : HelloRecord(n))
         \/ HandshakeStalls \/ (\E n \in 1 .. MaxRecord : HandshakeRead(n))
         \/ Handshake \/ HandshakeFails
  PROVE  ConnectionInv'
  <1>0. got \in Nat /\ foreign \in BOOLEAN
    BY DEF ConnectionInv, TypeOK
  <1>1. CASE ForeignRecord
    BY <1>0, <1>1, AlertStep, QuietHandshake DEF ForeignRecord, RaisesSilently
  <1>2. ASSUME NEW n \in 1 .. MaxRecord, HelloRecord(n) PROVE ConnectionInv'
    <2>1. got' \in Nat
      <3>1. got' = got + n
        BY <1>2 DEF HelloRecord
      <3> QED
        BY <1>0, <3>1, SizesAssumption
    <2>2. UNCHANGED foreign /\ HelloUnchanged /\ pc = "hello"
      BY <1>2 DEF HelloRecord
    <2>3. \/ \E d \in {10, 22, 50, 120} : RaisesAlert(d)
          \/ RaisesSilently
          \/ /\ Returns("hello") \/ Returns("handshake")
             /\ UNCHANGED <<fatalSent, alert, wire>>
      BY <1>2 DEF HelloRecord
    <2> QED
      BY <1>0, <2>1, <2>2, <2>3, AlertStep, QuietHandshake DEF RaisesSilently
  <1>3. CASE HandshakeStalls
    BY <1>0, <1>3, QuietHandshake DEF HandshakeStalls, RaisesSilently
  <1>4. ASSUME NEW n \in 1 .. MaxRecord, HandshakeRead(n) PROVE ConnectionInv'
    <2>1. got' \in Nat
      BY <1>0, <1>4, SizesAssumption DEF HandshakeRead
    <2> QED
      BY <1>0, <1>4, <2>1, QuietHandshake DEF HandshakeRead
  <1>5. CASE Handshake
    <2>1. wire' \in Seq(Records) /\ RecordsInOrder' /\ (AllData' <=> AllData)
      BY <1>5, WireKept DEF Handshake
    <2>2. TypeOK'
      <3>1. disturbed' \in BOOLEAN
        BY <1>5, ZenonT(30) DEF Handshake, Returns, Raises, ConnectionInv, TypeOK
      <3>2. pc' \in {"serve", "preface", "close"}
        BY <1>5 DEF Handshake, Returns, Raises
      <3> QED
        BY <1>5, <2>1, <3>1, <3>2 DEF Handshake, helloVars, sentVars, ConnectionInv, TypeOK
    <2>3. SentInv'
      BY <1>5, <2>1
      DEF Handshake, Returns, Raises, helloVars, sentVars, ConnectionInv, SentInv
    <2>4. NotifyInv'
      BY <1>5 DEF Handshake, Returns, Raises, sentVars, ConnectionInv, SentInv, NotifyInv
    <2> QED
      BY <2>1, <2>2, <2>3, <2>4 DEF ConnectionInv
  <1>6. CASE HandshakeFails
    <2>1. wire' \in Seq(Records) /\ RecordsInOrder' /\ (AllData' <=> AllData)
      BY <1>6, WireKept DEF HandshakeFails
    <2>2. TypeOK'
      <3>1. bio' \in Seq(Records)
        BY <1>6, ShortRecords, ZenonT(30) DEF HandshakeFails
      <3>2. pc' = "close" /\ disturbed' = TRUE
        BY <1>6 DEF HandshakeFails, Raises
      <3> QED
        BY <1>6, <2>1, <3>1, <3>2
        DEF HandshakeFails, helloVars, tlsVars, sentVars, ConnectionInv, TypeOK
    <2>3. SentInv'
      BY <1>6, <2>1
      DEF HandshakeFails, Raises, helloVars, tlsVars, sentVars, ConnectionInv, SentInv
    <2>4. NotifyInv'
      BY <1>6 DEF HandshakeFails, Raises, NotifyInv
    <2> QED
      BY <2>1, <2>2, <2>3, <2>4 DEF ConnectionInv
  <1> QED
    BY <1>1, <1>2, <1>3, <1>4, <1>5, <1>6

\* read() and write(): what they send follows data only, and only the answer to
\* a TLS 1.2 peer's close_notify is a last record.
LEMMA DataStep ==
  ASSUME ConnectionInv,
         \/ PeerCloses \/ ReadPreface \/ ReadData \/ ReadFlushFails \/ ReadAnswers
         \/ WriteData \/ Served
  PROVE  ConnectionInv'
  <1>0. TypeOK /\ RecordsInOrder /\ SentInv
    BY DEF ConnectionInv
  <1>1. CASE PeerCloses
    <2>1. wire' \in Seq(Records) /\ RecordsInOrder' /\ (AllData' <=> AllData)
      BY <1>1, WireKept DEF PeerCloses
    <2>2. TypeOK'
      BY <1>0, <1>1, <2>1 DEF PeerCloses, helloVars, sentVars, TypeOK
    <2>3. SentInv'
      BY <1>0, <1>1, <2>1 DEF PeerCloses, helloVars, sentVars, SentInv
    <2>4. NotifyInv'
      BY <1>1 DEF PeerCloses, sentVars, ConnectionInv, NotifyInv
    <2> QED
      BY <2>1, <2>2, <2>3, <2>4 DEF ConnectionInv
  <1>2. CASE ReadPreface \/ ReadData
    <2>1. /\ pc \in {"preface", "serve"} /\ pc' \in {"preface", "serve"}
          /\ ReadReturns /\ UNCHANGED disturbed
          /\ h2' = h2 \/ h2' = TRUE
      BY <1>2 DEF ReadPreface, ReadData, Returns
    <2>2. wire' \in Seq(Records) /\ RecordsInOrder' /\ (AllData' <=> AllData)
      BY <2>1, WireKept DEF ReadReturns
    <2>3. TypeOK'
      <3>1. tlsEof' \in BOOLEAN
        BY <1>0, <2>1 DEF ReadReturns, TypeOK
      <3>2. h2' \in BOOLEAN
        BY <1>0, <2>1, ZenonT(30) DEF TypeOK
      <3> QED
        BY <1>0, <2>1, <2>2, <3>1, <3>2 DEF ReadReturns, helloVars, sentVars, TypeOK
    <2>4. SentInv'
      <3>1. tlsEof' => version' = "TLSv1.3"
        BY <2>1 DEF ReadReturns, MustAnswerPeerClose
      <3> QED
        BY <1>0, <2>1, <2>2, <3>1 DEF ReadReturns, helloVars, sentVars, SentInv
    <2>5. NotifyInv'
      BY <2>1 DEF ReadReturns, sentVars, ConnectionInv, NotifyInv
    <2> QED
      BY <2>2, <2>3, <2>4, <2>5 DEF ConnectionInv
  <1>3. CASE ReadAnswers
    <2>1. bio \o AnswerPeerClose = <<"notify">> /\ AllData
      <3>1. bio = << >> /\ established /\ ~shutdownSent /\ AllData
        BY <1>0, <1>3 DEF ReadAnswers, SentInv
      <3>2. AnswerPeerClose = <<"notify">>
        BY <3>1 DEF AnswerPeerClose, Unwrap
      <3> QED
        BY <3>1, <3>2
    <2>2. /\ bio' = << >> /\ wire' \in Seq(Records) /\ RecordsInOrder'
          /\ transport = "open" => wire' # << >> /\ wire'[Len(wire')] = "notify"
      BY <1>0, <1>3, <2>1, Flushed DEF ReadAnswers, Records
    <2>3. /\ pc' = "close" /\ shutdownSent' = TRUE /\ tlsEof' = peerClosed
          /\ tlsEof' /\ version # "TLSv1.3"
          /\ UNCHANGED <<helloVars, h2, version, established, peerClosed, fatalSent, transport>>
      BY <1>3 DEF ReadAnswers, Returns, Raises, MustAnswerPeerClose
    <2>4. disturbed' = disturbed \/ disturbed' = TRUE
      BY <1>3 DEF ReadAnswers, Returns, Raises
    <2>5. TypeOK'
      BY <1>0, <2>2, <2>3, <2>4, ShortRecords, ZenonT(30) DEF helloVars, TypeOK
    <2>6. SentInv'
      BY <1>0, <1>3, <2>2, <2>3 DEF ReadAnswers, helloVars, TypeOK, SentInv
    <2>7. NotifyInv'
      BY <1>3, <2>2, <2>3, <2>4 DEF ReadAnswers, ConnectionInv, NotifyInv
    <2> QED
      BY <2>2, <2>5, <2>6, <2>7 DEF ConnectionInv
  <1>4. CASE WriteData
    <2>1. Append(bio, "data") = <<"data">> /\ AllData
      BY <1>0, <1>4 DEF WriteData, SentInv
    <2>2. bio' = << >> /\ wire' \in Seq(Records) /\ RecordsInOrder' /\ AllData'
      BY <1>0, <1>4, <2>1, Flushed, ZenonT(30) DEF WriteData
    <2>3. pc' \in {"serve", "close"}
      BY <1>4 DEF WriteData, Returns, Raises
    <2>4. disturbed' = disturbed \/ disturbed' = TRUE
      BY <1>4 DEF WriteData, Returns, Raises
    <2>5. TypeOK'
      <3>1. disturbed' \in BOOLEAN
        BY <1>0, <2>4, ZenonT(30) DEF TypeOK
      <3> QED
        BY <1>0, <1>4, <2>2, <2>3, <3>1, ShortRecords
        DEF WriteData, helloVars, tlsVars, sentVars, TypeOK
    <2>6. SentInv'
      BY <1>0, <1>4, <2>2, <2>3 DEF WriteData, helloVars, tlsVars, sentVars, SentInv
    <2>7. NotifyInv'
      BY <1>0, <1>4, <2>3, <2>4
      DEF WriteData, tlsVars, sentVars, ConnectionInv, SentInv, NotifyInv
    <2> QED
      BY <2>2, <2>5, <2>6, <2>7 DEF ConnectionInv
  <1>5. CASE Served
    <2>1. wire' \in Seq(Records) /\ RecordsInOrder' /\ (AllData' <=> AllData)
      BY <1>5, WireKept DEF Served
    <2>2. bio' \in {bio, << >>, <<"alert">>} /\ bio' \in Seq(Records)
      BY <1>0, <1>5, ShortRecords, ZenonT(30) DEF Served, TypeOK
    <2>3. established' \in BOOLEAN /\ disturbed' \in BOOLEAN /\ pc' = "close"
      BY <1>0, <1>5, ZenonT(30) DEF Served, Returns, Raises, TypeOK
    <2>4. TypeOK'
      BY <1>0, <1>5, <2>1, <2>2, <2>3 DEF Served, helloVars, sentVars, TypeOK
    <2>5. SentInv'
      BY <1>0, <1>5, <2>1 DEF Served, Returns, Raises, helloVars, sentVars, SentInv
    <2>6. NotifyInv'
      BY <1>0, <1>5
      DEF Served, Returns, Raises, sentVars, ConnectionInv, SentInv, NotifyInv
    <2> QED
      BY <2>1, <2>4, <2>5, <2>6 DEF ConnectionInv
  <1>6. CASE ReadFlushFails
    <2>1. wire' \in Seq(Records) /\ RecordsInOrder' /\ (AllData' <=> AllData)
      BY <1>6, WireKept DEF ReadFlushFails
    <2>2. tlsEof' \in BOOLEAN /\ pc' = "close" /\ disturbed' = TRUE
      BY <1>0, <1>6 DEF ReadFlushFails, Raises, TypeOK
    <2>3. TypeOK'
      BY <1>0, <1>6, <2>1, <2>2 DEF ReadFlushFails, helloVars, sentVars, TypeOK
    <2>4. SentInv'
      BY <1>0, <1>6, <2>1, <2>2 DEF ReadFlushFails, helloVars, sentVars, SentInv
    <2>5. NotifyInv'
      BY <2>2 DEF NotifyInv
    <2> QED
      BY <2>1, <2>3, <2>4, <2>5 DEF ConnectionInv
  <1> QED
    BY <1>1, <1>2, <1>3, <1>4, <1>5, <1>6

\* The answer to the peer's close_notify, or close()'s own one: the last record,
\* unless the connection has sent it before.
LEMMA LastRecord ==
  ASSUME ConnectionInv, pc \in {"close", "notify"},
         NEW rs, Flush(rs), rs \in {bio \o AnswerPeerClose, bio \o Notify}
  PROVE  /\ bio' = << >> /\ wire' \in Seq(Records) /\ RecordsInOrder'
         /\ wire' = wire \/ wire'[Len(wire')] # "data"
         /\ shutdownSent => wire' = wire
         /\ established /\ ~shutdownSent /\ transport = "open" =>
              wire' # << >> /\ wire'[Len(wire')] = "notify"
  <1>0. TypeOK /\ RecordsInOrder /\ SentInv
    BY DEF ConnectionInv
  <1>1. /\ rs = << >> \/ (AllData /\ rs \in {<<"notify">>, <<"alert">>})
        /\ established /\ ~shutdownSent => rs = <<"notify">>
        /\ shutdownSent => rs = << >>
    <2>1. CASE shutdownSent
      BY <1>0, <2>1 DEF SentInv, AnswerPeerClose, Notify
    <2>2. CASE ~shutdownSent /\ established
      <3>1. bio = << >> /\ AllData
        BY <1>0, <2>2 DEF SentInv
      <3>2. AnswerPeerClose = <<"notify">> /\ Notify = <<"notify">>
        BY <1>0, <2>2 DEF AnswerPeerClose, Notify, Unwrap, SentInv
      <3> QED
        BY <2>2, <3>1, <3>2
    <2>3. CASE ~shutdownSent /\ ~established
      <3>1. AnswerPeerClose = << >> /\ Notify = << >>
        BY <2>3 DEF AnswerPeerClose, Notify, Unwrap
      <3>2. bio = << >> \/ (bio = <<"alert">> /\ AllData)
        BY <1>0, <2>3 DEF SentInv
      <3> QED
        BY <2>3, <3>1, <3>2
    <2> QED
      BY <1>0, <2>1, <2>2, <2>3
  <1>2. /\ bio' = << >> /\ wire' \in Seq(Records) /\ RecordsInOrder'
        /\ rs = << >> \/ transport # "open" => wire' = wire
        /\ \A r \in {"notify", "alert"} : rs = <<r>> /\ transport = "open" =>
             wire' # << >> /\ wire'[Len(wire')] = r
    BY <1>0, <1>1, Flushed DEF Records
  <1> QED
    BY <1>1, <1>2

\* close(): the GOAWAY, the pending alert and the close_notify.
LEMMA CloseStepInv ==
  ASSUME ConnectionInv, CloseStep
  PROVE  ConnectionInv'
  <1>0. TypeOK /\ RecordsInOrder /\ SentInv
    BY DEF ConnectionInv
  <1>1. CASE CloseSession
    <2>0. /\ pc = "close" /\ pc' = "notify" /\ h2' = FALSE
          /\ UNCHANGED <<helloVars, tlsVars, fatalSent, transport>>
      BY <1>1 DEF CloseSession, Returns, Raises
    <2>a. disturbed' = disturbed \/ disturbed' = TRUE
      BY <1>1 DEF CloseSession, Returns, Raises
    <2>b. disturbed' \in BOOLEAN
      BY <1>0, <2>a, ZenonT(30) DEF TypeOK
    <2>1. CASE /\ h2 /\ established /\ ~MustAnswerPeerClose(tlsEof)
               /\ Flush(Append(bio, "data")) /\ UNCHANGED shutdownSent
      <3>1. ~shutdownSent /\ ~fatalSent /\ AllData /\ bio = << >>
        BY <1>0, <2>0, <2>1 DEF MustAnswerPeerClose, SentInv
      <3>2. Append(bio, "data") = <<"data">>
        BY <3>1
      <3>3. bio' = << >> /\ wire' \in Seq(Records) /\ RecordsInOrder' /\ AllData'
        BY <1>0, <2>1, <3>1, <3>2, Flushed
      <3>4. TypeOK'
        BY <1>0, <2>0, <2>1, <3>3, ShortRecords, <2>b, ZenonT(30)
        DEF helloVars, tlsVars, TypeOK
      <3>5. SentInv'
        BY <1>0, <2>0, <2>1, <3>1, <3>3 DEF helloVars, tlsVars, SentInv
      <3>6. NotifyInv'
        BY <2>0, <2>a, <2>1, <3>1 DEF ConnectionInv, NotifyInv
      <3> QED
        BY <3>3, <3>4, <3>5, <3>6 DEF ConnectionInv
    <2>2. CASE /\ MustAnswerPeerClose(tlsEof) /\ Flush(bio \o AnswerPeerClose)
               /\ shutdownSent' = TRUE
      <3>1. /\ bio' = << >> /\ wire' \in Seq(Records) /\ RecordsInOrder'
            /\ shutdownSent => wire' = wire
            /\ established /\ ~shutdownSent /\ transport = "open" =>
                 wire' # << >> /\ wire'[Len(wire')] = "notify"
        BY <2>0, <2>2, LastRecord, ZenonT(30)
      <3>2. TypeOK'
        BY <1>0, <2>0, <2>2, <3>1, ShortRecords, <2>b, ZenonT(30)
        DEF helloVars, tlsVars, TypeOK
      <3>3. tlsEof' /\ version' = "TLSv1.2"
        BY <1>0, <2>0, <2>2 DEF MustAnswerPeerClose, tlsVars, TypeOK
      <3>4. SentInv'
        BY <1>0, <2>0, <2>2, <3>1, <3>3 DEF helloVars, tlsVars, SentInv
      <3>5. NotifyInv'
        BY <2>0, <2>a, <2>2, <3>1 DEF ConnectionInv, NotifyInv, tlsVars
      <3> QED
        BY <3>1, <3>2, <3>4, <3>5 DEF ConnectionInv
    <2>3. CASE UNCHANGED <<bio, wire, shutdownSent>>
      <3>1. wire' \in Seq(Records) /\ RecordsInOrder' /\ (AllData' <=> AllData)
        BY <2>3, WireKept
      <3>2. TypeOK'
        <4>1. /\ bio' \in Seq(Records) /\ wire' \in Seq(Records)
              /\ shutdownSent' \in BOOLEAN
          BY <1>0, <2>3 DEF TypeOK
        <4> QED
          BY <1>0, <2>0, <2>b, <4>1, ZenonT(30)
        DEF helloVars, tlsVars, TypeOK
      <3>3. SentInv'
        BY <1>0, <2>0, <2>3, <3>1 DEF helloVars, tlsVars, SentInv
      <3>4. NotifyInv'
        BY <2>0, <2>a, <2>3 DEF ConnectionInv, NotifyInv, tlsVars
      <3> QED
        BY <3>1, <3>2, <3>3, <3>4 DEF ConnectionInv
    <2> QED
      BY <1>1, <2>1, <2>2, <2>3 DEF CloseSession
  <1>2. CASE CloseTls
    <2>1. /\ bio' = << >> /\ wire' \in Seq(Records) /\ RecordsInOrder'
          /\ shutdownSent => wire' = wire
          /\ established /\ ~shutdownSent /\ transport = "open" =>
               wire' # << >> /\ wire'[Len(wire')] = "notify"
      BY <1>2, LastRecord, ZenonT(30) DEF CloseTls
    <2>2. /\ pc = "notify" /\ pc' \in {"drain", "finally"}
          /\ transport' \in {transport, "eof"}
          /\ disturbed' = disturbed \/ disturbed' = TRUE
          /\ UNCHANGED <<helloVars, h2, tlsVars, fatalSent>>
      BY <1>2 DEF CloseTls, Returns, Raises
    <2>3. shutdownSent' \in BOOLEAN /\ (~fatalSent => shutdownSent')
      BY <1>0, <1>2, ZenonT(30) DEF CloseTls, TypeOK
    <2>4. TypeOK'
      <3>1. disturbed' \in BOOLEAN
        BY <1>0, <2>2, ZenonT(30) DEF TypeOK
      <3> QED
        BY <1>0, <2>1, <2>2, <2>3, ShortRecords, <3>1 DEF helloVars, tlsVars, TypeOK
    <2>5. SentInv'
      BY <1>0, <2>1, <2>2, <2>3 DEF helloVars, tlsVars, SentInv
    <2>6. NotifyInv'
      BY <1>0, <2>1, <2>2, <2>3 DEF tlsVars, ConnectionInv, SentInv, NotifyInv
    <2> QED
      BY <2>1, <2>4, <2>5, <2>6 DEF ConnectionInv
  <1>3. CASE Drain \/ CloseTransport \/ WaitClosed
    <2>1. /\ pc \in {"drain", "finally", "wait"} /\ pc' \in {"finally", "wait", "done"}
          /\ disturbed' = disturbed \/ disturbed' = TRUE
          /\ UNCHANGED <<helloVars, h2, tlsVars, sentVars, bio, wire>>
      BY <1>3 DEF Drain, CloseTransport, WaitClosed, Returns, Raises
    <2>2. transport' \in {transport, "closing", "closed", "aborted"}
      BY <1>3 DEF Drain, CloseTransport, WaitClosed, Stuck
    <2>3. wire' \in Seq(Records) /\ RecordsInOrder' /\ (AllData' <=> AllData)
      BY <2>1, WireKept
    <2>4. TypeOK'
      <3>1. disturbed' \in BOOLEAN
        BY <1>0, <2>1, ZenonT(30) DEF TypeOK
      <3> QED
        BY <1>0, <2>1, <2>2, <2>3, <3>1 DEF helloVars, tlsVars, sentVars, TypeOK
    <2>5. SentInv'
      BY <1>0, <2>1, <2>3 DEF helloVars, tlsVars, sentVars, SentInv
    <2>6. NotifyInv'
      BY <2>1 DEF tlsVars, sentVars, ConnectionInv, NotifyInv
    <2> QED
      BY <2>3, <2>4, <2>5, <2>6 DEF ConnectionInv
  <1> QED
    BY <1>1, <1>2, <1>3 DEF CloseStep

\* The shutdown aborts the transport: nothing more is sent.
LEMMA CancelStep ==
  ASSUME ConnectionInv, Cancel
  PROVE  ConnectionInv'
  <1>0. TypeOK /\ RecordsInOrder /\ SentInv
    BY DEF ConnectionInv
  <1>1. /\ transport' = "aborted" /\ disturbed' = TRUE
        /\ UNCHANGED <<helloVars, h2, tlsVars, sentVars, bio, wire>>
    BY DEF Cancel
  <1>2. /\ pc' \in {"close", "finally", "wait", "done"}
        /\ pc' = "close" => pc \in {"hello", "handshake", "preface", "serve"}
    BY <1>0 DEF Cancel, TypeOK
  <1>3. wire' \in Seq(Records) /\ RecordsInOrder' /\ (AllData' <=> AllData)
    BY <1>1, WireKept
  <1>4. TypeOK'
    BY <1>0, <1>1, <1>2, <1>3 DEF helloVars, tlsVars, sentVars, TypeOK
  <1>5. SentInv'
    BY <1>0, <1>1, <1>2, <1>3 DEF helloVars, tlsVars, sentVars, SentInv
  <1>6. NotifyInv'
    BY <1>1 DEF NotifyInv
  <1> QED
    BY <1>3, <1>4, <1>5, <1>6 DEF ConnectionInv

\* Nothing happens to the connection.
LEMMA StutterStep ==
  ASSUME ConnectionInv, UNCHANGED vars
  PROVE  ConnectionInv'
  BY
  DEF vars, helloVars, tlsVars, sentVars, ConnectionInv, TypeOK, RecordsInOrder, SentInv,
         AllData, NotifyInv

-----------------------------------------------------------------------------
(* Theorems *)

\* Whatever the peer sends and whenever an await fails or is cancelled, the flags
\* of ClientConnection agree with the records that went out: data, then at most
\* one close_notify or fatal alert, and nothing after it.
THEOREM ConnectionInvariant == Spec => []ConnectionInv
  <1>1. ConnectionInv /\ [Next]_vars => ConnectionInv'
    BY HandshakeStep, DataStep, CloseStepInv, CancelStep, StutterStep DEF Next
  <1> QED
    BY <1>1, InitEstablishesInv, PTL DEF Spec

\* No GOAWAY, answer or second close_notify follows the last record.
THEOREM NothingFollowsTheLastRecord == Spec => []RecordsInOrder
  <1>1. ConnectionInv => RecordsInOrder
    BY DEF ConnectionInv
  <1> QED
    BY <1>1, ConnectionInvariant, PTL

\* A connection whose awaits all returned ends with a close_notify.
THEOREM UndisturbedEndsWithNotify == Spec => []EndsWithNotify
  <1>1. ConnectionInv => EndsWithNotify
    BY DEF ConnectionInv, NotifyInv, EndsWithNotify
  <1> QED
    BY <1>1, ConnectionInvariant, PTL

\* Once read() has seen the close_notify of a TLS 1.2 peer, write() and close()
\* send no application data any more.
THEOREM NoDataAfterPeerClose == Spec => PendingWritesDiscarded
  <1> DEFINE Step == tlsEof /\ version = "TLSv1.2" /\ wire' # wire =>
                       wire'[Len(wire')] # "data"
  <1>1. ConnectionInv /\ [Next]_vars => [Step]_vars
    <2> SUFFICES ASSUME ConnectionInv, Next, tlsEof, version = "TLSv1.2", wire' # wire
                 PROVE  wire'[Len(wire')] # "data"
      OBVIOUS
    <2>1. pc \notin {"hello", "handshake", "preface", "serve"}
      BY DEF ConnectionInv, SentInv
    <2>2. CloseSession \/ CloseTls
      BY <2>1 DEF Next, CloseStep, ForeignRecord, HelloRecord, HandshakeStalls,
                  HandshakeRead, Handshake, HandshakeFails, PeerCloses, ReadPreface,
                  ReadData, ReadFlushFails, ReadAnswers, WriteData, Served, Drain,
                  CloseTransport, WaitClosed, Cancel
    <2>3. Flush(bio \o AnswerPeerClose) \/ Flush(bio \o Notify)
      BY <2>2 DEF CloseSession, CloseTls, MustAnswerPeerClose
    <2>4. pc \in {"close", "notify"}
      BY <2>2 DEF CloseSession, CloseTls
    <2> QED
      BY <2>3, <2>4, LastRecord, ZenonT(30)
  <1> QED
    BY <1>1, ConnectionInvariant, PTL DEF Spec, PendingWritesDiscarded

\* _read_client_hello: the verdict on n bytes is "more" exactly while a byte it
\* rests on is missing, and otherwise is about the message as a whole.
LEMMA VerdictRestsOnNeeded ==
  ASSUME hello \in Hellos, NEW n \in Nat
  PROVE  /\ Needed \in Nat /\ HeaderSize <= Needed
         /\ n < Needed => Verdict(n) = "more"
         /\ n >= Needed /\ hello.type # "client_hello" => Verdict(n) = "unexpected_message"
         /\ n >= Needed /\ hello.type = "client_hello" =>
              Verdict(n) \in {"too large", hello.body}
  <1>1. hello.length \in Nat
    <2>1. hello.length \in 0 .. MaxHello + 1
      BY DEF Hellos
    <2>2. ASSUME NEW l \in 0 .. MaxHello + 1 PROVE l \in Nat
      BY SizesAssumption
    <2> QED
      BY <2>1, <2>2
  <1>2. Needed \in Nat /\ HeaderSize <= Needed
    BY <1>1, SizesAssumption DEF Needed
  <1>3. ASSUME n < Needed PROVE Verdict(n) = "more"
    BY <1>1, <1>3, SizesAssumption DEF Needed, Verdict
  <1>4. ASSUME n >= Needed
        PROVE  /\ hello.type # "client_hello" => Verdict(n) = "unexpected_message"
               /\ hello.type = "client_hello" =>
                    Verdict(n) \in {"too large", hello.body}
    BY <1>1, <1>4, SizesAssumption DEF Needed, Verdict
  <1> QED
    BY <1>2, <1>3, <1>4

\* do_tls_handshake judges the first message as a whole and once, however the
\* peer splits it into records.
THEOREM HelloJudgedWhole == Spec => []JudgedWhole
  <1>1. Init => JudgedWhole
    <2> SUFFICES ASSUME Init PROVE JudgedWhole
      OBVIOUS
    <2>1. Needed \in Nat /\ HeaderSize <= Needed
      BY VerdictRestsOnNeeded DEF Init
    <2> QED
      BY <2>1, SizesAssumption DEF Init, JudgedWhole
  <1>2. ConnectionInv /\ JudgedWhole /\ [Next]_vars => JudgedWhole'
    <2> SUFFICES ASSUME ConnectionInv, JudgedWhole, [Next]_vars PROVE JudgedWhole'
      OBVIOUS
    <2>0. TypeOK /\ SentInv /\ HeaderSize \in Nat
      BY SizesAssumption DEF ConnectionInv
    <2>1. hello' = hello /\ Needed' = Needed
      BY DEF Next, vars, helloVars, HelloUnchanged, ForeignRecord, HelloRecord,
             HandshakeStalls, HandshakeRead, Handshake, HandshakeFails, PeerCloses,
             ReadPreface, ReadData, ReadReturns, ReadFlushFails, ReadAnswers, WriteData,
             Served, CloseStep, CloseSession, CloseTls, Drain, CloseTransport, WaitClosed,
             Cancel, Needed
    <2>2. Needed \in Nat
      BY <2>0, VerdictRestsOnNeeded DEF TypeOK
    <2>3. ASSUME UNCHANGED <<got, alert, foreign>>,
                 pc' = "hello" => pc = "hello",
                 pc' = "handshake" => pc = "handshake",
                 established' => established \/ pc = "handshake"
          PROVE  JudgedWhole'
      BY <2>1, <2>3 DEF JudgedWhole
    <2>4. CASE ForeignRecord
      BY <2>0, <2>1, <2>4
      DEF ForeignRecord, RaisesAlert, RaisesSilently, Raises, HelloUnchanged, tlsVars,
          JudgedWhole, SentInv
    <2>5. ASSUME NEW n \in 1 .. MaxRecord, HelloRecord(n) PROVE JudgedWhole'
      <3>1. /\ pc = "hello" /\ ~established' /\ got' = got + n
            /\ UNCHANGED foreign /\ alert = 0
        BY <2>0, <2>5 DEF HelloRecord, HelloUnchanged, tlsVars, SentInv
      <3>2. got' \in Nat
        BY <2>0, <3>1, SizesAssumption DEF TypeOK
      <3>3. \/ Verdict(got') = "more" /\ pc' = "hello" /\ alert' = 0
            \/ Verdict(got') = "unexpected_message" /\ pc' = "close" /\ alert' = 10
            \/ Verdict(got') = "too large" /\ pc' = "close" /\ alert' = 0
            \/ Verdict(got') = "malformed" /\ pc' = "close" /\ alert' = 50
            \/ Verdict(got') = "disjoint ALPN" /\ pc' = "close" /\ alert' = 120
            \/ Verdict(got') = "good" /\ pc' = "handshake" /\ alert' = 0
        BY <2>5, <3>1 DEF HelloRecord, RaisesAlert, RaisesSilently, Raises, Returns
      <3>4. CASE got' < Needed
        <4>1. Verdict(got') = "more"
          BY <2>0, <3>2, <3>4, VerdictRestsOnNeeded DEF TypeOK
        <4> QED
          BY <2>1, <3>1, <3>3, <3>4, <4>1 DEF JudgedWhole
      <3>5. CASE got' >= Needed
        <4>1. /\ hello.type # "client_hello" => Verdict(got') = "unexpected_message"
              /\ hello.type = "client_hello" =>
                   Verdict(got') \in {"too large", hello.body}
          BY <2>0, <3>2, <3>5, VerdictRestsOnNeeded DEF TypeOK
        <4>2. hello.body \in {"good", "malformed", "disjoint ALPN"}
          BY <2>0 DEF TypeOK, Hellos
        <4>3. got' >= Needed'
          BY <2>1, <3>5
        <4> QED
          BY <2>1, <3>1, <3>3, <4>1, <4>2, <4>3 DEF JudgedWhole
      <3> QED
        BY <2>2, <3>2, <3>4, <3>5
    <2>6. CASE HandshakeStalls
      BY <2>3, <2>6
      DEF HandshakeStalls, RaisesSilently, Raises, HelloUnchanged, tlsVars
    <2>7. ASSUME NEW n \in 1 .. MaxRecord, HandshakeRead(n) PROVE JudgedWhole'
      <3>1. /\ pc = "handshake" /\ pc' # "hello" /\ ~established' /\ got' = got + n
            /\ UNCHANGED foreign /\ alert' = 0
        BY <2>0, <2>7
        DEF HandshakeRead, Raises, Returns, HelloUnchanged, tlsVars, SentInv
      <3>2. got' >= Needed'
        <4>1. got \in Nat /\ got >= Needed
          BY <2>0, <3>1 DEF JudgedWhole, TypeOK
        <4> QED
          BY <2>1, <2>2, <3>1, <4>1, SizesAssumption
      <3> QED
        BY <2>1, <3>1, <3>2 DEF JudgedWhole
    <2>8. CASE Handshake \/ HandshakeFails
      BY <2>3, <2>8 DEF Handshake, HandshakeFails, Returns, Raises, helloVars, tlsVars
    <2>9. CASE \/ PeerCloses \/ ReadPreface \/ ReadData \/ ReadFlushFails \/ ReadAnswers
               \/ WriteData \/ Served
      BY <2>3, <2>9
      DEF PeerCloses, ReadPreface, ReadData, ReadReturns, ReadFlushFails, ReadAnswers,
          WriteData, Served, Returns, Raises, helloVars, tlsVars
    <2>10. CASE CloseStep
      BY <2>3, <2>10
      DEF CloseStep, CloseSession, CloseTls, Drain, CloseTransport, WaitClosed, Returns,
          Raises, helloVars, tlsVars
    <2>11. CASE Cancel
      <3>1. pc' \in {"close", "finally", "wait", "done"}
        BY <2>0, <2>11 DEF Cancel, TypeOK
      <3> QED
        BY <2>3, <2>11, <3>1 DEF Cancel, helloVars, tlsVars
    <2>12. CASE UNCHANGED vars
      BY <2>3, <2>12 DEF vars, helloVars, tlsVars
    <2> QED
      BY <2>4, <2>5, <2>6, <2>7, <2>8, <2>9, <2>10, <2>11, <2>12 DEF Next
  <1> QED
    BY <1>1, <1>2, ConnectionInvariant, PTL DEF Spec
=============================================================================
