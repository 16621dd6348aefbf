------------------------------- MODULE Capture -------------------------------
(***************************************************************************)
(* What is captured of one client and what the server computes from it:    *)
(* the SYN, the ClientHello and its fingerprints, the HTTP/2 frames, and   *)
(* the fields of the request.  The initial states enumerate the inputs;    *)
(* the steps are the variations a client makes between two connections     *)
(* (GREASE, the order of its offers) and the frames it sends.  Inputs that *)
(* are read byte by byte come from an encoder the readers are compared     *)
(* with.                                                                   *)
(***************************************************************************)
EXTENDS Fingerprints, Syn, HttpLists, HttpFields

CONSTANT MaxChanges  \* bound on the variations of an offer

ASSUME CaptureAssumption == MaxChanges \in Nat

VARIABLES
  kind,     \* which input this is
  input,    \* the input
  origin,   \* for an offer, the one it is a variation of
  changes   \* the kinds of changes made since

vars == <<kind, input, origin, changes>>

-----------------------------------------------------------------------------
(* Inputs *)

\* Past the bytes that steer the parser, every byte is its own position.
Bytes(p) ==
  [i \in 1 .. p.length |-> CASE i = 1 -> 16 * p.version + p.words
                             [] i = 7 -> p.next
                             [] OTHER -> i]

Packets ==
  [version : {4, 5, 6}, words : {0, 4, 5, 6, 15}, next : {6, 7},
   length : {0, 1, 19, 20, 39, 40, 41, 43, 44, 59, 60, 79, 80, 100}]

Http11 == <<104, 116, 116, 112, 47, 49, 46, 49>>

\* What each extension offers: numbers, or protocols.
Plain ==
  [ciphers |-> <<4866, 4865>>, order |-> <<ServerName, Groups, Signatures, Alpn>>,
   groups |-> <<29, 23>>, signatures |-> <<2052, 1027>>, versions |-> <<771, 772>>,
   formats |-> <<0, 1>>, protocols |-> <<<<104, 50>>, Http11>>]

OfferChoices ==
  {[Plain EXCEPT !.ciphers = c, !.order = o, !.protocols = p] :
     c \in {<< >>, <<4866, 4865>>, <<4865, 4866, 4865>>},
     o \in {<< >>, <<Alpn>>, <<ServerName, Groups, Signatures, Alpn>>,
            <<Versions, Padding, PointFormats, Alpn>>},
     p \in {<< >>, <<<< >>>>, <<<<104, 50>>, Http11>>, <<<<33, 171>>>>}}

Session == <<9>>
Compression == <<0>>
Random == [i \in 1 .. RandomSize |-> i]

U16(n) == <<n \div 256, n % 256>>
U16List(l) == FlattenSeq([i \in DOMAIN l |-> U16(l[i])])
Short(d) == <<Len(d)>> \o d
Long(d) == U16(Len(d)) \o d

\* The payload that carries such values, or the items of a list.
Payload(type, l) ==
  CASE type \in {Groups, Signatures} -> Long(U16List(l))
    [] type = Versions -> Short(U16List(l))
    [] type = PointFormats -> Short(l)
    [] type = Alpn -> Long(FlattenSeq([i \in DOMAIN l |-> Short(l[i])]))
    [] type = ServerName ->
         Long(FlattenSeq([i \in DOMAIN l |-> <<l[i].type>> \o Long(l[i].data)]))
    [] type = KeyShare ->
         Long(FlattenSeq([i \in DOMAIN l |-> U16(l[i].type) \o Long(l[i].data)]))
    [] type = RecordSizeLimit -> U16List(l)

\* The extensions with values, and the values of an offer.
Listed == {Groups, Signatures, Versions, PointFormats, Alpn}

Offered(o, type) ==
  CASE type = Groups -> o.groups
    [] type = Signatures -> o.signatures
    [] type = Versions -> o.versions
    [] type = PointFormats -> o.formats
    [] type = Alpn -> o.protocols

Body(o, type) == IF type \in Listed THEN Payload(type, Offered(o, type)) ELSE << >>

\* The bytes up to the extensions, and all of them.
Prelude(o) ==
  U16(771) \o Random \o Short(Session) \o Long(U16List(o.ciphers)) \o Short(Compression)

Encoded(o) ==
  Prelude(o) \o Long(FlattenSeq([i \in DOMAIN o.order |->
                                 U16(o.order[i]) \o Long(Body(o, o.order[i]))]))

\* Short payloads of every type, and offers of supported and other protocols that
\* are complete, cut off or too long.
Payloads ==
  [type : Listed \cup {ServerName, KeyShare, RecordSizeLimit},
   data : BoundedSeq({0, 1, 2, 3}, 5)]
  \cup [type : {Alpn},
        data : UNION {LET d == Payload(Alpn, l) IN {d, Front(d), d \o <<1>>} :
                        l \in BoundedSeq({<<104, 50>>, Http11, <<104>>, << >>}, 2)}]

Field(n, v) == [name |-> n, value |-> v]

Authorities ==
  [host : {"a", "A", "b", "", Invalid}, port : {NoPort, << >>, <<4, 4, 3>>, <<0, 8, 0>>}]
    \cup [host : {"a"}, port : {<<0>>, <<6, 5, 5, 3, 5>>, <<6, 5, 5, 3, 6>>}]

Requests ==
  {<<Field(":method", m), Field(":scheme", s), Field(":path", p)>> :
     m \in {"GET", "OPTIONS", "CONNECT", Invalid}, s \in {"http", "https", "other"},
     p \in {"/", "*", Invalid}}

\* A request with authorities in one or both fields, or other fields twice.
FieldLists ==
  {r \o <<Field(":authority", a), Field("host", h)>> \o s :
     r \in {<<Field(":method", m), Field(":scheme", "https"), Field(":path", "/")>> :
              m \in {"GET", "CONNECT"}},
     a \in Authorities, h \in Authorities,
     s \in {<< >>, <<Field("host", [host |-> "b", port |-> << >>])>>}}
  \cup {r \o <<Field(n, [host |-> "a", port |-> <<4, 4, 3>>])>> \o s :
          r \in Requests, n \in {":authority", "host"},
          s \in {<< >>, <<Field("te", "trailers"), Field("te", "")>>,
                 <<Field("te", "gzip")>>, <<Field("connection", "close")>>,
                 <<Field(":path", "/")>>, <<Field(":protocol", "websocket")>>}}
  \cup {<<Field(":method", "GET"), Field(":scheme", "https"), Field(":path", "/"),
          Field("host", [host |-> "a", port |-> NoPort]),
          Field("content-length", k), Field("content-length", l)>> :
          k, l \in {<< >>, <<0>>, <<1>>, <<0, 1>>, <<1, 0>>, <<0, 0>>}}
  \cup {<<Field(n, <<1>>), Field("te", "trailers")>> :
          n \in {"content-length", "x", ":path", Invalid}}

Texts == BoundedSeq({"a", ",", "\"", "\\", " "}, 3)

-----------------------------------------------------------------------------
Init ==
  /\ changes = << >>
  /\ \/ kind = "syn" /\ input \in Packets
     \/ kind = "offer" /\ input \in OfferChoices
     \/ kind = "payload" /\ input \in Payloads
     \/ kind = "frames" /\ input = << >>
     \/ kind = "fields" /\ input \in [fields : FieldLists, trailers : BOOLEAN]
     \/ kind = "lists" /\ input \in Texts \X Texts
  /\ origin = input

\* The next connection's offer differs in one place.
Change(how, next) ==
  /\ kind = "offer" /\ Len(changes) < MaxChanges
  /\ input' = next
  /\ changes' = Append(changes, how)
  /\ UNCHANGED <<kind, origin>>

SomeGrease == {2570, 64250}

GreaseCiphers(i, g) ==
  Change("grease", [input EXCEPT !.ciphers = InsertAt(@, i, g)])

GreaseExtensions(i, g) ==
  Change("grease", [input EXCEPT !.order = InsertAt(@, i, g)])

GreaseValues(i, g) ==
  \/ Change("grease", [input EXCEPT !.groups = InsertAt(@, i, g)])
  \/ Change("grease", [input EXCEPT !.signatures = InsertAt(@, i, g)])
  \/ Change("grease", [input EXCEPT !.versions = InsertAt(@, i, g)])

GreaseProtocols(i, g) ==
  Change("grease", [input EXCEPT !.protocols = InsertAt(@, i, U16(g))])

Swapped(s, i) == [s EXCEPT ![i] = s[i + 1], ![i + 1] = s[i]]

Reorder(i) ==
  \/ i < Len(input.ciphers)
     /\ Change("order", [input EXCEPT !.ciphers = Swapped(@, i)])
  \/ i < Len(input.order)
     /\ Change("order", [input EXCEPT !.order = Swapped(@, i)])

SomeNames == <<<<":", "m">>, <<":">>, <<"m">>>>

FrameChoices ==
  [type : {"WINDOW_UPDATE", "PRIORITY"}, stream : {0, 3}, value : {1, 2},
   decoded : BOOLEAN]
    \cup [type : {"HEADERS", "SETTINGS"}, stream : {1}, value : {0}, decoded : {TRUE}]

ReceiveFrame(f) ==
  /\ kind = "frames" /\ Len(input) <= MaxChanges
  /\ input' = Append(input, f)
  /\ UNCHANGED <<kind, origin, changes>>

Next ==
  \/ /\ kind = "offer"
     /\ \E g \in SomeGrease :
          \/ \E i \in 1 .. Len(input.ciphers) + 1 : GreaseCiphers(i, g)
          \/ g \notin Range(input.order)
             /\ \E i \in 1 .. Len(input.order) + 1 : GreaseExtensions(i, g)
          \/ \E i \in 1 .. 3 : GreaseValues(i, g)
          \/ \E i \in 1 .. Len(input.protocols) + 1 : GreaseProtocols(i, g)
  \/ /\ kind = "offer"
     /\ \E i \in 1 .. 4 : Reorder(i)
  \/ \E f \in FrameChoices : ReceiveFrame(f)

Spec == Init /\ [][Next]_vars

-----------------------------------------------------------------------------
(* Properties *)

\* The ClientHello is read exactly: its version, its random and every vector of it
\* (session, ciphers, compression methods, extensions and their payloads) are what
\* was encoded, a message cut off anywhere is refused except where TLS lets it end,
\* before the extensions, and what follows them is not looked at.
HelloExact(o) ==
  LET d == Encoded(o)
      hello == ParseClientHello(d)
  IN /\ hello.version = 771 /\ hello.random = Random
     /\ hello.session = Session /\ hello.compression = Compression
     /\ hello.ciphers = o.ciphers /\ Types(hello) = o.order
     /\ \A i \in DOMAIN o.order : hello.extensions[i].data = Body(o, o.order[i])
     /\ ParseClientHello(d \o <<1>>) = hello
     /\ \A n \in 0 .. Len(d) - 1 :
          ParseClientHello(SubSeq(d, 1, n)) =
            IF n = Len(Prelude(o)) THEN [hello EXCEPT !.extensions = << >>]
                                   ELSE Malformed

\* The headers of a SYN are read where RFC 791, 8200 and 9293 put their fields,
\* behind IPv4 options of any length, and from no packet that ends before.
SynExact(p) ==
  LET d == Bytes(p)
      syn == ParseSyn(d)
      tcp == IF p.version = 6 THEN 40 ELSE 4 * Max({p.words, 5})
      At(offset, n) == SubSeq(d, offset + 1, offset + n)
  IN IF \/ p.length < tcp + 20 \/ p.version = 5
        \/ p.version = 6 /\ p.next # 6
       THEN syn = None
       ELSE /\ syn[2].src_port = At(tcp, 2) /\ syn[2].dst_port = At(tcp + 2, 2)
            /\ syn[2].seq = At(tcp + 4, 4) /\ syn[2].window = At(tcp + 14, 2)
            /\ syn[1].ttl = At(IF p.version = 4 THEN 8 ELSE 7, 1)
            /\ syn[1].src = IF p.version = 4 THEN At(12, 4) ELSE At(8, 16)
            /\ syn[1].dst = IF p.version = 4 THEN At(16, 4) ELSE At(24, 16)

\* Both readers of binary input return exactly what was sent, or nothing.
ReadersExact ==
  /\ kind = "offer" => HelloExact(input)
  /\ kind = "syn" => SynExact(input)

\* The list a fingerprint takes from an extension.
Fingerprinted(hello, type) ==
  CASE type = Groups -> SupportedGroups(hello)
    [] type = Signatures -> SignatureAlgorithms(hello)
    [] type = Versions -> SupportedVersions(hello)
    [] type = PointFormats -> EcPointFormats(hello)
    [] type = Alpn -> AlpnProtocols(hello)

\* What the report decodes is exactly what the payload encodes.
DecodedExactly(type, data) ==
  LET decoded == DecodeExtension(type, data)
  IN decoded # Malformed => Payload(type, decoded) = data

\* Of a payload the report decodes, the fingerprint takes the same list.  Of one it
\* calls malformed the fingerprint takes the vector in front of trailing bytes: the
\* list of the one prefix that the report would decode, and nothing if there is no
\* such prefix.  Trailing bytes make an ALPN payload worthless to both.
TakenAlike(type, data) ==
  LET hello == [extensions |-> <<[type |-> type, data |-> data]>>]
      List(n) == DecodeExtension(type, SubSeq(data, 1, n))
      fronts == {n \in 0 .. Len(data) : List(n) # Malformed}
      used == IF type = Alpn THEN fronts \cap {Len(data)} ELSE fronts
  IN /\ Cardinality(fronts) <= 1
     /\ Fingerprinted(hello, type) = IF used = {} THEN << >> ELSE List(Max(used))

\* The report and the fingerprints, which read the same payload separately, agree
\* on it (TakenAlike), and both agree with an encoder: a payload is decoded to the
\* values it encodes, and to no others.  A handshake is refused for its ALPN just
\* when the report shows protocols, and none that is supported.
DecodersAgree ==
  /\ kind = "payload" =>
       LET hello == [extensions |-> <<[type |-> input.type, data |-> input.data]>>]
           decoded == DecodeExtension(input.type, input.data)
       IN /\ DecodedExactly(input.type, input.data)
          /\ input.type \in Listed => TakenAlike(input.type, input.data)
          /\ input.type = Alpn =>
               (~HasSharedAlpn(hello) <=>
                  IF decoded = Malformed THEN FALSE
                  ELSE Len(decoded) > 0 /\ Range(decoded) \cap SupportedAlpn = {})
  /\ kind = "offer" =>
       \A type \in Listed : DecodeExtension(type, Body(input, type)) = Offered(input, type)

\* A fingerprint tells clients apart and not connections.  GREASE changes neither
\* JA3 nor JA4, the order of ciphers and extensions does not change JA4.  Later
\* frames "must not change the fingerprint depending on whether the TLS read also
\* contained post-request traffic": with the HEADERS the Akamai one is complete.
FingerprintsCanonical ==
  /\ kind = "offer" =>
       LET now == ParseClientHello(Encoded(input))
           before == ParseClientHello(Encoded(origin))
       IN /\ BuildJa4(now) = BuildJa4(before)
          /\ "order" \notin Range(changes) => BuildJa3(now) = BuildJa3(before)
  /\ kind = "frames" =>
       \A i \in DOMAIN input : input[i].type = "HEADERS" =>
         BuildAkamai(<<1>>, input, SomeNames)
           = BuildAkamai(<<1>>, SubSeq(input, 1, i), SomeNames)

\* A quoted-string (RFC 9110 5.6.4) with that content.
Quoted(text) ==
  <<"\"">> \o FlattenSeq([i \in DOMAIN text |->
                 (IF text[i] \in {"\"", "\\"} THEN <<"\\">> ELSE << >>) \o <<text[i]>>])
         \o <<"\"">>

\* Splitting a list over several fields does not change it: if each of two fields
\* is a list, together they are the first list followed by the second.  Members
\* are not empty and carry no outer space, a list written out again is the same
\* list, and any text at all, quoted, is one member.
ListsCombine ==
  kind = "lists" =>
    LET both == ParseHttpList(input)
        quoted == <<Quoted(input[1]), Quoted(input[2])>>
    IN /\ Combine(<<input[1]>>, <<input[2]>>)
       /\ Tidy(input)
       /\ both # Unterminated => ParseHttpList(both) = both
       /\ ParseHttpList(quoted) = quoted

\* No two readers of an accepted header block can disagree about it, although the
\* code looks at the last field of a name and h2 at a rewritten copy: each
\* authority in it names the same host and port, each Content-Length is the same
\* number, no pseudo-header comes twice and trailers change neither.
FieldsUnambiguous ==
  kind = "fields" /\ ValidateFields(input.fields, input.trailers) =>
    Unambiguous(input.fields, input.trailers)
=============================================================================
