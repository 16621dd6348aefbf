---------------------------- MODULE Fingerprints ----------------------------
(***************************************************************************)
(* JA3, JA4 and the Akamai fingerprint (solvetls/fingerprints.py), and the *)
(* ALPN test of the handshake (connection.py) over the same ClientHello.   *)
(* A fingerprint is the tuple of what its text is made of: the text is     *)
(* injective in it, and the hashes are left out.                           *)
(***************************************************************************)
EXTENDS ClientHello, FiniteSetsExt

Grease == {4096 * i + 2560 + 16 * i + 10 : i \in 0 .. 15}

NoGrease(values) == SelectSeq(values, LAMBDA v : v \notin Grease)

Types(hello) == [i \in DOMAIN hello.extensions |-> hello.extensions[i].type]

\* _extension_data: of the first extension of that type.
Offers(hello, type) == type \in Range(Types(hello))
Data(hello, type) ==
  hello.extensions[Min({i \in DOMAIN hello.extensions :
                          hello.extensions[i].type = type})].data

\* The helpers below it read what they can, and nothing of a malformed payload.
OrNothing(list) == IF list = Malformed THEN << >> ELSE list

Uint16Vector(hello, type, k) ==
  IF Offers(hello, type) THEN OrNothing(Uint16s(Vector(Data(hello, type), k))) ELSE << >>

SupportedGroups(hello) == Uint16Vector(hello, Groups, 2)
SignatureAlgorithms(hello) == Uint16Vector(hello, Signatures, 2)

SupportedVersions_Long(hello) == Uint16Vector(hello, Versions, 2)

SupportedVersions(hello) == Uint16Vector(hello, Versions, 1)

EcPointFormats(hello) ==
  IF Offers(hello, PointFormats) THEN OrNothing(Vector(Data(hello, PointFormats), 1))
                              ELSE << >>

AlpnProtocols(hello) ==
  IF Offers(hello, Alpn) THEN OrNothing(ParseAlpnProtocols(Data(hello, Alpn))) ELSE << >>

BuildJa3(hello) ==
  <<hello.version, NoGrease(hello.ciphers), NoGrease(Types(hello)),
    NoGrease(SupportedGroups(hello)), EcPointFormats(hello)>>

-----------------------------------------------------------------------------
Alphanumeric(b) == b \in (48 .. 57) \cup (65 .. 90) \cup (97 .. 122)

\* The ends of the first protocol, or those of its hexadecimal form.
Ja4Alpn(protocols) ==
  LET named == SelectSeq(protocols, LAMBDA p : Len(p) # 2 \/ Uint(p) \notin Grease)
      Hex(digit) == IF digit < 10 THEN 48 + digit ELSE 87 + digit
  IN IF named = << >> \/ named[1] = << >> THEN <<48, 48>>
     ELSE IF Alphanumeric(named[1][1]) /\ Alphanumeric(Last(named[1]))
       THEN <<named[1][1], Last(named[1])>>
     ELSE <<Hex(named[1][1] \div 16), Hex(Last(named[1]) % 16)>>

Sorted(values) == SortSeq(values, <)

Ja4Extensions_AsSent(types) ==
  SelectSeq(types, LAMBDA t : t \notin {ServerName, Alpn})

\* What ja4_c hashes of the extensions' types.
Ja4Extensions(types) ==
  Sorted(SelectSeq(types, LAMBDA t : t \notin {ServerName, Alpn}))

\* JA4_VERSIONS tells the known versions apart.
Ja4Version(v) == IF v \in {2} \cup (768 .. 772) THEN v ELSE 0

BuildJa4(hello) ==
  LET versions == NoGrease(SupportedVersions(hello))
      ciphers == NoGrease(hello.ciphers)
      types == NoGrease(Types(hello))
      hashed == Ja4Extensions(types)
  IN [version |-> Ja4Version(IF versions = << >> THEN hello.version
                              ELSE Max(Range(versions))),
      sni |-> Offers(hello, ServerName),
      counts |-> <<Min({Len(ciphers), 99}), Min({Len(types), 99})>>,
      alpn |-> Ja4Alpn(AlpnProtocols(hello)),
      ciphers |-> Sorted(ciphers),
      extensions |-> IF hashed = << >> THEN << >>
                     ELSE <<hashed, NoGrease(SignatureAlgorithms(hello))>>]

\* _has_shared_alpn: "h2" and "http/1.1" are supported; a malformed offer is left
\* to OpenSSL.
SupportedAlpn == {<<104, 50>>, <<104, 116, 116, 112, 47, 49, 46, 49>>}

HasSharedAlpn(hello) ==
  \/ ~Offers(hello, Alpn)
  \/ LET protocols == ParseAlpnProtocols(Data(hello, Alpn))
     IN IF protocols = Malformed THEN TRUE
        ELSE protocols = << >> \/ Range(protocols) \cap SupportedAlpn # {}

-----------------------------------------------------------------------------
\* The frames that count: those before the first HEADERS.
Initial(frames) ==
  LET headers == {i \in DOMAIN frames : frames[i].type = "HEADERS"}
  IN IF headers = {} THEN frames ELSE SubSeq(frames, 1, Min(headers) - 1)

\* A frame whose payload could not be decoded is not looked at; of the window
\* updates only the connection's first one is.  A pseudo-header is named by the
\* letter after its colon; a name is the sequence of its characters.
BuildAkamai(settings, frames, names) ==
  LET known == SelectSeq(Initial(frames), LAMBDA f : f.decoded)
      updates == SelectSeq(known, LAMBDA f : f.type = "WINDOW_UPDATE" /\ f.stream = 0)
      priorities == SelectSeq(known, LAMBDA f : f.type = "PRIORITY")
      pseudo == SelectSeq(names, LAMBDA name : Len(name) > 1 /\ name[1] = ":")
  IN IF frames = << >> THEN << >>
     ELSE <<settings, IF updates = << >> THEN -1 ELSE updates[1].value,
            [i \in DOMAIN priorities |-> <<priorities[i].stream, priorities[i].value>>],
            [i \in DOMAIN pseudo |-> pseudo[i][2]]>>
=============================================================================
