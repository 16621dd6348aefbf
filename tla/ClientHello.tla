----------------------------- MODULE ClientHello -----------------------------
(***************************************************************************)
(* The observational parser of the ClientHello: ClientHelloReader          *)
(* (solvetls/tls/clienthello.py) and the decoders of extension payloads    *)
(* (tls/extensions.py).  The names that reports give to numbers are left   *)
(* out; a decoded extension is the list of its raw values.                 *)
(***************************************************************************)
EXTENDS Wire

\* ExtensionType
ServerName == 0
Groups == 10
PointFormats == 11
Signatures == 13
Alpn == 16
Padding == 21
EncryptThenMac == 22
ExtendedMasterSecret == 23
CompressCertificate == 27
RecordSizeLimit == 28
Versions == 43
PskModes == 45
SignaturesCert == 50
KeyShare == 51

RandomSize == 32

\* ClientHelloReader.parse.  Extensions may be missing altogether, and what
\* follows them is left to OpenSSL.
ParseClientHello(d) ==
  LET session == Drop(d, 2 + RandomSize)
      suites == Skip(session, 1)
      methods == Skip(suites, 2)
      tail == Skip(methods, 1)
      ciphers == Uint16s(Vector(suites, 2))
      extensions == IF tail = << >> THEN << >>
                    ELSE LET list == Vector(tail, 2)
                         IN IF list = Malformed THEN Malformed ELSE Items(list, 2, 2)
  IN IF tail = Malformed \/ ciphers = Malformed \/ extensions = Malformed
       THEN Malformed
       ELSE [version |-> Uint(Read(d, 2)), random |-> Read(Drop(d, 2), RandomSize),
             session |-> Vector(session, 1), ciphers |-> ciphers,
             compression |-> Vector(methods, 1), extensions |-> extensions]

\* parse_alpn_protocols, which is strict about trailing bytes by itself.
ParseAlpnProtocols(d) ==
  LET list == Vector(d, 2)
  IN IF Skip(d, 2) # << >> THEN Malformed
     ELSE LET items == Items(list, 0, 1)
          IN IF items = Malformed THEN Malformed
             ELSE [i \in DOMAIN items |-> items[i].data]

\* The decoder of a type, and the bytes it leaves: whole payloads, vectors of
\* numbers or bytes, and lists of items.  Other types have no decoder.
Decoded(type, d) ==
  LET List(k) == IF Vector(d, 2) = Malformed THEN Malformed
                 ELSE Items(Vector(d, 2), k, 2)
  IN CASE type \in {Groups, Signatures, SignaturesCert} -> Uint16s(Vector(d, 2))
       [] type \in {Versions, CompressCertificate} -> Uint16s(Vector(d, 1))
       [] type \in {PointFormats, PskModes} -> Vector(d, 1)
       [] type = ServerName -> List(1)
       [] type = KeyShare -> List(2)
       [] type = Alpn -> ParseAlpnProtocols(d)
       [] type = RecordSizeLimit -> Uint16s(Read(d, 2))
       [] type \in {Padding, EncryptThenMac, ExtendedMasterSecret} -> d

Trailing(type, d) ==
  CASE type \in {Groups, Signatures, SignaturesCert, ServerName, KeyShare} -> Skip(d, 2)
    [] type \in {Versions, CompressCertificate, PointFormats, PskModes} -> Skip(d, 1)
    [] type = RecordSizeLimit -> Drop(d, 2)
    [] OTHER -> << >>

\* decode_extension: "the complete payload", or an error.
DecodeExtension(type, d) ==
  IF Trailing(type, d) # << >> THEN Malformed ELSE Decoded(type, d)
=============================================================================
