----------------------------- MODULE HttpFields -----------------------------
(***************************************************************************)
(* The fields of an HTTP/2 request: authorities (uri.py) and               *)
(* validate_fields (http2/validation.py), with h2's own validation as the  *)
(* code relies on it.                                                      *)
(*                                                                         *)
(* An authority is a host and the digits of a port; hosts "A" and "a"      *)
(* differ in spelling.  The grammar of names, paths and IP literals is     *)
(* reduced to "invalid", a Content-Length that is no number to the empty   *)
(* one.                                                                    *)
(***************************************************************************)
EXTENDS FieldValues

-----------------------------------------------------------------------------
(* Authorities *)

NoPort == <<-1>>
MaxPort == 65535

\* validate_authority does not raise.  The port is checked by its significant
\* digits; CONNECT needs one.
ValidAuthority(a, connect) ==
  /\ a.host # Invalid
  /\ connect => a.host # "" /\ a.port \notin {NoPort, << >>} /\ Number(a.port) # 0
  /\ a.port # NoPort => Number(a.port) <= MaxPort

\* normalize_authority
Normalized(a, scheme) ==
  <<IF a.host = "A" THEN "a" ELSE a.host,
    IF a.port \notin {NoPort, << >>} THEN Number(a.port)
    ELSE CASE scheme = "http" -> 80 [] scheme = "https" -> 443 [] OTHER -> -1>>

-----------------------------------------------------------------------------
(* validate_fields *)

\* The fields of a name and their values; dict(headers) keeps the last.
Named(fields, name) == {i \in DOMAIN fields : fields[i].name = name}
Values(fields, name) == {fields[i].value : i \in Named(fields, name)}
Sent(fields, name) == Named(fields, name) # {}
Value(fields, name) == fields[Max(Named(fields, name))].value

\* _validate_raw_fields and _validate_field_lists
SingleHost_Unchecked(fields) == TRUE

SingleHost(fields) == Cardinality(Named(fields, "host")) <= 1

ValidLists(fields, trailers) ==
  /\ \A i \in DOMAIN fields : fields[i].name # Invalid
  /\ \A l \in Values(fields, "content-length") : l # << >> /\ ~trailers
  /\ \A k, l \in Values(fields, "content-length") : Significant(k) = Significant(l)
  /\ SingleHost(fields)
  /\ Values(fields, "te") \subseteq {"trailers", ""}

\* _validate_request_authority
ValidRequestAuthority(fields, connect) ==
  LET name == IF Sent(fields, ":authority") THEN ":authority" ELSE "host"
      scheme == IF Sent(fields, ":scheme") THEN Value(fields, ":scheme") ELSE ""
  IN /\ Sent(fields, name)
     /\ ValidAuthority(Value(fields, name), connect)
     /\ Value(fields, name).host # ""
     /\ Sent(fields, ":authority") /\ Sent(fields, "host") =>
          /\ ValidAuthority(Value(fields, "host"), connect)
          /\ Normalized(Value(fields, ":authority"), scheme)
               = Normalized(Value(fields, "host"), scheme)

\* _validate_request_target
ValidRequestTarget(fields) ==
  LET method == IF Sent(fields, ":method") THEN Value(fields, ":method") ELSE Invalid
      scheme == IF Sent(fields, ":scheme") THEN Value(fields, ":scheme") ELSE Invalid
      path == IF Sent(fields, ":path") THEN Value(fields, ":path") ELSE ""
  IN /\ method # Invalid /\ ~Sent(fields, ":protocol")
     /\ method # "CONNECT" =>
          /\ scheme # Invalid /\ path # Invalid
          /\ scheme \in {"http", "https"} =>
               path = "/" \/ (path = "*" /\ method = "OPTIONS")
     /\ method = "CONNECT" => Sent(fields, ":authority")
     /\ ValidRequestAuthority(fields, method = "CONNECT")

\* _headers_for_h2: what h2 is shown.
HeadersForH2(fields, trailers) ==
  [i \in DOMAIN fields |->
     CASE fields[i].name = "te" -> [fields[i] EXCEPT !.value = "trailers"]
       [] fields[i].name = "host" /\ Sent(fields, ":authority") /\ ~trailers ->
            [fields[i] EXCEPT !.value = Value(fields, ":authority")]
       [] OTHER -> fields[i]]

Pseudo == {":method", ":scheme", ":path", ":authority", ":protocol"}

\* h2's validate_headers: pseudo-headers once and first, none in trailers; no
\* connection-specific field; Host and :authority equal byte for byte.
H2Validates(fields, trailers) ==
  LET pseudo == {i \in DOMAIN fields : fields[i].name \in Pseudo}
  IN /\ trailers => pseudo = {}
     /\ pseudo = 1 .. Cardinality(pseudo)
     /\ \A i, j \in pseudo : fields[i].name = fields[j].name => i = j
     /\ ~Sent(fields, "connection")
     /\ ~trailers /\ Sent(fields, "host") /\ Sent(fields, ":authority") =>
          Value(fields, "host") = Value(fields, ":authority")

ValidateFields(fields, trailers) ==
  /\ ValidLists(fields, trailers)
  /\ trailers \/ ValidRequestTarget(fields)
  /\ H2Validates(HeadersForH2(fields, trailers), trailers)

-----------------------------------------------------------------------------
(* What validate_fields promises *)

\* No two readers of the fields can disagree about them: each authority names the
\* same host and port, each Content-Length is the same number, no pseudo-header
\* comes twice, and trailers have neither.
Unambiguous(fields, trailers) ==
  LET authorities == Values(fields, ":authority") \cup Values(fields, "host")
      scheme == IF Sent(fields, ":scheme") THEN Value(fields, ":scheme") ELSE ""
  IN /\ trailers => \A n \in Pseudo \cup {"content-length"} : ~Sent(fields, n)
     /\ ~trailers => authorities # {}
     /\ ~trailers => \A a, b \in authorities :
          a.host # "" /\ Normalized(a, scheme) = Normalized(b, scheme)
     /\ \A k, l \in Values(fields, "content-length") : Number(k) = Number(l)
     /\ \A n \in Pseudo : \A i, j \in Named(fields, n) : i = j
=============================================================================
