----------------------------- MODULE RequestHead -----------------------------
(***************************************************************************)
(* The head of an HTTP/1.1 request: check_head_size, parse_request and     *)
(* what it calls (solvetls/http1.py), redirect_location (redirect.py).     *)
(*                                                                         *)
(* Of its bytes a head keeps the lengths of its parts: an optional empty   *)
(* line, method, target, version and fields, which are the request line up *)
(* to its first space, up to the second and after it, and the lines after  *)
(* the request line.  Of its meaning it keeps what parse_request decides   *)
(* on; a Content-Length is a sequence of digits.  The grammar of names,    *)
(* targets and authorities is left out.                                    *)
(***************************************************************************)
EXTENDS FieldValues, Functions

CONSTANTS
  MaxHead,         \* MAX_HEAD_SIZE
  VersionLength    \* length of "HTTP/1.1"

\* The smallest request line, and the two line breaks, fit a head.
ASSUME HeadAssumption ==
  VersionLength \in Nat \ {0} /\ MaxHead \in Nat /\ MaxHead > VersionLength + 7

Absent == -1

\* Heads of any lengths.  Parts are present from the left, and what begins with an
\* empty line has it as its lead; a field is at least one byte and a line break.
AnyHead ==
  {h \in [lead : {0, 2}, method : Nat, target : Nat \cup {Absent},
          version : Nat \cup {Absent}, fields : Nat \ {1, 2}] :
     h.target = Absent => h.method > 0 /\ h.version = Absent}

\* Length of a part that follows a space, with the space.
Part(length) == IF length = Absent THEN 0 ELSE 1 + length

\* Offset of the line break after the request line; length of the whole head.
LineEnd(h) == h.lead + h.method + Part(h.target) + Part(h.version)
Size(h) == LineEnd(h) + 2 + h.fields + 2

\* What the limit leaves for the target, next to the supported version.
Room(h) == MaxHead - (h.lead + h.method + 2 + VersionLength + 4)

LineTooLarge_IfSeen(h, n) == n >= LineEnd(h) + 2 /\ LineEnd(h) + 4 > MaxHead

\* The request line does not end within n bytes, or leaves no room for an end.
LineTooLarge(h, n) == n < LineEnd(h) + 2 \/ LineEnd(h) + 4 > MaxHead

\* check_head_size on the first n bytes received: 0, or the status of the error.
CheckHeadSize(h, n, incomplete) ==
  LET tooLarge == IF n >= Size(h) THEN Size(h) > MaxHead
                  ELSE n > MaxHead \/ (incomplete /\ n >= MaxHead)
      target == Min({h.target, n - h.lead - h.method - 1})
  IN IF ~tooLarge THEN 0
     ELSE IF LineTooLarge(h, n) /\ 0 < Room(h) /\ Room(h) < target THEN 414
     ELSE 431

-----------------------------------------------------------------------------
(* _validate_framing *)

\* A decimal without leading zeros.
Strip(digits) == IF Significant(digits) = << >> THEN <<0>> ELSE Significant(digits)

SameLength(members) == Cardinality({Strip(m) : m \in members}) = 1

NoDigit == -1
Digits == (0 .. 9) \cup {NoDigit}

Coding == [name : {"chunked", "gzip", "unknown", Invalid}, parameter : BOOLEAN]

\* 0 if the content's length is certain.  "lengths" and "codings" hold the members
\* of all fields; a Transfer-Encoding may have none ("encoded").
FramingStatus(r) ==
  LET codings == [i \in DOMAIN r.codings |-> r.codings[i].name]
      chunked == {i \in DOMAIN codings : codings[i] = "chunked"}
  IN IF r.lengths # << >>
       THEN IF \/ r.encoded
               \/ \E m \in Range(r.lengths) : m = << >> \/ NoDigit \in Range(m)
               \/ ~SameLength(Range(r.lengths))
              THEN 400 ELSE 0
     ELSE IF ~r.encoded THEN 0
     ELSE IF \/ Invalid \in Range(codings)
             \/ \E i \in chunked : r.codings[i].parameter
             \/ chunked # {Len(codings)}
       THEN 400
     ELSE IF "unknown" \in Range(codings) THEN 501 ELSE 0

-----------------------------------------------------------------------------
(* parse_request and redirect_location *)

\* Requests with any number of hosts, lengths and codings.  A field may be invalid
\* by itself, or contain a bare CR or LF, which makes its line end invalid.
AnyRequest ==
  [line : {"ok", Invalid, "unsupported"}, method : {"GET", "OPTIONS", "CONNECT"},
   target : {Invalid, "origin", "asterisk", "authority", "http", "other"},
   fields : {"ok", Invalid, "broken"}, hosts : Seq({"name", "empty", Invalid}),
   lengths : Seq(Seq(Digits)), encoded : BOOLEAN, codings : Seq(Coding)]

\* Request r can be what head h says: a valid request line has three parts, and
\* without fields there is neither a host nor content.
Says(h, r) ==
  /\ r.line # Invalid => h.method > 0 /\ h.target > 0 /\ h.version = VersionLength
  /\ h.fields = 0 =>
       r.fields = "ok" /\ r.hosts = << >> /\ r.lengths = << >> /\ ~r.encoded
  /\ ~r.encoded => r.codings = << >>

ValidTarget(r) ==
  \/ r.method = "CONNECT" /\ r.target = "authority"
  \/ r.method = "OPTIONS" /\ r.target = "asterisk"
  \/ r.method # "CONNECT" /\ r.target \in {"origin", "http", "other"}

\* 0 if the request is valid.
ParseRequest(r) ==
  IF r.line = Invalid \/ r.fields = "broken" THEN 400
  ELSE IF r.line = "unsupported" THEN 505
  ELSE IF \/ ~ValidTarget(r) \/ r.fields = Invalid
          \/ Len(r.hosts) # 1 \/ r.hosts = <<Invalid>>
    THEN 400
  ELSE FramingStatus(r)

RedirectLocation(r) ==
  IF r.method = "CONNECT" THEN 501
  ELSE IF \/ r.target \in {"asterisk", "other"}
          \/ r.target = "origin" /\ r.hosts = <<"empty">>
    THEN 400
  ELSE 308

\* What handle_redirect answers to a complete head.
Status(r) == IF ParseRequest(r) # 0 THEN ParseRequest(r) ELSE RedirectLocation(r)
=============================================================================
