----------------------------- MODULE MCRedirect -----------------------------
(***************************************************************************)
(* The peers of the model of Redirect that is checked: heads of every      *)
(* shape on both sides of the limit, and requests of every kind in a short *)
(* head.                                                                   *)
(***************************************************************************)
EXTENDS Redirect

Plain ==
  [line |-> "ok", method |-> "GET", target |-> "origin", fields |-> "ok",
   hosts |-> <<"name">>, lengths |-> << >>, encoded |-> FALSE, codings |-> << >>]

Heads ==
  {h \in [lead : {0, 2}, method : {0, 1, MaxHead - VersionLength - 7, MaxHead},
          target : {Absent, 0, 1, 2, 3, 4, MaxHead},
          version : {Absent, VersionLength, MaxHead}, fields : {0, 3, 4}] :
     h.target = Absent => h.method > 0 /\ h.version = Absent}

\* A plain request, as far as the head has its parts.
Meant(h) ==
  [Plain EXCEPT
     !.line = IF h.method > 0 /\ h.target > 0 /\ h.version = VersionLength
                THEN "ok" ELSE Invalid,
     !.hosts = IF h.fields = 0 THEN << >> ELSE <<"name">>]

Short ==
  [lead |-> 0, method |-> 1, target |-> 1, version |-> VersionLength, fields |-> 3]

\* Requests whose line and host vary, and requests whose framing does.
Lines ==
  {[Plain EXCEPT !.line = l, !.method = m, !.target = t, !.fields = f, !.hosts = h] :
     l \in {"ok", Invalid, "unsupported"}, m \in {"GET", "OPTIONS", "CONNECT"},
     t \in {Invalid, "origin", "asterisk", "authority", "http", "other"},
     f \in {"ok", Invalid, "broken"},
     h \in {<< >>, <<"name">>, <<"empty">>, <<Invalid>>, <<"name", "name">>}}

UpToTwo(S) == UNION {[1 .. n -> S] : n \in 0 .. 2}

Lengths == UpToTwo({<<0>>, <<1>>, <<0, 1>>, <<1, 0>>, << >>, <<NoDigit>>})

Framings ==
  {[Plain EXCEPT !.lengths = l] : l \in Lengths}
    \cup {[Plain EXCEPT !.encoded = TRUE, !.codings = c] : c \in UpToTwo(Coding)}
    \cup {[Plain EXCEPT !.lengths = <<<<1>>>>, !.encoded = TRUE]}

MCPeers ==
  {[head |-> h, request |-> Meant(h)] : h \in Heads}
    \cup {[head |-> Short, request |-> r] : r \in Lines \cup Framings}
=============================================================================
