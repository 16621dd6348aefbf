------------------------------ MODULE HttpLists ------------------------------
(***************************************************************************)
(* parse_http_list (http_fields.py): the members of a list that is spread  *)
(* over the fields of a name.  A text is a sequence of one-character       *)
(* strings.                                                                *)
(***************************************************************************)
EXTENDS Integers, Sequences, FiniteSetsExt

Unterminated == <<"unterminated">>

\* What strip removes from both ends of a member.
Blank == {" ", "\t"}

Trim(s) ==
  LET solid == {i \in DOMAIN s : s[i] \notin Blank}
  IN IF solid = {} THEN << >> ELSE SubSeq(s, Min(solid), Max(solid))

\* The members found, the text since the last comma, and whether it is inside a
\* quoted string or after a backslash in one.
State(out, member, quoted, escaped) ==
  [out |-> out, member |-> member, quoted |-> quoted, escaped |-> escaped]

\* A member is complete: empty ones are ignored.
Flushed(st) ==
  IF Trim(st.member) = << >> THEN st.out ELSE Append(st.out, Trim(st.member))

Scan_NoEscapes(st, c) ==
  LET longer == Append(st.member, c)
  IN CASE c = "\"" -> State(st.out, longer, ~st.quoted, FALSE)
       [] c = "," /\ ~st.quoted -> State(Flushed(st), << >>, FALSE, FALSE)
       [] OTHER -> State(st.out, longer, st.quoted, FALSE)

\* One character of the combined text.
Scan(st, c) ==
  LET longer == Append(st.member, c)
  IN CASE st.escaped -> State(st.out, longer, st.quoted, FALSE)
       [] ~st.escaped /\ st.quoted /\ c = "\\" -> State(st.out, longer, TRUE, TRUE)
       [] ~st.escaped /\ c = "\"" -> State(st.out, longer, ~st.quoted, FALSE)
       [] ~st.escaped /\ c = "," /\ ~st.quoted -> State(Flushed(st), << >>, FALSE, FALSE)
       [] OTHER -> State(st.out, longer, st.quoted, FALSE)

\* ",".join(values)
Joined(values) ==
  LET s[i \in 1 .. Len(values) + 1] ==
        IF i = 1 THEN << >>
        ELSE s[i - 1] \o (IF i = 2 THEN << >> ELSE <<",">>) \o values[i - 1]
  IN s[Len(values) + 1]

Scanned(text) ==
  LET st[i \in 1 .. Len(text) + 1] ==
        IF i = 1 THEN State(<< >>, << >>, FALSE, FALSE)
        ELSE Scan(st[i - 1], text[i - 1])
  IN st[Len(text) + 1]

Members(text) ==
  LET end == Scanned(text)
  IN IF end.quoted \/ end.escaped THEN Unterminated ELSE Flushed(end)

ParseHttpList(values) == Members(Joined(values))

-----------------------------------------------------------------------------
(* What parse_http_list promises *)

\* If the fields v and the fields w are lists, together they are the members of v
\* followed by those of w.
Combine(v, w) ==
  Unterminated \notin {ParseHttpList(v), ParseHttpList(w)} =>
    ParseHttpList(v \o w) = ParseHttpList(v) \o ParseHttpList(w)

\* Members are not empty and carry no outer space or tab.
Tidy(v) ==
  LET members == ParseHttpList(v)
  IN members # Unterminated =>
       \A i \in DOMAIN members : members[i] # << >> /\ members[i] = Trim(members[i])
=============================================================================
