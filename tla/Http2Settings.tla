---------------------------- MODULE Http2Settings ----------------------------
(***************************************************************************)
(* The peer's SETTINGS and the header compression they govern:             *)
(* H2Adapter.apply_settings and _ResponseEncoder (http2/adapter.py), the   *)
(* session's calls of them, and the peer's HPACK decoder.  The peer sends  *)
(* SETTINGS with repeated, unknown and unchanged entries, between and      *)
(* during the header blocks of one response.                               *)
(*                                                                         *)
(* Sizes are counted in table entries, a header block inserts one entry,   *)
(* and of the settings only those with an effect on the response are kept. *)
(* h2, hpack and the peer are modelled from the way the code uses them.    *)
(***************************************************************************)
EXTENDS Integers, Sequences, FiniteSetsExt

CONSTANTS
  MaxTable,         \* the largest HEADER_TABLE_SIZE
  DefaultTable,     \* the HEADER_TABLE_SIZE in force before any SETTINGS
  MaxWindow,        \* the largest flow control window
  MaxEntries,       \* bound on the entries of a frame
  MaxFrames,        \* bound on the SETTINGS frames
  MaxBlocks,        \* bound on the header blocks of the response
  BatchSize,        \* SETTINGS_BATCH_SIZE
  MaxTableChanges   \* MAX_HEADER_TABLE_SIZE_CHANGES

ASSUME BoundsAssumption ==
  /\ {MaxTable, MaxEntries, MaxFrames, MaxBlocks, MaxTableChanges}
       \subseteq Nat
  /\ {MaxWindow, BatchSize} \subseteq Nat \ {0}
  /\ DefaultTable \in 0 .. MaxTable

VARIABLES
  pc,        \* "idle": between two frames; "replay": in a sleep(0) of
             \* apply_settings; "failed", "crashed", "ended"
  left,      \* entries of "working" not applied yet
  budget,    \* _header_table_size_changes
  table,     \* remote_settings.header_table_size, the encoder's table size
  initial,   \* remote_settings.initial_window_size
  window,    \* send window of the request's stream
  changes,   \* encoder.table_size_changes
  resized,   \* encoder.header_table.resized
  stored,    \* the encoder's dynamic table
  out,       \* what h2 has queued and the session not yet written
  acks,      \* acknowledgements on the wire
  frames,    \* SETTINGS frames received
  blocks,    \* header blocks on the wire
  peer,      \* the peer's decoder: its table, size, smallest and last limit
  due        \* history: the entries of the last frame, the state it met

h2Vars  == <<table, initial, window, changes, resized, stored>>
vars    == <<pc, left, budget, h2Vars, out, acks, frames, blocks, peer, due>>

Entries ==
  [id : {"table"}, value : 0 .. MaxTable]
    \cup [id : {"window"}, value : 0 .. MaxWindow]
    \cup [id : {"unknown"}, value : {0}]

Init ==
  /\ pc = "idle" /\ left = << >> /\ budget = 0
  /\ table = DefaultTable /\ initial = 1 /\ window = 1
  /\ changes = << >> /\ resized = FALSE /\ stored = << >>
  /\ out = << >> /\ acks = 0 /\ frames = 0 /\ blocks = 0
  /\ peer = [stored |-> << >>, size |-> DefaultTable, least |-> MaxTable,
             last |-> DefaultTable]
  /\ due = [entries |-> << >>, table |-> DefaultTable, initial |-> 1, window |-> 1]

\* Where es has entries with an identifier, how many and with which values, and
\* the value in force after them if it was old before.
Positions(es, id) == {i \in DOMAIN es : es[i].id = id}
Count(es, id) == Cardinality(Positions(es, id))
Values(es, id) == {es[i].value : i \in Positions(es, id)}
Latest(es, id, old) ==
  IF Positions(es, id) = {} THEN old ELSE es[Max(Positions(es, id))].value

-----------------------------------------------------------------------------
(* h2 and hpack *)

Evict(es, size) == SubSeq(es, 1, Min({size, Len(es)}))

\* What a frame with the entries es does to the state c of h2: each identifier
\* counts with its last value, and assigning the table size it already has
\* clears the resized flag.
ReceiveSettings(c, es) ==
  LET sized == Positions(es, "table") # {}
      size  == Latest(es, "table", c.table)
      first == Latest(es, "window", c.initial)
  IN [table   |-> size,
      initial |-> first,
      window  |-> c.window + first - c.initial,
      changes |-> IF size # c.table THEN Append(c.changes, size) ELSE c.changes,
      resized |-> IF sized THEN size # c.table ELSE c.resized,
      stored  |-> Evict(c.stored, size)]

Current ==
  [table |-> table, initial |-> initial, window |-> window,
   changes |-> changes, resized |-> resized, stored |-> stored]

SetH2(c) ==
  /\ table' = c.table /\ initial' = c.initial /\ window' = c.window
  /\ changes' = c.changes /\ resized' = c.resized /\ stored' = c.stored

\* Adjusting the windows raises FLOW_CONTROL_ERROR, before any acknowledgement.
Overflows(c) == c.window > MaxWindow

-----------------------------------------------------------------------------
(* The session writes what h2 has queued *)

Acknowledgements(queue) == Cardinality({i \in DOMAIN queue : queue[i] = "ack"})

\* The peer takes the table sizes of a frame as its limits when it sees the
\* acknowledgement.
Flush(queue) ==
  /\ out' = << >>
  /\ acks' = acks + Acknowledgements(queue)
  /\ peer' = IF "ack" \notin Range(queue) THEN peer
             ELSE [peer EXCEPT !.least = Min(Values(due'.entries, "table") \cup {@}),
                               !.last = Latest(due'.entries, "table", @)]

\* h2 or apply_settings has queued a GOAWAY, which ends the session.
Fail ==
  /\ pc' = "failed" /\ left' = << >> /\ out' = << >>
  /\ UNCHANGED <<h2Vars, acks, peer>>

-----------------------------------------------------------------------------
(* apply_settings *)

Working_KeepsNoOps(es) == SelectSeq(es, LAMBDA e : e.id # "unknown")

\* One turn of the loop over the entries of a frame.
Keep(acc, e) ==
  IF e.id = "unknown" \/ (e.id = "table" /\ e.value = acc.size) THEN acc
  ELSE [size |-> IF e.id = "table" THEN e.value ELSE acc.size,
        kept |-> Append(acc.kept, e)]

\* table_size and working before each of the entries and after the last.
Filter(size, es) ==
  LET acc[i \in 1 .. Len(es) + 1] ==
        IF i = 1 THEN [size |-> size, kept |-> << >>]
        ELSE Keep(acc[i - 1], es[i - 1])
  IN acc

\* The entries to apply: those that are known, without a table size that is
\* already in force at that point.
Working(es) == Filter(table, es)[Len(es) + 1].kept

Distinct_Always(es) == TRUE

\* len(working) == len(dict(working))
Distinct(es) == Cardinality({es[i].id : i \in DOMAIN es}) = Len(es)

\* All entries in one frame.
ApplyAtOnce(es) ==
  LET c == ReceiveSettings(Current, es)
  IN IF Overflows(c) THEN Fail
     ELSE SetH2(c) /\ Flush(Append(out, "ack")) /\ pc' = "idle" /\ left' = << >>

\* The state of h2 before each of the entries es, one frame for each, and after
\* the last.
Replay(c, es) ==
  LET state[i \in 1 .. Len(es) + 1] ==
        IF i = 1 THEN c ELSE ReceiveSettings(state[i - 1], <<es[i - 1]>>)
  IN state

\* A frame for each entry.  The acknowledgement of every one but the last is
\* taken back, and must be all that h2 has queued; after a batch of entries the
\* task yields.
ApplyEach(es) ==
  LET n == IF Len(es) <= BatchSize THEN Len(es) ELSE BatchSize
      state == Replay(Current, es)
      queued(i) == IF i = 1 THEN out ELSE << >>
      unexpected == \E i \in 1 .. n : i < Len(es) /\ queued(i) # << >>
  IN \/ (\E i \in 1 .. n : Overflows(state[i + 1])) /\ Fail
     \/ /\ \A i \in 1 .. n : ~Overflows(state[i + 1])
        /\ SetH2(state[n + 1])
        /\ left' = SubSeq(es, n + 1, Len(es))
        /\ \/ unexpected /\ pc' = "crashed" /\ UNCHANGED <<out, acks, peer>>
           \/ /\ ~unexpected /\ n < Len(es)
              /\ pc' = "replay"
              /\ out' = << >> /\ UNCHANGED <<acks, peer>>
           \/ /\ ~unexpected /\ n = Len(es)
              /\ pc' = "idle" /\ Flush(Append(queued(n), "ack"))

Exceeded(n) == budget + n > MaxTableChanges

\* A SETTINGS frame with the entries es.
Settings(es) ==
  /\ pc = "idle" /\ frames < MaxFrames
  /\ frames' = frames + 1
  /\ due' = [entries |-> es, table |-> table, initial |-> initial, window |-> window]
  /\ LET work == Working(es)
         n == Count(work, "table")
     IN \/ Exceeded(n) /\ Fail /\ UNCHANGED budget
        \/ /\ ~Exceeded(n) /\ budget' = budget + n
           /\ IF Distinct(work) THEN ApplyAtOnce(work) ELSE ApplyEach(work)
  /\ UNCHANGED blocks

\* The task resumes from sleep(0).
Resume ==
  /\ pc = "replay"
  /\ UNCHANGED <<budget, frames, blocks, due>>
  /\ ApplyEach(left)
-----------------------------------------------------------------------------
(* The rest of the session *)

Answer_Deferred ==
  /\ out' = Append(out, "other")
  /\ UNCHANGED <<acks, peer>>

\* _process_frame flushes whatever h2 has answered, a PING for example.
Answer ==
  /\ out' = << >>
  /\ UNCHANGED <<acks, peer>>

\* A frame other than SETTINGS, among them WINDOW_UPDATE for the request.
OtherFrame ==
  /\ pc = "idle"
  /\ Answer
  /\ window' \in {window} \cup (window + 1 .. MaxWindow)
  /\ UNCHANGED <<pc, left, budget, table, initial, changes, resized, stored,
                 frames, blocks, due>>

\* _ResponseEncoder.encode: the smallest and the last of the size changes; hpack
\* writes them only if the table was resized.
Updates ==
  LET least == Min(Range(changes))
      last  == changes[Len(changes)]
  IN IF ~resized \/ changes = << >> THEN << >>
     ELSE IF least = last THEN <<last>> ELSE <<least, last>>

\* The size of a table after size updates, and the table.
InForce(sizes, old) == IF sizes = << >> THEN old ELSE sizes[Len(sizes)]

Resized(es, sizes) ==
  LET after[i \in 1 .. Len(sizes) + 1] ==
        IF i = 1 THEN es ELSE Evict(after[i - 1], sizes[i - 1])
  IN after[Len(sizes) + 1]

\* send_headers: a header block is encoded and written, and the peer decodes it.
SendBlock ==
  /\ pc = "idle" /\ blocks < MaxBlocks
  /\ blocks' = blocks + 1
  /\ resized' = FALSE
  /\ changes' = IF resized THEN << >> ELSE changes
  /\ stored' = Evict(<<blocks'>> \o stored, table)
  /\ LET size == InForce(Updates, peer.size)
     IN peer' = [peer EXCEPT
                   !.stored = Evict(<<blocks'>> \o Resized(@, Updates), size),
                   !.size = size, !.least = MaxTable]
  /\ UNCHANGED <<pc, left, budget, table, initial, window, out, acks, frames,
                 due>>

\* A timeout, a lost connection or a cancellation; close() writes what is queued.
Interrupt ==
  /\ pc \in {"idle", "replay"}
  /\ pc' = "ended"
  /\ left' = << >>
  /\ UNCHANGED <<budget, h2Vars, frames, blocks, due>>
  /\ Flush(out)

Next ==
  \/ \E n \in 0 .. MaxEntries : \E es \in [1 .. n -> Entries] : Settings(es)
  \/ Resume \/ OtherFrame \/ SendBlock \/ Interrupt

Spec == Init /\ [][Next]_vars

-----------------------------------------------------------------------------
(* Properties *)

\* The HPACK state of both ends stays in step, whatever SETTINGS arrive between
\* two header blocks: the size updates the next block starts with turn the peer's
\* table into the encoder's, never exceed the limit in force, and include one
\* that is as small as the smallest the peer has asked for (RFC 7541 4.2).
TablesAgree ==
  pc = "idle" =>
    /\ Resized(peer.stored, Updates) = stored
    /\ table = InForce(Updates, peer.size)
    /\ table = peer.last
    /\ \A i \in DOMAIN Updates : Updates[i] <= peer.last
    /\ peer.least < peer.size =>
         \E i \in DOMAIN Updates : Updates[i] <= peer.least
    /\ Len(Updates) <= 2

\* None of the window sizes of a frame overflows the window it met.
Fits(frame) ==
  \A v \in Values(frame.entries, "window") :
    v + (frame.window - frame.initial) <= MaxWindow

\* A frame has the effect of its entries one after the other, although h2 keeps
\* one value for each identifier: the last values are in force, and the frame is
\* refused if any of its window sizes overflows the window, also one that a later
\* entry lowers again.
WireOrder ==
  /\ acks = frames =>
       /\ Fits(due)
       /\ table = Latest(due.entries, "table", due.table)
       /\ initial = Latest(due.entries, "window", due.initial)
  /\ pc = "failed" /\ Fits(due) =>
       budget + Count(due.entries, "table") > MaxTableChanges

\* Each SETTINGS frame that was applied whole is acknowledged once, one that is
\* interrupted or refused not at all, and the replay never meets other output
\* of h2 than its own acknowledgements.  Table sizes that pile up while no header
\* block is sent are bounded over the whole connection.
OneAck ==
  /\ pc # "crashed"
  /\ pc = "idle" => acks = frames
  /\ pc \in {"replay", "failed"} => acks = frames - 1
  /\ pc = "ended" => acks \in {frames - 1, frames}
  /\ budget <= MaxTableChanges /\ Len(changes) <= MaxTableChanges

-----------------------------------------------------------------------------
(* The inductive invariant behind them *)

Known == {e \in Entries : e.id # "unknown"}

H2States ==
  [table : 0 .. MaxTable, initial : 0 .. MaxWindow, window : {w \in Int : w <= MaxWindow},
   changes : Seq(0 .. MaxTable), resized : BOOLEAN, stored : Seq(Nat)]

TypeOK ==
  /\ pc \in {"idle", "replay", "failed", "ended"}
  /\ left \in Seq(Known)
  /\ budget \in 0 .. MaxTableChanges
  /\ Current \in H2States
  /\ acks \in Int /\ frames \in Nat /\ blocks \in Nat
  /\ peer \in [stored : Seq(Nat), size : 0 .. MaxTable, least : 0 .. MaxTable,
               last : 0 .. MaxTable]
  /\ due \in [entries : Seq(Entries), table : 0 .. MaxTable, initial : 0 .. MaxWindow,
              window : {w \in Int : w <= MaxWindow}]

\* The encoder in the state c against the peer's decoder d: the pending changes
\* end with the size in force and have evicted all but the smallest leaves.
InStep(c, d) ==
  /\ c.resized <=> c.changes # << >>
  /\ c.table = InForce(c.changes, d.size)
  /\ c.stored = IF c.changes = << >> THEN d.stored
                ELSE Evict(d.stored, Min(Range(c.changes)))
  /\ Len(d.stored) <= d.size

\* No entry of es is a table size that is in force when it is applied.
NoneRepeated(es, size) ==
  \A i \in Positions(es, "table") :
    es[i].value # Latest(SubSeq(es, 1, i - 1), "table", size)

\* A size that was in force since the last header block is as small as the
\* smallest the peer has asked for since.
Covered(c, d) == \E v \in Range(c.changes) \cup {d.size} : v <= d.least

\* The entries es, not applied yet, lead from the state c to what a frame asks for,
\* and those that were applied are accounted for.
Owed(c, d, es, frame) ==
  /\ es \in Seq(Known) /\ NoneRepeated(es, c.table)
  /\ Latest(es, "table", c.table) = Latest(frame.entries, "table", frame.table)
  /\ Latest(es, "window", c.initial) = Latest(frame.entries, "window", frame.initial)
  /\ d.last = frame.table
  /\ c.window - c.initial = frame.window - frame.initial
  /\ Values(es, "window") \subseteq Values(frame.entries, "window")
  /\ \A v \in Values(frame.entries, "window") \ Values(es, "window") :
       v + (c.window - c.initial) <= MaxWindow
  /\ Values(frame.entries, "table")
       \subseteq Range(c.changes) \cup {d.size} \cup Values(es, "table")

SettingsInv ==
  /\ TypeOK
  /\ InStep(Current, peer)
  /\ Covered(Current, peer)
  /\ pc \in {"idle", "replay"} => out = << >>
  /\ pc = "idle" => acks = frames /\ table = peer.last
  /\ pc \in {"replay", "failed"} => acks = frames - 1
  /\ pc = "ended" => acks \in {frames - 1, frames}
  /\ Len(changes) + Count(left, "table") <= budget
  /\ pc = "replay" => left # << >> /\ Owed(Current, peer, left, due)
  /\ WireOrder
=============================================================================
