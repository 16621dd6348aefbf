----------------------------- MODULE ServeClient -----------------------------
(***************************************************************************)
(* The handler tasks of TLS clients (solvetls/server.py: _handle_client,   *)
(* _serve_client, _send_report) and the report slots they share: handshake,*)
(* request, response, close, database write.                               *)
(*                                                                         *)
(* One action is the code a handler runs from one await to the next.  At   *)
(* each await the handler gets its result, an exception of one of the      *)
(* classes the except clauses tell apart, or a cancellation.               *)
(***************************************************************************)
EXTENDS Naturals, FiniteSets

CONSTANTS
  Clients,      \* client connections
  MaxReports    \* MAX_REPORTS

ASSUME ClientsAssumption == IsFiniteSet(Clients)
ASSUME MaxReportsAssumption == MaxReports \in Nat

VARIABLES
  pc,           \* the await at which each handler is suspended
  inHandler,    \* is it in the "except HTTP1Error" clause?
  toSave,       \* is report_to_save not None?
  code,         \* http2_error_code
  raising,      \* is an exception on its way through the finally clauses?
  slots,        \* _report_clients
  built,        \* history: did this handler call build_report()?
  answer,       \* history: what the peer was sent in full
  open,         \* history: is the connection open?
  stored        \* history: was the report written to the database?

locals  == <<inHandler, toSave, code, raising>>
history == <<built, answer, open, stored>>
vars    == <<pc, locals, slots, history>>

\* The awaits inside the try block of _serve_client.
Serving ==
  {"handshake",   \* awaiting do_tls_handshake()
   "request",     \* awaiting handle_http()
   "empty",       \* awaiting send_response() with an empty body: 204 or 503
   "report"}      \* awaiting send_response() with the JSON report

States ==
  Serving \cup
  {"idle",        \* no handler
   "created",     \* the task exists and has not run yet
   "closing",     \* awaiting client.close()
   "saving",      \* awaiting save_fingerprint()
   "done"}        \* the task has ended, its done callback has not run

\* The classes of exceptions that the except clauses tell apart: "connection"
\* stands for ConnectionError and TimeoutError, "http2" for H2Error and
\* HTTP2FrameParsingError, "other" for any further Exception.
Exceptions ==
  {"http1", "http2", "ssl", "connection", "value", "hpack", "other"}

\* What can be raised at each await, and in the code up to the next one.
Raised ==
  [handshake |-> {"ssl", "connection", "other"},
   request   |-> Exceptions \ {"http1"},
   empty     |-> Exceptions \ {"http1"},
   report    |-> Exceptions \ {"http1"}]

\* http2_error_code as each except clause leaves it.
CodeOf ==
  [http2 |-> "its_own", ssl |-> "no_error", connection |-> "no_error",
   value |-> "protocol_error", hpack |-> "compression_error",
   other |-> "internal_error"]

Codes == {CodeOf[x] : x \in Exceptions \ {"http1"}}

Init ==
  /\ pc = [k \in Clients |-> "idle"]
  /\ inHandler = [k \in Clients |-> FALSE]
  /\ toSave = [k \in Clients |-> FALSE]
  /\ code = [k \in Clients |-> "no_error"]
  /\ raising = [k \in Clients |-> FALSE]
  /\ slots = {}
  /\ built = [k \in Clients |-> FALSE]
  /\ answer = [k \in Clients |-> "none"]
  /\ open = [k \in Clients |-> FALSE]
  /\ stored = [k \in Clients |-> FALSE]

-----------------------------------------------------------------------------
\* _accept_client has created the handler task.
Accept(k) ==
  /\ pc[k] = "idle"
  /\ pc' = [pc EXCEPT ![k] = "created"]
  /\ open' = [open EXCEPT ![k] = TRUE]
  /\ UNCHANGED <<locals, slots, built, answer, stored>>

\* The task's first step.  The locals have their initial values.
Begin(k) ==
  /\ pc[k] = "created"
  /\ pc' = [pc EXCEPT ![k] = "handshake"]
  /\ UNCHANGED <<locals, slots, history>>

\* Exception x leaves the try block, or the HTTP1Error clause when h holds,
\* whose own except clause covers connection failures only; the finally clause
\* begins to close the connection.
Leave(k, x, h) ==
  /\ pc' = [pc EXCEPT ![k] = "closing"]
  /\ code' = [code EXCEPT ![k] = IF h THEN @ ELSE CodeOf[x]]
  /\ raising' = [raising EXCEPT ![k] = h /\ x \notin {"ssl", "connection"}]

MayReport_OffByOne(k) == k \in slots \/ Cardinality(slots) <= MaxReports

\* The two tests of _send_report.
MayReport(k) == k \in slots \/ Cardinality(slots) < MaxReports

\* _send_report up to its await; build_report() may raise with the slot taken.
SendReport(k, h) ==
  \/ /\ ~MayReport(k)
     /\ pc' = [pc EXCEPT ![k] = "empty"]
     /\ UNCHANGED <<code, raising, slots, built>>
  \/ /\ MayReport(k)
     /\ slots' = slots \cup {k}
     /\ built' = [built EXCEPT ![k] = TRUE]
     /\ \/ pc' = [pc EXCEPT ![k] = "report"] /\ UNCHANGED <<code, raising>>
        \/ \E x \in {"value", "other"} : Leave(k, x, h)

HandshakeDone(k) ==
  /\ pc[k] = "handshake"
  /\ pc' = [pc EXCEPT ![k] = "request"]
  /\ UNCHANGED <<locals, slots, history>>

\* handle_http() returns a request and _response_policy chooses the status: 204
\* for the favicon, otherwise one that carries the report.
RequestRead(k) ==
  /\ pc[k] = "request"
  /\ \/ /\ pc' = [pc EXCEPT ![k] = "empty"]
        /\ UNCHANGED <<code, raising, slots, built>>
     \/ SendReport(k, FALSE)
  /\ UNCHANGED <<inHandler, toSave, answer, open, stored>>

\* handle_http() raises HTTP1Error, which is reported to the client as well.
RequestBad(k) ==
  /\ pc[k] = "request"
  /\ inHandler' = [inHandler EXCEPT ![k] = TRUE]
  /\ SendReport(k, TRUE)
  /\ UNCHANGED <<toSave, answer, open, stored>>

\* send_response() returns; only a report that was sent is to be saved.
Sent(k) ==
  /\ pc[k] \in {"empty", "report"}
  /\ toSave' = [toSave EXCEPT ![k] = pc[k] = "report"]
  /\ answer' = [answer EXCEPT ![k] = pc[k]]
  /\ pc' = [pc EXCEPT ![k] = "closing"]
  /\ UNCHANGED <<inHandler, code, raising, slots, built, open, stored>>

Fail(k) ==
  /\ pc[k] \in Serving
  /\ \E x \in Raised[pc[k]] : Leave(k, x, inHandler[k])
  /\ UNCHANGED <<inHandler, toSave, slots, history>>

Discard_OnSuccess(k) == IF raising[k] THEN slots ELSE slots \ {k}

\* The finally clause of _handle_client, the last thing a handler does.
Discard(k) == slots \ {k}

End(k) ==
  /\ pc' = [pc EXCEPT ![k] = "done"]
  /\ slots' = Discard(k)

SaveNext_Anyway(k) == ~raising[k] /\ k \in slots

\* Is there a report to save, and does no exception end the handler first?
SaveNext(k) == ~raising[k] /\ toSave[k]

\* client.close() returns; it handles every exception of its own.
Closed(k) ==
  /\ pc[k] = "closing"
  /\ open' = [open EXCEPT ![k] = FALSE]
  /\ \/ /\ SaveNext(k)
        /\ pc' = [pc EXCEPT ![k] = "saving"]
        /\ UNCHANGED slots
     \/ ~SaveNext(k) /\ End(k)
  /\ UNCHANGED <<locals, built, answer, stored>>

\* save_fingerprint() writes the report, or gives up: storage is disabled, the
\* write timed out or failed.
Saved(k) ==
  /\ pc[k] = "saving"
  /\ \E done \in BOOLEAN : stored' = [stored EXCEPT ![k] = done]
  /\ End(k)
  /\ UNCHANGED <<locals, built, answer, open>>

\* Cancellation, by _shutdown.  In the try block it unwinds through close();
\* in close() it is raised again once the transport is closed or aborted.
Cancel(k) ==
  \/ /\ pc[k] = "created"
     /\ pc' = [pc EXCEPT ![k] = "done"]
     /\ UNCHANGED <<raising, slots, open>>
  \/ /\ pc[k] \in Serving
     /\ pc' = [pc EXCEPT ![k] = "closing"]
     /\ raising' = [raising EXCEPT ![k] = TRUE]
     /\ UNCHANGED <<slots, open>>
  \/ /\ pc[k] = "closing"
     /\ raising' = [raising EXCEPT ![k] = TRUE]
     /\ \/ UNCHANGED <<pc, slots, open>>
        \/ End(k) /\ open' = [open EXCEPT ![k] = FALSE]
  \/ /\ pc[k] = "saving"
     /\ raising' = [raising EXCEPT ![k] = TRUE]
     /\ End(k)
     /\ UNCHANGED open

CancelStep(k) ==
  /\ Cancel(k)
  /\ UNCHANGED <<inHandler, toSave, code, built, answer, stored>>

\* _client_done: the writer is closed.  The connection and the handler's locals
\* are forgotten, and the name may be used for another one.
ClientDone(k) ==
  /\ pc[k] = "done"
  /\ pc' = [pc EXCEPT ![k] = "idle"]
  /\ open' = [open EXCEPT ![k] = FALSE]
  /\ built' = [built EXCEPT ![k] = FALSE]
  /\ answer' = [answer EXCEPT ![k] = "none"]
  /\ stored' = [stored EXCEPT ![k] = FALSE]
  /\ inHandler' = [inHandler EXCEPT ![k] = FALSE]
  /\ toSave' = [toSave EXCEPT ![k] = FALSE]
  /\ code' = [code EXCEPT ![k] = "no_error"]
  /\ raising' = [raising EXCEPT ![k] = FALSE]
  /\ UNCHANGED slots

\* What a handler does on its own.
Proceed(k) ==
  \/ Begin(k) \/ HandshakeDone(k) \/ RequestRead(k) \/ RequestBad(k)
  \/ Sent(k) \/ Fail(k) \/ Closed(k) \/ Saved(k) \/ ClientDone(k)

Next == \E k \in Clients : Accept(k) \/ Proceed(k) \/ CancelStep(k)

Spec == Init /\ [][Next]_vars

\* Every await of a handler has a timeout: REQUEST_TIMEOUT, RESPONSE_TIMEOUT,
\* CLOSE_DRAIN_TIMEOUT and TRANSPORT_CLOSE_TIMEOUT, WRITE_TIMEOUT.
FairSpec == Spec /\ \A k \in Clients : WF_vars(Proceed(k))

-----------------------------------------------------------------------------
(* Properties *)

TypeOK ==
  /\ pc \in [Clients -> States]
  /\ inHandler \in [Clients -> BOOLEAN]
  /\ toSave \in [Clients -> BOOLEAN]
  /\ code \in [Clients -> Codes]
  /\ raising \in [Clients -> BOOLEAN]
  /\ slots \subseteq Clients
  /\ built \in [Clients -> BOOLEAN]
  /\ answer \in [Clients -> {"none", "empty", "report"}]
  /\ open \in [Clients -> BOOLEAN]
  /\ stored \in [Clients -> BOOLEAN]

\* The handlers that are processing a report, from build_report() to the end
\* of the database write or of the unwinding.
Processing == {k \in Clients : built[k] /\ pc[k] # "done"}

\* "processes up to 4 reports at once, including database writes": whatever
\* fails or is cancelled, no more than MAX_REPORTS handlers are between
\* build_report() and their end.
ReportsBounded == Cardinality(Processing) <= MaxReports

\* A request is turned away with 503 only while MAX_REPORTS other handlers are
\* really processing a report: no failure or cancellation leaks a slot.
BusyMeansBusy ==
  \A k \in Clients :
    ~MayReport(k) => Cardinality(Processing \ {k}) >= MaxReports

\* The database holds a report only if its client received it in full, and the
\* connection is closed before the write begins ("Close before database I/O").
StoredWasDelivered ==
  \A k \in Clients :
    /\ stored[k] => answer[k] = "report"
    /\ pc[k] = "saving" => answer[k] = "report" /\ ~open[k]

\* A peer that received its answer in full is never told of an HTTP/2 error,
\* whatever is cancelled afterwards.
AnsweredCleanly ==
  \A k \in Clients : answer[k] # "none" => code[k] = "no_error"

\* Every slot is given back, however the handler that took it ends.
SlotsReturned == \A k \in Clients : k \in slots ~> k \notin slots

-----------------------------------------------------------------------------
(* The inductive invariant behind the safety properties *)

\* _report_clients holds exactly the handlers that are processing a report.
SlotInv ==
  /\ slots = Processing
  /\ Cardinality(slots) <= MaxReports
  /\ \A k \in Clients :
       pc[k] \in {"idle", "created", "handshake", "request", "empty"} =>
         ~built[k]

\* What the locals of _serve_client say at each await.
ProgressInv ==
  \A k \in Clients :
    /\ pc[k] \in {"idle", "created"} \cup Serving =>
         code[k] = "no_error" /\ ~toSave[k] /\ answer[k] = "none"
    /\ toSave[k] => answer[k] = "report"
    /\ answer[k] # "none" => code[k] = "no_error"
    /\ pc[k] = "saving" => toSave[k] /\ ~open[k]
    /\ stored[k] => pc[k] = "done" /\ answer[k] = "report"

\* The conjunction is inductive; it implies each of the safety properties.
ServeInv == TypeOK /\ SlotInv /\ ProgressInv
=============================================================================
