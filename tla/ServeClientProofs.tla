-------------------------- MODULE ServeClientProofs --------------------------
(***************************************************************************)
(* The report slots of the handlers, for every number of clients and every *)
(* MAX_REPORTS.  ServeInv is inductive: _report_clients is always exactly  *)
(* the set of handlers that are processing a report.                       *)
(***************************************************************************)
EXTENDS ServeClient, FiniteSetTheorems, TLAPS

\* A slot that _send_report takes keeps the number of slots within the limit.
LEMMA SlotTaken ==
  ASSUME slots \subseteq Clients, Cardinality(slots) <= MaxReports,
         NEW k \in Clients, MayReport(k)
  PROVE  Cardinality(slots \cup {k}) <= MaxReports
  <1>1. IsFiniteSet(slots) /\ Cardinality(slots) \in Nat
    BY ClientsAssumption, FS_Subset, FS_CardinalityType
  <1>2. CASE k \in slots
    <2>1. slots \cup {k} = slots
      BY <1>2
    <2> QED
      BY <2>1
  <1>3. CASE k \notin slots
    <2>1. Cardinality(slots \cup {k}) = Cardinality(slots) + 1
      BY <1>1, <1>3, FS_AddElement
    <2>2. Cardinality(slots) < MaxReports
      BY <1>3 DEF MayReport
    <2> QED
      BY <1>1, <2>1, <2>2, MaxReportsAssumption
  <1> QED
    BY <1>2, <1>3

\* Giving a slot back keeps the number of slots within the limit.
LEMMA SlotFreed ==
  ASSUME slots \subseteq Clients, Cardinality(slots) <= MaxReports,
         NEW k \in Clients
  PROVE  Cardinality(slots \ {k}) <= MaxReports
  <1>1. IsFiniteSet(slots) /\ Cardinality(slots) \in Nat
    BY ClientsAssumption, FS_Subset, FS_CardinalityType
  <1>2. /\ IsFiniteSet(slots \ {k})
        /\ Cardinality(slots \ {k}) <= Cardinality(slots)
    BY <1>1, FS_Subset
  <1>3. Cardinality(slots \ {k}) \in Nat
    BY <1>2, FS_CardinalityType
  <1> QED
    BY <1>1, <1>2, <1>3, MaxReportsAssumption
\* No handler exists yet.
LEMMA InitEstablishesInv == Init => ServeInv
  <1> SUFFICES ASSUME Init PROVE ServeInv
    OBVIOUS
  <1>1. TypeOK
    BY DEF Init, TypeOK, States, Codes, CodeOf, Exceptions
  <1>2. SlotInv
    <2>1. Processing = {} /\ slots = {}
      BY DEF Init, Processing
    <2>2. Cardinality(slots) <= MaxReports
      BY <2>1, FS_EmptySet, MaxReportsAssumption
    <2> QED
      BY <2>1, <2>2 DEF SlotInv, Init
  <1>3. ProgressInv
    BY DEF Init, ProgressInv, Serving
  <1> QED
    BY <1>1, <1>2, <1>3 DEF ServeInv

\* A step of one handler that neither takes nor frees a slot.
LEMMA SlotsKept ==
  ASSUME TypeOK, SlotInv, NEW k \in Clients, UNCHANGED <<slots, built>>,
         NEW s, pc' = [pc EXCEPT ![k] = s],
         s = "done" \/ pc[k] = "done" => ~built[k],
         s \in {"idle", "created", "handshake", "request", "empty"} =>
           ~built[k]
  PROVE  SlotInv'
  <1>1. Processing' = Processing
    BY DEF TypeOK, Processing
  <1> QED
    BY <1>1 DEF SlotInv, TypeOK

\* The end of a handler frees its slot.
LEMMA SlotsAfterEnd ==
  ASSUME TypeOK, SlotInv, NEW k \in Clients, End(k), UNCHANGED built
  PROVE  SlotInv'
  <1>1. slots' = slots \ {k} /\ Cardinality(slots') <= MaxReports
    BY SlotFreed DEF End, Discard, TypeOK, SlotInv
  <1>2. Processing' = Processing \ {k}
    BY DEF End, TypeOK, Processing
  <1> QED
    BY <1>1, <1>2 DEF SlotInv, End, TypeOK

\* _send_report takes a slot unless none is left.
LEMMA SendReportStep ==
  ASSUME TypeOK, SlotInv, ProgressInv, NEW k \in Clients, pc[k] = "request",
         NEW h \in BOOLEAN, SendReport(k, h),
         UNCHANGED <<toSave, answer, open, stored>>
  PROVE  SlotInv' /\ ProgressInv' /\ pc' \in [Clients -> States]
         /\ code' \in [Clients -> Codes] /\ raising' \in [Clients -> BOOLEAN]
         /\ slots' \subseteq Clients /\ built' \in [Clients -> BOOLEAN]
  <1>1. CASE ~MayReport(k)
    <2>1. /\ pc' = [pc EXCEPT ![k] = "empty"]
          /\ UNCHANGED <<code, raising, slots, built>>
      BY <1>1 DEF SendReport
    <2>2. SlotInv'
      <3>1. ~built[k]
        BY DEF SlotInv
      <3> QED
        BY <2>1, <3>1, SlotsKept, Zenon
    <2>3. ProgressInv'
      BY <2>1 DEF ProgressInv, Serving, TypeOK
    <2> QED
      BY <2>1, <2>2, <2>3 DEF TypeOK, States, Serving
  <1>2. CASE MayReport(k)
    <2>1. /\ slots' = slots \cup {k}
          /\ built' = [built EXCEPT ![k] = TRUE]
          /\ \/ /\ pc' = [pc EXCEPT ![k] = "report"]
                /\ UNCHANGED <<code, raising>>
             \/ \E x \in {"value", "other"} : Leave(k, x, h)
      BY <1>2 DEF SendReport
    <2>2. PICK s \in {"report", "closing"} : pc' = [pc EXCEPT ![k] = s]
      BY <2>1 DEF Leave
    <2>3. SlotInv'
      <3>1. Cardinality(slots') <= MaxReports
        BY <1>2, <2>1, SlotTaken DEF TypeOK, SlotInv
      <3>2. Processing' = Processing \cup {k}
        BY <2>1, <2>2 DEF TypeOK, Processing
      <3> QED
        BY <2>1, <2>2, <3>1, <3>2 DEF SlotInv, TypeOK
    <2>4. /\ code' \in [Clients -> Codes] /\ raising' \in [Clients -> BOOLEAN]
          /\ pc'[k] = "report" => code' = code
          /\ \A j \in Clients \ {k} : code'[j] = code[j]
      <3>1. CodeOf["value"] \in Codes /\ CodeOf["other"] \in Codes
        BY DEF Codes, Exceptions
      <3> QED
        BY <2>1, <3>1 DEF Leave, TypeOK
    <2>5. ProgressInv'
      BY <2>2, <2>4, Zenon DEF ProgressInv, Serving, TypeOK
    <2> QED
      BY <2>1, <2>2, <2>3, <2>4, <2>5, Zenon DEF TypeOK, States, Serving
  <1> QED
    BY <1>1, <1>2

\* The steps of one handler.
LEMMA HandlerStep ==
  ASSUME ServeInv, NEW k \in Clients,
         Accept(k) \/ Proceed(k) \/ CancelStep(k)
  PROVE  ServeInv'
  <1> SUFFICES ASSUME TypeOK, SlotInv, ProgressInv
               PROVE  TypeOK' /\ SlotInv' /\ ProgressInv'
    BY DEF ServeInv
  <1>0. pc[k] \in {"idle", "created", "handshake", "request", "empty"} =>
          ~built[k]
    BY DEF SlotInv
  <1> USE DEF locals, history
  <1>1. CASE Accept(k)
    <2>1. TypeOK'
      BY <1>1 DEF Accept, TypeOK, States, Serving
    <2>2. SlotInv'
      BY <1>0, <1>1, SlotsKept, Zenon DEF Accept
    <2>3. ProgressInv'
      BY <1>1 DEF Accept, ProgressInv, Serving, TypeOK
    <2> QED
      BY <2>1, <2>2, <2>3
  <1>2. CASE Begin(k)
    <2>1. TypeOK'
      BY <1>2 DEF Begin, TypeOK, States, Serving
    <2>2. SlotInv'
      BY <1>0, <1>2, SlotsKept, Zenon DEF Begin
    <2>3. ProgressInv'
      BY <1>2 DEF Begin, ProgressInv, Serving, TypeOK
    <2> QED
      BY <2>1, <2>2, <2>3
  <1>3. CASE HandshakeDone(k)
    <2>1. TypeOK'
      BY <1>3 DEF HandshakeDone, TypeOK, States, Serving
    <2>2. SlotInv'
      BY <1>0, <1>3, SlotsKept, Zenon DEF HandshakeDone
    <2>3. ProgressInv'
      BY <1>3 DEF HandshakeDone, ProgressInv, Serving, TypeOK
    <2> QED
      BY <2>1, <2>2, <2>3
  <1>4. CASE RequestRead(k)
    <2>1. CASE SendReport(k, FALSE)
      <3>1. /\ UNCHANGED <<inHandler, toSave, answer, open, stored>>
            /\ pc[k] = "request"
        BY <1>4 DEF RequestRead
      <3>2. /\ SlotInv' /\ ProgressInv' /\ pc' \in [Clients -> States]
            /\ code' \in [Clients -> Codes]
            /\ raising' \in [Clients -> BOOLEAN]
            /\ slots' \subseteq Clients /\ built' \in [Clients -> BOOLEAN]
        BY <2>1, <3>1, SendReportStep, Zenon
      <3> QED
        BY <3>1, <3>2 DEF TypeOK
    <2>2. CASE /\ pc' = [pc EXCEPT ![k] = "empty"]
               /\ UNCHANGED <<code, raising, slots, built>>
      <3>1. TypeOK'
        BY <1>4, <2>2 DEF RequestRead, TypeOK, States, Serving
      <3>2. SlotInv'
        BY <1>0, <1>4, <2>2, SlotsKept, Zenon DEF RequestRead
      <3>3. ProgressInv'
        BY <1>4, <2>2 DEF RequestRead, ProgressInv, Serving, TypeOK
      <3> QED
        BY <3>1, <3>2, <3>3
    <2> QED
      BY <1>4, <2>1, <2>2, Zenon DEF RequestRead
  <1>5. CASE RequestBad(k)
    <2>1. /\ UNCHANGED <<toSave, answer, open, stored>> /\ pc[k] = "request"
          /\ inHandler' \in [Clients -> BOOLEAN]
          /\ SendReport(k, TRUE)
      BY <1>5, Zenon DEF RequestBad, TypeOK
    <2>2. /\ SlotInv' /\ ProgressInv' /\ pc' \in [Clients -> States]
          /\ code' \in [Clients -> Codes] /\ raising' \in [Clients -> BOOLEAN]
          /\ slots' \subseteq Clients /\ built' \in [Clients -> BOOLEAN]
      BY <2>1, SendReportStep, Zenon
    <2> QED
      BY <2>1, <2>2 DEF TypeOK
  <1>6. CASE Sent(k)
    <2>1. TypeOK'
      BY <1>6 DEF Sent, TypeOK, States
    <2>2. SlotInv'
      BY <1>6, SlotsKept, Zenon DEF Sent
    <2>3. ProgressInv'
      BY <1>6 DEF Sent, ProgressInv, Serving, TypeOK
    <2> QED
      BY <2>1, <2>2, <2>3
  <1>7. CASE Fail(k)
    <2>1. PICK x \in Raised[pc[k]] : Leave(k, x, inHandler[k])
      BY <1>7 DEF Fail
    <2>2. x \in Exceptions \ {"http1"} /\ CodeOf[x] \in Codes
      BY <1>7, <2>1 DEF Fail, Raised, Serving, Exceptions, Codes
    <2>3. TypeOK'
      BY <1>7, <2>1, <2>2 DEF Fail, Leave, TypeOK, States
    <2>4. SlotInv'
      BY <1>7, <2>1, SlotsKept, Zenon DEF Fail, Leave, Serving
    <2>5. ProgressInv'
      BY <1>7, <2>1 DEF Fail, Leave, ProgressInv, Serving, TypeOK
    <2> QED
      BY <2>3, <2>4, <2>5
  <1>8. CASE Closed(k)
    <2>1. TypeOK'
      BY <1>8 DEF Closed, End, Discard, TypeOK, States
    <2>2. SlotInv'
      <3>1. CASE End(k)
        BY <1>8, <3>1, SlotsAfterEnd DEF Closed
      <3>2. CASE SaveNext(k)
        BY <1>8, <3>2, SlotsKept, Zenon DEF Closed
      <3> QED
        BY <1>8, <3>1, <3>2 DEF Closed
    <2>3. ProgressInv'
      BY <1>8 DEF Closed, End, SaveNext, ProgressInv, Serving, TypeOK
    <2> QED
      BY <2>1, <2>2, <2>3
  <1>9. CASE Saved(k)
    <2>1. TypeOK'
      BY <1>9 DEF Saved, End, Discard, TypeOK, States
    <2>2. SlotInv'
      BY <1>9, SlotsAfterEnd DEF Saved
    <2>3. ProgressInv'
      BY <1>9 DEF Saved, End, ProgressInv, Serving, TypeOK
    <2> QED
      BY <2>1, <2>2, <2>3
  <1>10. CASE ClientDone(k)
    <2>1. TypeOK'
      <3>1. "no_error" \in Codes
        BY DEF Codes, CodeOf, Exceptions
      <3> QED
        BY <1>10, <3>1 DEF ClientDone, TypeOK, States
    <2>2. SlotInv'
      <3>1. Processing' = Processing
        BY <1>10 DEF ClientDone, Processing, TypeOK
      <3> QED
        BY <1>10, <3>1 DEF ClientDone, SlotInv, TypeOK
    <2>3. ProgressInv'
      BY <1>10 DEF ClientDone, ProgressInv, Serving, TypeOK
    <2> QED
      BY <2>1, <2>2, <2>3
  <1>11. CASE CancelStep(k)
    <2>1. TypeOK'
      BY <1>11, Zenon DEF CancelStep, Cancel, End, Discard, TypeOK, States
    <2>2. SlotInv'
      <3>1. CASE End(k)
        BY <1>11, <3>1, SlotsAfterEnd DEF CancelStep
      <3>2. CASE UNCHANGED <<pc, slots>>
        BY <1>11, <3>2 DEF CancelStep, SlotInv, Processing
      <3>3. CASE /\ pc[k] = "created" /\ pc' = [pc EXCEPT ![k] = "done"]
                 /\ UNCHANGED slots
        BY <1>0, <1>11, <3>3, SlotsKept, Zenon DEF CancelStep
      <3>4. CASE /\ pc[k] \in Serving /\ pc' = [pc EXCEPT ![k] = "closing"]
                 /\ UNCHANGED slots
        BY <1>11, <3>4, SlotsKept, Zenon DEF CancelStep, Serving
      <3> QED
        BY <1>11, <3>1, <3>2, <3>3, <3>4 DEF CancelStep, Cancel
    <2>3. ProgressInv'
      BY <1>11 DEF CancelStep, Cancel, End, ProgressInv, Serving, TypeOK
    <2> QED
      BY <2>1, <2>2, <2>3
  <1> QED
    BY <1>1, <1>2, <1>3, <1>4, <1>5, <1>6, <1>7, <1>8, <1>9, <1>10, <1>11
    DEF Proceed

\* The inductive invariant holds in every reachable state.
THEOREM ServeInvariant == Spec => []ServeInv
  <1>1. ASSUME ServeInv, [Next]_vars PROVE ServeInv'
    <2>1. CASE Next
      BY <1>1, <2>1, HandlerStep DEF Next
    <2>2. CASE UNCHANGED vars
      BY <1>1, <2>2 DEF vars, locals, history, ServeInv, TypeOK, SlotInv,
                        ProgressInv, Processing
    <2> QED
      BY <1>1, <2>1, <2>2
  <1> QED
    BY InitEstablishesInv, <1>1, PTL DEF Spec

\* At most MAX_REPORTS handlers process a report at a time, database writes
\* included, whatever fails or is cancelled.
THEOREM AtMostMaxReports == Spec => []ReportsBounded
  <1>1. ServeInv => ReportsBounded
    BY DEF ServeInv, SlotInv, ReportsBounded
  <1> QED
    BY ServeInvariant, <1>1, PTL

\* _send_report answers 503 only while MAX_REPORTS other handlers are really
\* processing a report.
THEOREM NoSlotLeaks == Spec => []BusyMeansBusy
  <1>1. ServeInv => BusyMeansBusy
    <2> SUFFICES ASSUME ServeInv, NEW k \in Clients, ~MayReport(k)
                 PROVE  Cardinality(Processing \ {k}) >= MaxReports
      BY DEF BusyMeansBusy
    <2>1. slots = Processing /\ slots \subseteq Clients
      BY DEF ServeInv, SlotInv, TypeOK
    <2>2. Processing \ {k} = slots /\ ~(Cardinality(slots) < MaxReports)
      BY <2>1 DEF MayReport
    <2>3. Cardinality(slots) \in Nat
      BY <2>1, ClientsAssumption, FS_Subset, FS_CardinalityType
    <2> QED
      BY <2>2, <2>3, MaxReportsAssumption
  <1> QED
    BY ServeInvariant, <1>1, PTL

\* A report is stored only after its client received it in full and its
\* connection was closed.
THEOREM OnlyDeliveredIsStored == Spec => []StoredWasDelivered
  <1>1. ServeInv => StoredWasDelivered
    BY DEF ServeInv, ProgressInv, StoredWasDelivered
  <1> QED
    BY ServeInvariant, <1>1, PTL
\* A peer that received its answer in full is never told of an HTTP/2 error.
THEOREM AnswersEndCleanly == Spec => []AnsweredCleanly
  <1>1. ServeInv => AnsweredCleanly
    BY DEF ServeInv, ProgressInv, AnsweredCleanly
  <1> QED
    BY ServeInvariant, <1>1, PTL
=============================================================================
