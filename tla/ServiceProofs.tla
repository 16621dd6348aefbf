---------------------------- MODULE ServiceProofs ----------------------------
(***************************************************************************)
(* The whole program, for any number of clients and any number of SIGTERMs *)
(* and restarts of the storage: main() uses the server as one of the       *)
(* callers of ServerLifecycle does, so that everything proved of the       *)
(* server holds in the program, and main() closes the storage last as long *)
(* as no second SIGTERM interrupts the shutdown.                           *)
(***************************************************************************)
EXTENDS Service, ServerLifecycleProofs

\* Every step of the program is a step of the server's lifecycle, taken by
\* main() as its only caller, or leaves the server alone.
LEMMA ServerStep == [ServiceNext]_allVars => [Next]_vars
  <1> SUFFICES ASSUME ServiceNext, ~ UNCHANGED vars
               PROVE  Next
    BY DEF allVars
  <1>1. Main \in Callers
    BY MainAssumption
  <1>2. CASE InitStorage \/ InitStorageFails \/ ClientClosed
    BY <1>2 DEF InitStorage, InitStorageFails, ClientClosed
  <1>3. CASE MainStarts
    BY <1>1, <1>3 DEF MainStarts, Next, StartNext
  <1>4. CASE MainServes
    BY <1>1, <1>4 DEF MainServes, Next, ServeNext, CloseNext
  <1>5. CASE MainCloses
    BY <1>1, <1>5 DEF MainCloses, Next, CloseNext
  <1>6. CASE Sigterm
    BY <1>1, <1>6 DEF Sigterm, Next, ServeNext, CloseNext
  <1>7. CASE Background
    BY <1>7 DEF Background, Next, ClientNext
  <1>8. ASSUME NEW k \in Clients, SaveBegins(k) \/ HandlerReturns(k)
        PROVE  Next
    BY <1>8 DEF SaveBegins, HandlerReturns, Next, ClientNext
  <1> QED
    BY <1>2, <1>3, <1>4, <1>5, <1>6, <1>7, <1>8 DEF ServiceNext

\* The program implements the server's lifecycle: what main() and SIGTERM do to
\* the server is a behaviour of ServerLifecycle, and all its theorems apply.
THEOREM ServiceImplementsLifecycle == ServiceSpec => Spec
  <1>1. ServiceInit => Init
    BY DEF ServiceInit
  <1> QED
    BY <1>1, ServerStep, PTL DEF ServiceSpec, Spec

-----------------------------------------------------------------------------
(* Where main() is *)

\* What the steps below preserve, besides the lifecycle's invariant.
ProgramInv == ServiceInv /\ StorageClosedLast

\* Without a server there is no connection, hence no insert under way.
LEMMA NoServerNoInsert ==
  ASSUME ServiceInv, server = None
  PROVE  writing = {}
  BY DEF ServiceInv, LifecycleInv, ClientInv, MainInv, ServiceTypeOK

\* init_storage() and close_storage(), which leave the server alone.
LEMMA StorageStep ==
  ASSUME ProgramInv, InitStorage \/ InitStorageFails \/ ClientClosed
  PROVE  MainInv' /\ StorageClosedLast'
  <1> USE DEF ProgramInv, ServiceInv, MainInv, ServiceTypeOK, StorageClosedLast,
              vars, callerVars, world
  <1>1. CASE InitStorage
    <2>1. enabled' \in BOOLEAN /\ (enabled' <=> db' = "open")
      <3>1. CASE enabled' = TRUE /\ db' = "open"
        BY <3>1
      <3>2. CASE UNCHANGED <<enabled, db>>
        BY <3>2
      <3> QED
        BY <1>1, <3>1, <3>2, ZenonT(30) DEF InitStorage, storageVars
    <2>2. db' \in {"none", "open"}
      BY <1>1 DEF InitStorage, storageVars
    <2> QED
      BY <1>1, <2>1, <2>2 DEF InitStorage
  <1>2. CASE InitStorageFails
    BY <1>2, NoServerNoInsert DEF InitStorageFails
  <1>3. CASE ClientClosed
    BY <1>3 DEF ClientClosed
  <1> QED
    BY <1>1, <1>2, <1>3

\* A handler begins or ends its insert.
LEMMA InsertStep ==
  ASSUME ProgramInv, NEW k \in Clients, SaveBegins(k) \/ HandlerReturns(k)
  PROVE  MainInv' /\ StorageClosedLast'
  <1> USE DEF ProgramInv, ServiceInv, MainInv, ServiceTypeOK, StorageClosedLast
  <1>1. CASE SaveBegins(k)
    BY <1>1 DEF SaveBegins, vars, callerVars, world, storageVars
  <1>2. CASE HandlerReturns(k)
    BY <1>2 DEF HandlerReturns, HandlerEnds, LifecycleInv, TypeOK, callerVars,
                serverVars, storageVars
  <1> QED
    BY <1>1, <1>2

\* The shutdown task, connections and done callbacks.
LEMMA BackgroundStep ==
  ASSUME ProgramInv, Background
  PROVE  MainInv' /\ StorageClosedLast'
  <1>1. UNCHANGED <<pc, joined, epoch, mpc, signals, enabled, db, writing>>
    BY DEF Background, serviceVars, ShutdownNext, ShutdownBegins, GraceOver,
           ClientsReaped, ShutdownEnds, Connect, AcceptRejects, AcceptAdmits,
           ClientDone, callerVars, serverVars
  <1>2. server' \in {None, server}
    BY DEF Background, ShutdownNext, ShutdownBegins, GraceOver,
           ClientsReaped, ShutdownEnds, Connect, AcceptRejects, AcceptAdmits,
           ClientDone, serverVars
  <1>3. ASSUME NEW k \in writing
        PROVE  client'[k] \in {"running", "cancelling"}
    BY <1>3 DEF ProgramInv, ServiceInv, MainInv, ServiceTypeOK, LifecycleInv,
           TypeOK, Background, ShutdownNext, ShutdownBegins, GraceOver,
           ClientsReaped, ShutdownEnds, Connect, AcceptRejects, AcceptAdmits,
           ClientDone
  <1> QED
    BY <1>1, <1>2, <1>3
    DEF ProgramInv, ServiceInv, MainInv, ServiceTypeOK, StorageClosedLast

\* start(): it fails without a server, since the rollback has closed it.
LEMMA MainStartsStep ==
  ASSUME ProgramInv, MainStarts
  PROVE  MainInv' /\ StorageClosedLast'
  <1>1. Main \in Callers /\ pc \in [Callers -> CallerStates]
    BY MainAssumption DEF ProgramInv, ServiceInv, LifecycleInv, TypeOK
  <1>2. /\ mpc = "start" /\ MainInv /\ StorageClosedLast
        /\ UNCHANGED <<signals, writing, enabled, db>>
    BY DEF ProgramInv, ServiceInv, MainStarts, Finally, storageVars
  <1>3. CASE \/ Start(Main) \/ StartAdmitted(Main) \/ BindTls(Main)
             \/ BindHttp(Main) \/ ListenHttp(Main) \/ StartFails(Main)
    <2>1. pc'[Main] \notin {"join", "closed"} /\ UNCHANGED client
      BY <1>1, <1>3
      DEF Start, StartAdmitted, BindTls, BindHttp, ListenHttp, StartFails, Goto,
          world, rest
    <2>2. mpc' = "start"
      BY <1>1, <1>2, <1>3
      DEF MainStarts, Start, StartAdmitted, BindTls, BindHttp, ListenHttp,
          StartFails, StartReturns, BindTlsFails, RollbackReturns, Goto
    <2> QED
      BY <1>2, <2>1, <2>2 DEF MainInv, ServiceTypeOK, StorageClosedLast
  <1>4. CASE StartReturns(Main) /\ mpc' = "serve"
    <2>1. pc'[Main] = "idle" /\ UNCHANGED client
      BY <1>1, <1>4 DEF StartReturns, Goto, world
    <2> QED
      BY <1>2, <1>4, <2>1 DEF MainInv, ServiceTypeOK, StorageClosedLast
  <1>5. CASE (BindTlsFails(Main) \/ RollbackReturns(Main)) /\ Finally
    <2>1. pc'[Main] = "idle" /\ UNCHANGED <<client, server>>
      BY <1>1, <1>5 DEF BindTlsFails, RollbackReturns, Goto, world
    <2>2. server = None
      BY <1>1, <1>5
      DEF BindTlsFails, RollbackReturns, Goto, Joined, ProgramInv, ServiceInv,
          LifecycleInv, BindInv, ShutInv, TypeOK, Epochs, None
    <2>3. mpc' = "close"
      BY <1>5 DEF Finally
    <2> QED
      BY <1>2, <2>1, <2>2, <2>3 DEF MainInv, ServiceTypeOK, StorageClosedLast
  <1> QED
    BY <1>3, <1>4, <1>5 DEF MainStarts

\* serve_forever(): only a SIGTERM makes it end.
LEMMA MainServesStep ==
  ASSUME ProgramInv, MainServes
  PROVE  MainInv' /\ StorageClosedLast'
  <1>1. /\ Main \in Callers /\ pc \in [Callers -> CallerStates]
        /\ joined \in [Callers -> Epochs \cup {None}]
    BY MainAssumption DEF ProgramInv, ServiceInv, LifecycleInv, TypeOK
  <1>2. /\ mpc = "serve" /\ MainInv /\ StorageClosedLast
        /\ UNCHANGED <<signals, writing, enabled, db>>
    BY DEF ProgramInv, ServiceInv, MainServes, Finally, storageVars
  <1>3. CASE Serve(Main) /\ UNCHANGED mpc
    <2>1. pc'[Main] = "serving" /\ UNCHANGED client
      BY <1>1, <1>3 DEF Serve, Goto
    <2> QED
      BY <1>2, <1>3, <2>1 DEF MainInv, ServiceTypeOK, StorageClosedLast
  <1>4. CASE CloseCreates(Main) /\ UNCHANGED mpc
    <2>1. /\ pc[Main] = "close_lock" /\ pc'[Main] = "join"
          /\ joined'[Main] = epoch
          /\ UNCHANGED <<client, epoch>>
      BY <1>1, <1>4 DEF CloseCreates, CreateShutdown, Goto
    <2> QED
      BY <1>2, <1>4, <2>1 DEF MainInv, ServiceTypeOK, StorageClosedLast
  <1>5. CASE ServeCloseReturns(Main) /\ UNCHANGED mpc
    <2>1. pc[Main] = "join" /\ pc'[Main] \in {"unserve", "unserve_now"} /\ UNCHANGED client
      BY <1>1, <1>5 DEF ServeCloseReturns, EnterUnserve
    <2> QED
      BY <1>2, <1>5, <2>1 DEF MainInv, ServiceTypeOK, StorageClosedLast
  <1>6. CASE ServeReturns(Main) /\ Finally
    <2>1. pc[Main] \in {"unserve", "unserve_now"} /\ pc'[Main] = "idle" /\ UNCHANGED client
      BY <1>1, <1>6 DEF ServeReturns, LeaveUnserve, Goto, rest
    <2>2. mpc' = "close"
      BY <1>6 DEF Finally
    <2> QED
      BY <1>2, <2>1, <2>2 DEF MainInv, ServiceTypeOK, StorageClosedLast
  <1> QED
    BY <1>3, <1>4, <1>5, <1>6 DEF MainServes

\* main() goes on to close_storage(), without a server or after two SIGTERMs.
LEMMA CloseStorageStep ==
  ASSUME ProgramInv, mpc = "close", CloseStorage,
         pc'[Main] = "idle", UNCHANGED <<client, server, writing>>,
         signals' \in 0 .. MaxSignals, signals' <= 1 => server = None
  PROVE  MainInv' /\ StorageClosedLast'
  <1>1. signals' <= 1 => writing' = {}
    BY NoServerNoInsert DEF ProgramInv
  <1>2. /\ MainInv
        /\ db' \in {"none", "closing", "closed"}
        /\ db' = "closing" <=> mpc' = "storage"
        /\ mpc' \in {"storage", "end"}
    BY DEF CloseStorage, ProgramInv, ServiceInv, MainInv, ServiceTypeOK
  <1>3. enabled' \in BOOLEAN /\ ~enabled'
    BY ZenonT(30) DEF CloseStorage
  <1> QED
    BY <1>1, <1>2, <1>3 DEF MainInv, ServiceTypeOK, StorageClosedLast

\* close(): when it returns, its shutdown has left no server.
LEMMA MainClosesStep ==
  ASSUME ProgramInv, MainCloses
  PROVE  MainInv' /\ StorageClosedLast'
  <1>1. /\ Main \in Callers /\ pc \in [Callers -> CallerStates]
        /\ joined \in [Callers -> Epochs \cup {None}]
    BY MainAssumption DEF ProgramInv, ServiceInv, LifecycleInv, TypeOK
  <1>2. /\ mpc = "close" /\ MainInv /\ StorageClosedLast
        /\ UNCHANGED <<signals, writing>>
    BY DEF ProgramInv, ServiceInv, MainCloses
  <1>3. ASSUME UNCHANGED <<mpc, storageVars, client, server>>,
               pc'[Main] \in {"join", "closed"} => joined'[Main] = epoch'
        PROVE  MainInv' /\ StorageClosedLast'
    BY <1>2, <1>3 DEF MainInv, ServiceTypeOK, StorageClosedLast, storageVars
  <1>4. CASE Close(Main) /\ UNCHANGED <<mpc, storageVars>>
    <2>1. pc'[Main] = "close_lock" /\ UNCHANGED <<client, server>>
      BY <1>1, <1>4 DEF Close, Goto, world
    <2> QED
      BY <1>3, <1>4, <2>1
  <1>5. CASE CloseCreates(Main) /\ UNCHANGED <<mpc, storageVars>>
    <2>1. joined'[Main] = epoch' /\ UNCHANGED <<client, server>>
      BY <1>1, <1>5 DEF CloseCreates, CreateShutdown
    <2> QED
      BY <1>3, <1>5, <2>1
  <1>6. CASE CloseJoins(Main) /\ UNCHANGED <<mpc, storageVars>>
    <2>1. joined'[Main] = epoch' /\ UNCHANGED <<client, server>>
      BY <1>1, <1>6
      DEF CloseJoins, world, ProgramInv, ServiceInv, LifecycleInv, EpochInv
    <2> QED
      BY <1>3, <1>6, <2>1
  <1>7. CASE CloseReturns(Main) /\ UNCHANGED <<mpc, storageVars>>
    <2>1. joined'[Main] = epoch' /\ UNCHANGED <<client, server>>
      BY <1>2, <1>7 DEF CloseReturns, Goto, world, locals, MainInv
    <2> QED
      BY <1>3, <1>7, <2>1
  <1>8. CASE AfterClose(Main) /\ CloseStorage
    <2>1. /\ pc[Main] = "closed" /\ pc'[Main] = "idle"
          /\ UNCHANGED <<client, server>>
      BY <1>1, <1>8 DEF AfterClose, Goto, world
    <2>2. server = None
      BY <1>1, <1>2, <2>1, CleanClose
      DEF ProgramInv, ServiceInv, MainInv, CloseIsComplete
    <2>3. signals' \in 0 .. MaxSignals
      BY <1>2 DEF MainInv, ServiceTypeOK
    <2> QED
      BY <1>2, <1>8, <2>1, <2>2, <2>3, CloseStorageStep
  <1> QED
    BY <1>4, <1>5, <1>6, <1>7, <1>8 DEF MainCloses

\* A SIGTERM: the first one ends serve_forever() or interrupts a start(); only a
\* later one can interrupt a close() that still has a server to shut down.
LEMMA SigtermStep ==
  ASSUME ProgramInv, Sigterm
  PROVE  MainInv' /\ StorageClosedLast'
  <1>1. Main \in Callers /\ pc \in [Callers -> CallerStates]
    BY MainAssumption DEF ProgramInv, ServiceInv, LifecycleInv, TypeOK
  <1>2. /\ MainInv /\ StorageClosedLast /\ UNCHANGED writing
        /\ signals' = signals + 1 /\ signals' \in 0 .. MaxSignals
        /\ signals \in Nat
    BY MaxSignalsAssumption
    DEF ProgramInv, ServiceInv, Sigterm, MainInv, ServiceTypeOK
  <1>3. ASSUME mpc \in {"start", "serve"}, mpc' \in {"serve", "close"},
               pc'[Main] \notin {"join", "closed"},
               UNCHANGED <<client, storageVars>>
        PROVE  MainInv' /\ StorageClosedLast'
    BY <1>2, <1>3 DEF MainInv, ServiceTypeOK, StorageClosedLast, storageVars
  <1>4. CASE mpc = "start" /\ CancelCall(Main) /\ Finally
    <2>1. pc'[Main] = "idle" /\ UNCHANGED client
      BY <1>1, <1>4 DEF CancelCall, world
    <2> QED
      BY <1>3, <1>4, <2>1 DEF Finally
  <1>5. CASE /\ mpc = "serve"
             /\ CancelServe(Main) \/ CancelServeClose(Main)
             /\ UNCHANGED <<mpc, storageVars>>
    <2>1. pc'[Main] \in {"close_lock", "unserve", "unserve_now"} /\ UNCHANGED client
      BY <1>1, <1>5
      DEF CancelServe, CancelServeClose, EnterUnserve, Goto, world
    <2> QED
      BY <1>3, <1>5, <2>1
  <1>6. CASE mpc = "serve" /\ CancelUnserve(Main) /\ Finally
    <2>1. pc'[Main] = "idle" /\ UNCHANGED client
      BY <1>1, <1>6 DEF CancelUnserve, LeaveUnserve, Goto, rest
    <2> QED
      BY <1>3, <1>6, <2>1 DEF Finally
  <1>7. CASE mpc = "close" /\ CancelCall(Main) /\ CloseStorage
    <2>1. pc'[Main] = "idle" /\ UNCHANGED <<client, server>>
      BY <1>1, <1>7 DEF CancelCall, world
    <2>2. signals' <= 1 => server = None
      BY <1>2, <1>7 DEF MainInv
    <2> QED
      BY <1>2, <1>7, <2>1, <2>2, CloseStorageStep
  <1> QED
    BY <1>4, <1>5, <1>6, <1>7 DEF Sigterm

-----------------------------------------------------------------------------
(* The safety properties *)

\* Every step of the program preserves the invariant.
LEMMA ProgramStep == ProgramInv /\ [ServiceNext]_allVars => ProgramInv'
  <1> SUFFICES ASSUME ProgramInv, [ServiceNext]_allVars
               PROVE  ProgramInv'
    OBVIOUS
  <1>1. LifecycleInv'
    BY ServerStep, LifecycleStep DEF ProgramInv, ServiceInv
  <1>2. MainInv' /\ StorageClosedLast'
    <2>1. CASE ServiceNext
      BY <2>1, StorageStep, MainStartsStep, MainServesStep, MainClosesStep,
         SigtermStep, BackgroundStep, InsertStep
      DEF ServiceNext
    <2>2. CASE UNCHANGED allVars
      BY <2>2
      DEF ProgramInv, ServiceInv, MainInv, ServiceTypeOK, StorageClosedLast,
          allVars, vars, serviceVars, callerVars, world
    <2> QED
      BY <2>1, <2>2
  <1> QED
    BY <1>1, <1>2 DEF ProgramInv, ServiceInv

\* The invariant of the program holds in every reachable state.
LEMMA ProgramInvariant == ServiceSpec => []ProgramInv
  <1>1. ServiceInit => LifecycleInv
    BY InitEstablishesInv DEF ServiceInit
  <1>2. ServiceInit => MainInv /\ StorageClosedLast
    <2> SUFFICES ASSUME ServiceInit
                 PROVE  MainInv /\ StorageClosedLast
      OBVIOUS
    <2>1. /\ mpc = "init" /\ signals = 0 /\ db = "none" /\ writing = {}
          /\ server = None /\ pc[Main] = "idle"
      BY MainAssumption DEF ServiceInit, Init
    <2>2. enabled \in BOOLEAN /\ ~enabled
      BY ZenonT(30) DEF ServiceInit
    <2> QED
      BY <2>1, <2>2, MaxSignalsAssumption
      DEF MainInv, ServiceTypeOK, StorageClosedLast
  <1>3. ServiceInit => ProgramInv
    BY <1>1, <1>2 DEF ProgramInv, ServiceInv
  <1> QED
    BY <1>3, ProgramStep, PTL DEF ServiceSpec

\* storage._enabled and the database client agree, inserts belong to live
\* handlers, and main() is inside a server call only where it makes one.
THEOREM ServiceInvariant == ServiceSpec => []ServiceInv
  <1>1. ProgramInv => ServiceInv
    BY DEF ProgramInv
  <1> QED
    BY <1>1, ProgramInvariant, PTL

\* With at most one SIGTERM, close_storage() never closes the database client
\* under a handler that is inserting a fingerprint.
THEOREM StorageIsClosedLast == ServiceSpec => []StorageClosedLast
  <1>1. ProgramInv => StorageClosedLast
    BY DEF ProgramInv
  <1> QED
    BY <1>1, ProgramInvariant, PTL

\* What close_storage() says of its caller is true of the first SIGTERM: it runs
\* "after the server has stopped".  Only a second one, as in the run
\* service_repeated_sigterm, refutes it.
THEOREM OneSigtermStopsServerFirst ==
  ServiceSpec => [](signals <= 1 => ServerStoppedFirst)
  <1>1. ProgramInv => (signals <= 1 => ServerStoppedFirst)
    BY DEF ProgramInv, ServiceInv, MainInv, LifecycleInv, ClientInv, Tasks,
           ServerStoppedFirst
  <1> QED
    BY <1>1, ProgramInvariant, PTL
=============================================================================
