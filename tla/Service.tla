------------------------------- MODULE Service -------------------------------
(***************************************************************************)
(* The whole program: main() (main.py) drives one SolveTLS instance and    *)
(* the MongoDB storage (solvetls/storage.py) while SIGTERM cancels main()  *)
(* at any of its awaits.  The server's part is ServerLifecycle with main() *)
(* as its only caller; handlers may be inside save_fingerprint().          *)
(***************************************************************************)
EXTENDS ServerLifecycle

CONSTANTS
  Main,         \* the task that runs main()
  MaxSignals    \* bound on the number of SIGTERMs

ASSUME MainAssumption == Callers = {Main}
ASSUME MaxSignalsAssumption == MaxSignals \in Nat

VARIABLES
  mpc,          \* the call main() is in
  signals,      \* number of SIGTERMs that interrupted an await of main()
  enabled,      \* storage._enabled
  db,           \* the AsyncMongoClient: "none", "open", "closing" or "closed"
  writing       \* handlers whose insert is under way

storageVars == <<enabled, db>>
serviceVars == <<mpc, signals, enabled, db, writing>>
allVars     == <<vars, serviceVars>>

ServiceInit ==
  /\ Init
  /\ mpc = "init"
  /\ signals = 0
  /\ enabled = FALSE
  /\ db = "none"
  /\ writing = {}

-----------------------------------------------------------------------------
(* init_storage() and close_storage() *)

\* init_storage returns: there is no URL, or the client is ready.
InitStorage ==
  /\ mpc = "init"
  /\ mpc' = "start"
  /\ \/ enabled' = TRUE /\ db' = "open"
     \/ UNCHANGED storageVars
  /\ UNCHANGED <<vars, signals, writing>>

\* It fails, times out or is cancelled, before the client exists or after: then
\* its finally clause closes the client first.
InitStorageFails ==
  /\ mpc = "init"
  /\ \/ mpc' = "close" /\ UNCHANGED db
     \/ mpc' = "init_close" /\ db' = "closing"
  /\ UNCHANGED <<vars, signals, enabled, writing>>

\* _close_client returns once its own task has ended, however often the caller
\* is cancelled meanwhile.
ClientClosed ==
  /\ db = "closing"
  /\ db' = "closed"
  /\ mpc' = IF mpc = "init_close" THEN "close" ELSE "end"
  /\ UNCHANGED <<vars, signals, enabled, writing>>

CloseStorage_StillEnabled ==
  /\ UNCHANGED enabled
  /\ IF db = "open"
       THEN db' = "closing" /\ mpc' = "storage"
       ELSE UNCHANGED db /\ mpc' = "end"

\* main()'s inner finally clause up to the await in close_storage().
CloseStorage ==
  /\ enabled' = FALSE
  /\ IF db = "open"
       THEN db' = "closing" /\ mpc' = "storage"
       ELSE UNCHANGED db /\ mpc' = "end"

\* save_fingerprint() in a handler; the insert ends with the handler.
SaveBegins(k) ==
  /\ client[k] = "running" /\ k \notin writing
  /\ enabled
  /\ writing' = writing \cup {k}
  /\ UNCHANGED <<vars, mpc, signals, storageVars>>

-----------------------------------------------------------------------------
(* main() *)

Finally_StorageFirst ==
  /\ mpc' = "close"
  /\ enabled' = FALSE
  /\ db' = IF db = "open" THEN "closing" ELSE db

\* main()'s finally clause is entered: the server is closed first.
Finally ==
  /\ mpc' = "close"
  /\ UNCHANGED storageVars

\* await tls_server.start(...).  With a single caller it is never refused.
MainStarts ==
  /\ mpc = "start"
  /\ \/ /\ \/ Start(Main) \/ StartAdmitted(Main) \/ BindTls(Main)
           \/ BindHttp(Main) \/ ListenHttp(Main) \/ StartFails(Main)
        /\ UNCHANGED <<mpc, storageVars>>
     \/ StartReturns(Main) /\ mpc' = "serve" /\ UNCHANGED storageVars
     \/ (BindTlsFails(Main) \/ RollbackReturns(Main)) /\ Finally
  /\ UNCHANGED <<signals, writing>>

\* await tls_server.serve_forever(), interrupted by SIGTERM only.
MainServes ==
  /\ mpc = "serve"
  /\ \/ /\ Serve(Main) \/ CloseCreates(Main) \/ ServeCloseReturns(Main)
        /\ UNCHANGED <<mpc, storageVars>>
     \/ ServeReturns(Main) /\ Finally
  /\ UNCHANGED <<signals, writing>>

\* await tls_server.close(), then await close_storage().
MainCloses ==
  /\ mpc = "close"
  /\ \/ /\ \/ Close(Main) \/ CloseCreates(Main) \/ CloseJoins(Main)
           \/ CloseReturns(Main)
        /\ UNCHANGED <<mpc, storageVars>>
     \/ AfterClose(Main) /\ CloseStorage
  /\ UNCHANGED <<signals, writing>>

\* SIGTERM cancels the await main() is in.  (One that interrupts a bind or
\* init_storage() is the failure of that await, and not counted.)  The lock is
\* not contended, so main() never suspends to acquire it.
Sigterm ==
  /\ signals < MaxSignals
  /\ pc[Main] \notin {"start_lock", "close_lock"}
  /\ signals' = signals + 1
  /\ \/ mpc = "start" /\ CancelCall(Main) /\ Finally
     \/ /\ mpc = "serve" /\ (CancelServe(Main) \/ CancelServeClose(Main))
        /\ UNCHANGED <<mpc, storageVars>>
     \/ mpc = "serve" /\ CancelUnserve(Main) /\ Finally
     \/ mpc = "close" /\ CancelCall(Main) /\ CloseStorage
  /\ UNCHANGED writing

-----------------------------------------------------------------------------
\* The shutdown task, connections and done callbacks.
Background ==
  /\ \/ \E e \in Epochs : ShutdownNext(e)
     \/ \E k \in Clients : \/ Connect(k) \/ AcceptRejects(k)
                           \/ AcceptAdmits(k) \/ ClientDone(k)
  /\ UNCHANGED serviceVars

HandlerReturns(k) ==
  /\ HandlerEnds(k)
  /\ writing' = writing \ {k}
  /\ UNCHANGED <<mpc, signals, storageVars>>

ServiceNext ==
  \/ InitStorage \/ InitStorageFails \/ ClientClosed
  \/ MainStarts \/ MainServes \/ MainCloses \/ Sigterm
  \/ Background
  \/ \E k \in Clients : SaveBegins(k) \/ HandlerReturns(k)

ServiceSpec == ServiceInit /\ [][ServiceNext]_allVars

\* The fairness of ServerLifecycle for main(); the driver's initialisation and
\* cleanup have deadlines, and so has an insert (WRITE_TIMEOUT).
ServiceFairness ==
  /\ WF_allVars(InitStorage \/ InitStorageFails)
  /\ WF_allVars(ClientClosed)
  /\ WF_allVars(MainStarts)
  /\ WF_allVars(MainServes)
  /\ WF_allVars(MainCloses)
  /\ \A e \in Epochs : WF_allVars(ShutdownNext(e) /\ UNCHANGED serviceVars)
  /\ \A k \in Clients :
       /\ WF_allVars(/\ AcceptRejects(k) \/ AcceptAdmits(k)
                     /\ UNCHANGED serviceVars)
       /\ WF_allVars(client[k] = "cancelling" /\ HandlerReturns(k))
       /\ WF_allVars(ClientDone(k) /\ UNCHANGED serviceVars)

FairServiceSpec == ServiceSpec /\ ServiceFairness

-----------------------------------------------------------------------------
(* Properties *)

ServiceTypeOK ==
  /\ mpc \in {"init", "init_close", "start", "serve", "close", "storage",
              "end"}
  /\ signals \in 0 .. MaxSignals
  /\ enabled \in BOOLEAN
  /\ db \in {"none", "open", "closing", "closed"}
  /\ writing \subseteq Clients

\* Where main() is, what it has done to the storage and what is left of the
\* server.  close() is reached with the server running only by a SIGTERM, so that
\* the first SIGTERM that can interrupt a shutdown is the second one; until then
\* main() goes on to close_storage() without a server.
MainInv ==
  /\ ServiceTypeOK
  /\ enabled <=> db = "open"
  /\ db = "closing" <=> mpc \in {"init_close", "storage"}
  /\ \A k \in writing : client[k] \in {"running", "cancelling"}
  /\ mpc \in {"init", "init_close", "storage", "end"} => pc[Main] = "idle"
  /\ mpc = "init" => db = "none"
  /\ mpc \in {"init", "init_close"} => server = None
  /\ mpc = "serve" /\ signals = 0 => pc[Main] \in {"idle", "serving"}
  /\ mpc = "close" /\ signals = 0 => server = None
  /\ mpc \in {"storage", "end"} /\ signals <= 1 => server = None
  /\ pc[Main] \in {"join", "closed"} => joined[Main] = epoch

\* The two globals of storage.py change together across every await, failure
\* and cancellation: inserts are enabled exactly while the client is open, it is
\* being closed only by a main() that waits for it, every insert belongs to a
\* live handler, and main() is inside a server call only where it makes one.
\* MainInv says this and the rest of what the proofs need.
ServiceInv == LifecycleInv /\ MainInv

\* No insert is under way when the database client is closed, as long as at most
\* one SIGTERM interrupted main(): it closes the server, and with it every
\* handler, before it calls close_storage().  A second SIGTERM may interrupt that
\* wait (see ServerStoppedFirst).
StorageClosedLast ==
  signals <= 1 /\ db \in {"closing", "closed"} => writing = {}

\* What close_storage() says of its caller: it runs "after the server has
\* stopped" (storage.py).
ServerStoppedFirst ==
  mpc \in {"storage", "end"} => server = None /\ Tasks = {}

\* A SIGTERM, or a failed initialisation or start, ends the program: no stalled
\* client, no slow database and no rollback keeps main() from returning.
ProgramEnds ==
  signals > 0 \/ mpc \in {"init_close", "close"} ~> mpc = "end"
=============================================================================
