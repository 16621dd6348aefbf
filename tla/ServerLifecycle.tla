--------------------------- MODULE ServerLifecycle ---------------------------
(***************************************************************************)
(* The lifecycle of a SolveTLS instance (solvetls/server.py): start(),     *)
(* serve_forever(), close(), the shutdown task and the admission of        *)
(* clients, called concurrently by several asyncio tasks, any of which may *)
(* be cancelled at any of its awaits.                                      *)
(*                                                                         *)
(* asyncio is single threaded: one action is the code a task runs from one *)
(* await to the next.  Every pass of _start's guard begins a new epoch;    *)
(* the listeners bound and the shutdown task created in an epoch are named *)
(* by its number, so that object identity ("is not expected_server")       *)
(* becomes equality of epochs.  Epoch 1 is the time before any start().    *)
(***************************************************************************)
EXTENDS Naturals, FiniteSets

CONSTANTS
  Callers,      \* asyncio tasks that call start(), serve_forever() or close()
  Clients,      \* client connections
  MaxClients,   \* MAX_CLIENTS
  MaxEpoch,     \* start() passes its guard at most MaxEpoch - 1 times
  Nobody        \* the owner of a free lock

ASSUME CallersAssumption == Nobody \notin Callers
ASSUME ClientsAssumption == IsFiniteSet(Clients)
ASSUME MaxClientsAssumption == MaxClients \in Nat
ASSUME MaxEpochAssumption == MaxEpoch \in Nat \ {0}

VARIABLES
  pc,           \* where each caller is suspended
  srv,          \* serve_forever's local "server"
  srvHttp,      \* the redirect listener in serve_forever's "listeners"
  joined,       \* the shutdown task a caller awaits behind shield()
  lock,         \* owner of _lifecycle_lock
  server,       \* _server
  httpServer,   \* _http_server
  serving,      \* _serving
  closeTask,    \* _close_task
  closing,      \* _closing
  epoch,        \* number of the current epoch
  tls,          \* asyncio state of the TLS listener of each epoch
  redir,        \* asyncio state of the redirect listener of each epoch
  shut,         \* state of the shutdown task of each epoch
  snap,         \* the shutdown task's local "clients"
  client,       \* state of each connection and of its handler task
  asked         \* history: epochs somebody had a reason to close

locals     == <<srv, srvHttp, joined>>
callerVars == <<pc, srv, srvHttp, joined, lock>>
serverVars == <<server, httpServer, serving, closeTask, closing, epoch>>
listenVars == <<tls, redir>>
shutVars   == <<shut, snap>>
rest       == <<tls, redir, shut, snap, client, asked>>
world      == <<server, httpServer, serving, closeTask, closing, epoch, tls,
                redir, shut, snap, client, asked>>
vars       == <<callerVars, world>>

None == 0
Epochs == 1 .. MaxEpoch

CallerStates ==
  {"idle",
   "start_lock",     \* start(): waiting for the lock
   "bind_tls",       \* _start: awaiting the first start_server
   "bind_http",      \* _start: awaiting the second start_server
   "listen_tls",     \* _start: awaiting _server.start_serving
   "listen_http",    \* _start: awaiting _http_server.start_serving
   "rollback",       \* _start: awaiting shield(_close_task)
   "serving",        \* serve_forever: awaiting shield(serving)
   "close_lock",     \* _close: waiting for the lock
   "join",           \* _close: awaiting shield(closing)
   "unserve",        \* serve_forever: awaiting the last gather
   "unserve_now",    \* the same, with serving tasks that end at once
   "closed"}         \* close() has returned normally

\* The awaits of _start, during which the caller holds the lock.
Binding == {"bind_tls", "bind_http", "listen_tls", "listen_http"}

ListenerStates == {"none", "bound", "serving", "closed"}
Open == {"bound", "serving"}
ShutStates == {"none", "created", "grace", "reap", "drain", "done"}
Running == {"created", "grace", "reap", "drain"}

\* "incoming": accepted by asyncio, _accept_client not yet called;
\* "running", "cancelling": the handler task has not ended (and was cancelled);
\* "finished": it has ended, its done callback has not run yet.
ClientStates == {"absent", "incoming", "running", "cancelling", "finished"}

\* The keys of the _clients dictionary.
Tasks == {k \in Clients : client[k] \in {"running", "cancelling", "finished"}}

Init ==
  /\ pc = [c \in Callers |-> "idle"]
  /\ srv = [c \in Callers |-> None]
  /\ srvHttp = [c \in Callers |-> None]
  /\ joined = [c \in Callers |-> None]
  /\ lock = Nobody
  /\ server = None /\ httpServer = None
  /\ serving = {}
  /\ closeTask = None /\ closing = FALSE
  /\ epoch = 1
  /\ tls = [e \in Epochs |-> "none"]
  /\ redir = [e \in Epochs |-> "none"]
  /\ shut = [e \in Epochs |-> "none"]
  /\ snap = [e \in Epochs |-> {}]
  /\ client = [k \in Clients |-> "absent"]
  /\ asked = {}

-----------------------------------------------------------------------------
(* asyncio.Server, as the code uses it *)

\* Server.close(): idempotent, and a no-op on the absent listener None.
CloseListener(lsn, e) ==
  [f \in Epochs |-> IF f = e /\ lsn[f] \in Open THEN "closed" ELSE lsn[f]]

\* Server.start_serving() and the first step of Server.serve_forever().
ServeListener(lsn, e) ==
  [f \in Epochs |-> IF f = e /\ lsn[f] = "bound" THEN "serving" ELSE lsn[f]]

-----------------------------------------------------------------------------
(* Steps several calls share *)

\* Caller c resumes from one await and runs up to the next.
Goto(c, from, to) ==
  /\ pc[c] = from
  /\ pc' = [pc EXCEPT ![c] = to]

\* create_task(self._shutdown()), which the caller is about to join.
CreateShutdown(c) ==
  /\ closing' = TRUE
  /\ closeTask' = epoch
  /\ shut' = [shut EXCEPT ![epoch] = "created"]
  /\ joined' = [joined EXCEPT ![c] = epoch]

Joined_Unshielded(c) == TRUE

\* await shield(task) returns only when the shutdown task has ended.
Joined(c) == shut[joined[c]] = "done"

-----------------------------------------------------------------------------
(* start() *)

\* A caller awaits start(); the number of calls is bounded.
Start(c) ==
  /\ Goto(c, "idle", "start_lock")
  /\ epoch + Cardinality({d \in Callers : pc[d] = "start_lock"}) < MaxEpoch
  /\ UNCHANGED <<locals, lock, world>>

MayStart_ForgetsCloseTask == server = None /\ httpServer = None

MayStart ==
  /\ server = None /\ httpServer = None
  /\ closeTask # None => shut[closeTask] = "done"

StartRefused(c) ==
  /\ lock = Nobody /\ ~MayStart
  /\ Goto(c, "start_lock", "idle")
  /\ UNCHANGED <<locals, lock, world>>

StartAdmitted(c) ==
  /\ lock = Nobody /\ MayStart /\ epoch < MaxEpoch
  /\ Goto(c, "start_lock", "bind_tls")
  /\ lock' = c
  /\ epoch' = epoch + 1
  /\ closeTask' = None
  /\ closing' = FALSE
  /\ UNCHANGED <<locals, server, httpServer, serving, rest>>

\* The first start_server fails or is cancelled: it is outside the try block.
BindTlsFails(c) ==
  /\ Goto(c, "bind_tls", "idle")
  /\ lock' = Nobody
  /\ UNCHANGED <<locals, world>>

\* The TLS socket is bound.  Without a redirect port, start_serving() has
\* started to listen before _start yields again.
BindTls(c) ==
  /\ server' = epoch
  /\ \/ /\ Goto(c, "bind_tls", "bind_http")
        /\ tls' = [tls EXCEPT ![epoch] = "bound"]
     \/ /\ Goto(c, "bind_tls", "listen_tls")
        /\ tls' = [tls EXCEPT ![epoch] = "serving"]
  /\ UNCHANGED <<locals, lock, httpServer, serving, closeTask, closing, epoch,
                 redir, shutVars, client, asked>>

\* The redirect socket is bound; start_serving() of the TLS listener has run
\* up to its yield.  It raises when a serving task has closed the listener.
BindHttp(c) ==
  /\ Goto(c, "bind_http", "listen_tls")
  /\ tls[epoch] \in Open
  /\ httpServer' = epoch
  /\ redir' = [redir EXCEPT ![epoch] = "bound"]
  /\ tls' = ServeListener(tls, epoch)
  /\ UNCHANGED <<locals, lock, server, serving, closeTask, closing, epoch,
                 shutVars, client, asked>>

\* _server.start_serving() returns; the redirect listener starts to listen.
ListenHttp(c) ==
  /\ Goto(c, "listen_tls", "listen_http")
  /\ httpServer # None /\ redir[httpServer] \in Open
  /\ redir' = ServeListener(redir, httpServer)
  /\ UNCHANGED <<locals, lock, serverVars, tls, shutVars, client, asked>>

\* The last start_serving() returns and start() releases the lock.
StartReturns(c) ==
  /\ \/ Goto(c, "listen_tls", "idle") /\ httpServer = None
     \/ Goto(c, "listen_http", "idle")
  /\ lock' = Nobody
  /\ UNCHANGED <<locals, world>>

StartFails_CallsClose(c) ==
  /\ pc[c] \in {"bind_http", "listen_tls", "listen_http"}
  /\ pc' = [pc EXCEPT ![c] = "close_lock"]
  /\ UNCHANGED <<locals, lock, world>>

\* "except BaseException": a call inside the try block raises, before or after
\* it yields, or the caller is cancelled there.  The lock is kept.
StartFails(c) ==
  /\ \/ /\ pc[c] \in {"bind_http", "listen_tls", "listen_http"}
        /\ UNCHANGED <<server, httpServer, tls, redir>>
     \/ /\ pc[c] = "bind_tls"
        /\ server' = epoch
        /\ tls' = [tls EXCEPT ![epoch] = "bound"]
        /\ UNCHANGED <<httpServer, redir>>
     \/ /\ pc[c] = "bind_http"
        /\ httpServer' = epoch
        /\ redir' = [redir EXCEPT ![epoch] = "bound"]
        /\ UNCHANGED <<server, tls>>
  /\ CreateShutdown(c)
  /\ pc' = [pc EXCEPT ![c] = "rollback"]
  /\ asked' = asked \cup {epoch}
  /\ UNCHANGED <<srv, srvHttp, lock, serving, epoch, snap, client>>

\* await shield(_close_task) returns and start() raises.
RollbackReturns(c) ==
  /\ Goto(c, "rollback", "idle")
  /\ Joined(c)
  /\ lock' = Nobody
  /\ joined' = [joined EXCEPT ![c] = None]
  /\ UNCHANGED <<srv, srvHttp, world>>

-----------------------------------------------------------------------------
(* serve_forever() *)

Serve(c) ==
  /\ Goto(c, "idle", "serving")
  /\ server # None /\ server \notin serving
  /\ serving' = serving \cup {server}
  /\ srv' = [srv EXCEPT ![c] = server]
  /\ srvHttp' = [srvHttp EXCEPT ![c] = httpServer]
  /\ tls' = ServeListener(tls, server)
  /\ redir' = ServeListener(redir, httpServer)
  /\ UNCHANGED <<joined, lock, server, httpServer, closeTask, closing, epoch,
                 shutVars, client, asked>>

\* A listener was closed by somebody else, which cancels the gather.
ServeEnds(c) ==
  /\ Goto(c, "serving", "close_lock")
  /\ \/ tls[srv[c]] = "closed"
     \/ srvHttp[c] # None /\ redir[srvHttp[c]] = "closed"
  /\ UNCHANGED <<locals, lock, world>>

CancelServe(c) ==
  /\ Goto(c, "serving", "close_lock")
  /\ UNCHANGED <<locals, lock, world>>

\* Somebody else has closed the listeners, so that the asyncio serving tasks, once
\* they have resumed, are in wait_closed(): a cancellation ends them at once.
Waiting(c) ==
  /\ tls[srv[c]] = "closed"
  /\ srvHttp[c] # None => redir[srvHttp[c]] = "closed"

\* The inner finally of serve_forever: cancelling the asyncio serving tasks
\* closes their listeners, and they wait for their connections.  Reached when
\* _close returns or raises.
EnterUnserve(c) ==
  /\ tls' = CloseListener(tls, srv[c])
  /\ redir' = CloseListener(redir, srvHttp[c])
  /\ joined' = [joined EXCEPT ![c] = None]
  /\ asked' = asked \cup {srv[c]}
  /\ \/ pc' = [pc EXCEPT ![c] = "unserve"]
     \/ Waiting(c) /\ pc' = [pc EXCEPT ![c] = "unserve_now"]
  /\ UNCHANGED <<srv, srvHttp, lock, serverVars, shutVars, client>>

LeaveUnserve(c) ==
  /\ Goto(c, "unserve", "idle") \/ Goto(c, "unserve_now", "idle")
  /\ srv' = [srv EXCEPT ![c] = None]
  /\ srvHttp' = [srvHttp EXCEPT ![c] = None]
  /\ UNCHANGED <<joined, lock, server, httpServer, closeTask, closing, epoch,
                 rest>>

\* The last gather returns: a Server.serve_forever() that was cancelled while it
\* served ends with wait_closed(), which waits for the connections of its
\* listener.
ServeReturns(c) ==
  /\ pc[c] = "unserve" /\ srv[c] = server /\ srvHttp[c] = httpServer =>
       \A k \in Clients : client[k] = "absent"
  /\ LeaveUnserve(c)
  /\ serving' = serving \ {srv[c]}

\* The last gather is cancelled, and the discard after it skipped.
CancelUnserve(c) ==
  /\ LeaveUnserve(c)
  /\ UNCHANGED serving

-----------------------------------------------------------------------------
(* close() and _close(expected_server) *)

Close(c) ==
  /\ Goto(c, "idle", "close_lock")
  /\ UNCHANGED <<locals, lock, world>>

Expected_Ignored(c) == TRUE

\* close() passes no expected server, serve_forever() its own.
Expected(c) == srv[c] = None \/ srv[c] = server

\* The instance was closed, or closed and restarted, in the meantime.
CloseSkipped(c) ==
  /\ pc[c] = "close_lock" /\ lock = Nobody /\ ~Expected(c)
  /\ EnterUnserve(c)

CloseCreates(c) ==
  /\ Goto(c, "close_lock", "join")
  /\ lock = Nobody /\ Expected(c) /\ closeTask = None
  /\ CreateShutdown(c)
  /\ asked' = asked \cup {IF srv[c] = None THEN epoch ELSE srv[c]}
  /\ UNCHANGED <<srv, srvHttp, lock, server, httpServer, serving, epoch,
                 listenVars, snap, client>>

CloseJoins(c) ==
  /\ Goto(c, "close_lock", "join")
  /\ lock = Nobody /\ Expected(c) /\ closeTask # None
  /\ joined' = [joined EXCEPT ![c] = closeTask]
  /\ UNCHANGED <<srv, srvHttp, lock, world>>

CloseReturns(c) ==
  /\ Goto(c, "join", "closed")
  /\ srv[c] = None /\ Joined(c)
  /\ UNCHANGED <<locals, lock, world>>

\* The caller of close() goes on with whatever it does next.
AfterClose(c) ==
  /\ Goto(c, "closed", "idle")
  /\ joined' = [joined EXCEPT ![c] = None]
  /\ UNCHANGED <<srv, srvHttp, lock, world>>

ServeCloseReturns(c) ==
  /\ pc[c] = "join" /\ srv[c] # None /\ Joined(c)
  /\ EnterUnserve(c)

\* A second cancellation of serve_forever(), inside its call of _close.
CancelServeClose(c) ==
  /\ pc[c] \in {"close_lock", "join"} /\ srv[c] # None
  /\ EnterUnserve(c)

\* Cancellation of start() or close() while they queue for the lock or await a
\* shield(): the shutdown task goes on.  A rollback also releases the lock.
CancelCall(c) ==
  /\ \/ pc[c] = "start_lock" /\ UNCHANGED lock
     \/ pc[c] \in {"close_lock", "join"} /\ srv[c] = None /\ UNCHANGED lock
     \/ pc[c] = "rollback" /\ lock' = Nobody
  /\ pc' = [pc EXCEPT ![c] = "idle"]
  /\ joined' = [joined EXCEPT ![c] = None]
  /\ UNCHANGED <<srv, srvHttp, world>>

-----------------------------------------------------------------------------
(* The task running _shutdown() *)

Snapshot_BeforeCallbacks == {k \in Tasks : client[k] = "running"}

\* dict(self._clients)
Snapshot == Tasks

ShutdownBegins(e) ==
  /\ shut[e] = "created"
  /\ tls' = CloseListener(tls, server)
  /\ redir' = CloseListener(redir, httpServer)
  /\ snap' = [snap EXCEPT ![e] = Snapshot]
  /\ shut' = [shut EXCEPT ![e] = IF Snapshot = {} THEN "reap" ELSE "grace"]
  /\ UNCHANGED <<callerVars, serverVars, client, asked>>

GraceOver_KeepsStalled(e) ==
  /\ shut[e] = "grace"
  /\ \A k \in snap[e] : client[k] \notin {"running", "cancelling"}
  /\ shut' = [shut EXCEPT ![e] = "reap"]
  /\ UNCHANGED <<callerVars, serverVars, listenVars, snap, client, asked>>

\* wait() returns: every handler has ended, or SHUTDOWN_TIMEOUT has passed and
\* those that have not are aborted and cancelled.
GraceOver(e) ==
  /\ shut[e] = "grace"
  /\ client' = [k \in Clients |->
                  IF k \in snap[e] /\ client[k] = "running"
                    THEN "cancelling" ELSE client[k]]
  /\ shut' = [shut EXCEPT ![e] = "reap"]
  /\ UNCHANGED <<callerVars, serverVars, listenVars, snap, asked>>

\* gather(*clients) returns; _client_done was registered before gather's own
\* callback and has run for each of them.
ClientsReaped(e) ==
  /\ shut[e] = "reap"
  /\ snap[e] \cap Tasks = {}
  /\ shut' = [shut EXCEPT ![e] = "drain"]
  /\ snap' = [snap EXCEPT ![e] = {}]
  /\ UNCHANGED <<callerVars, serverVars, listenVars, client, asked>>

\* Server.wait_closed() waits for the listener's remaining connections.
ShutdownEnds(e) ==
  /\ shut[e] = "drain"
  /\ \A k \in Clients : client[k] = "absent"
  /\ server' = None
  /\ httpServer' = None
  /\ shut' = [shut EXCEPT ![e] = "done"]
  /\ UNCHANGED <<callerVars, serving, closeTask, closing, epoch, listenVars,
                 snap, client, asked>>

-----------------------------------------------------------------------------
(* Client connections *)

\* asyncio accepts a connection on a listening socket.
Connect(k) ==
  /\ client[k] = "absent"
  /\ \E e \in Epochs : tls[e] = "serving" \/ redir[e] = "serving"
  /\ client' = [client EXCEPT ![k] = "incoming"]
  /\ UNCHANGED <<callerVars, serverVars, listenVars, shutVars, asked>>

MayAdmit_WhileClosing == Cardinality(Tasks) < MaxClients

\* The two early returns of _accept_client.
MayAdmit == ~closing /\ Cardinality(Tasks) < MaxClients

AcceptRejects(k) ==
  /\ client[k] = "incoming"
  /\ ~MayAdmit
  /\ client' = [client EXCEPT ![k] = "absent"]
  /\ UNCHANGED <<callerVars, serverVars, listenVars, shutVars, asked>>

AcceptAdmits(k) ==
  /\ client[k] = "incoming"
  /\ MayAdmit
  /\ client' = [client EXCEPT ![k] = "running"]
  /\ UNCHANGED <<callerVars, serverVars, listenVars, shutVars, asked>>

\* The handler task ends by itself, or because it was cancelled.
HandlerEnds(k) ==
  /\ client[k] \in {"running", "cancelling"}
  /\ client' = [client EXCEPT ![k] = "finished"]
  /\ UNCHANGED <<callerVars, serverVars, listenVars, shutVars, asked>>

\* The done callback: the task is forgotten and its writer closed.
ClientDone(k) ==
  /\ client[k] = "finished"
  /\ client' = [client EXCEPT ![k] = "absent"]
  /\ UNCHANGED <<callerVars, serverVars, listenVars, shutVars, asked>>

-----------------------------------------------------------------------------
StartNext(c) ==
  \/ Start(c) \/ StartRefused(c) \/ StartAdmitted(c)
  \/ BindTlsFails(c) \/ BindTls(c) \/ BindHttp(c) \/ ListenHttp(c)
  \/ StartReturns(c) \/ StartFails(c) \/ RollbackReturns(c)

ServeNext(c) ==
  \/ Serve(c) \/ ServeEnds(c) \/ CancelServe(c)
  \/ ServeCloseReturns(c) \/ CancelServeClose(c) \/ ServeReturns(c)
  \/ CancelUnserve(c)

CloseNext(c) ==
  \/ Close(c) \/ CloseSkipped(c) \/ CloseCreates(c) \/ CloseJoins(c)
  \/ CloseReturns(c) \/ AfterClose(c) \/ CancelCall(c)

ShutdownNext(e) ==
  \/ ShutdownBegins(e) \/ GraceOver(e) \/ ClientsReaped(e) \/ ShutdownEnds(e)

ClientNext(k) ==
  \/ Connect(k) \/ AcceptRejects(k) \/ AcceptAdmits(k)
  \/ HandlerEnds(k) \/ ClientDone(k)

Next ==
  \/ \E c \in Callers : StartNext(c) \/ ServeNext(c) \/ CloseNext(c)
  \/ \E e \in Epochs : ShutdownNext(e)
  \/ \E k \in Clients : ClientNext(k)

Spec == Init /\ [][Next]_vars

(***************************************************************************)
(* asyncio runs every ready callback: a task whose await is over resumes,  *)
(* and asyncio.Lock serves its waiters first come first served, hence the  *)
(* strong fairness of the steps that need the lock.  A bind, a             *)
(* start_serving and the grace period come to an end; a cancelled handler  *)
(* ends because each await of ClientConnection.close has a timeout.        *)
(* A task is at one await at a time, so one formula per task says all      *)
(* this.  Nothing is assumed of handlers that are not cancelled, of calls  *)
(* and of cancellations.                                                   *)
(***************************************************************************)
Fairness ==
  /\ \A c \in Callers :
       /\ SF_vars(\/ StartRefused(c) \/ StartAdmitted(c)
                  \/ CloseSkipped(c) \/ CloseCreates(c) \/ CloseJoins(c))
       /\ WF_vars(\/ BindTlsFails(c) \/ BindTls(c) \/ BindHttp(c)
                  \/ ListenHttp(c) \/ StartReturns(c) \/ StartFails(c)
                  \/ RollbackReturns(c) \/ ServeEnds(c) \/ CloseReturns(c)
                  \/ ServeCloseReturns(c) \/ ServeReturns(c) \/ AfterClose(c))
  /\ WF_vars(\E e \in Epochs : ShutdownNext(e))
  /\ \A k \in Clients :
       WF_vars(\/ AcceptRejects(k) \/ AcceptAdmits(k) \/ ClientDone(k)
               \/ client[k] = "cancelling" /\ HandlerEnds(k))

FairSpec == Spec /\ Fairness

-----------------------------------------------------------------------------
(* Properties *)

TypeOK ==
  /\ pc \in [Callers -> CallerStates]
  /\ srv \in [Callers -> Epochs \cup {None}]
  /\ srvHttp \in [Callers -> Epochs \cup {None}]
  /\ joined \in [Callers -> Epochs \cup {None}]
  /\ lock \in Callers \cup {Nobody}
  /\ server \in Epochs \cup {None}
  /\ httpServer \in Epochs \cup {None}
  /\ serving \subseteq Epochs
  /\ closeTask \in Epochs \cup {None}
  /\ closing \in BOOLEAN
  /\ epoch \in Epochs
  /\ tls \in [Epochs -> ListenerStates]
  /\ redir \in [Epochs -> ListenerStates]
  /\ shut \in [Epochs -> ShutStates]
  /\ snap \in [Epochs -> SUBSET Clients]
  /\ client \in [Clients -> ClientStates]
  /\ asked \subseteq Epochs

\* No start that fails, is cancelled or is rolled back, and no shutdown, ever
\* loses a socket: a listener that is still open is the one _server or
\* _http_server refers to, so that the next close() finds and closes it.
ListenersOwned ==
  \A e \in Epochs :
    /\ tls[e] \in Open => server = e
    /\ redir[e] \in Open => httpServer = e

\* At most one shutdown task runs at a time, and none of them runs while a
\* start() is binding or starting to listen: _start refuses "still closing",
\* also after the start() that began a rollback was cancelled and has released
\* the lock before the rollback was over.
ShutdownExclusive ==
  \A e \in Epochs :
    shut[e] \in Running =>
      /\ \A f \in Epochs \ {e} : shut[f] \notin Running
      /\ \A c \in Callers : pc[c] \notin Binding

\* close() returns only after a complete cleanup: the shutdown it joined is
\* over, the listeners of that epoch are closed and, unless a new start() has
\* been admitted since, no listener is referenced and no client handler is left
\* that a later database shutdown could disturb.
CloseIsComplete ==
  \A c \in Callers :
    pc[c] = "closed" =>
      /\ shut[joined[c]] = "done"
      /\ tls[joined[c]] \notin Open /\ redir[joined[c]] \notin Open
      /\ joined[c] = epoch => server = None /\ httpServer = None /\ Tasks = {}

\* A shutdown or a listener's end has a reason in its own epoch: a close() that
\* got the lock in it, the rollback of its start(), or the end of the
\* serve_forever() that served this very listener.
ClosedForReason ==
  \A e \in Epochs :
    shut[e] # "none" \/ tls[e] = "closed" \/ redir[e] = "closed" => e \in asked

\* An entry of _serving that no serve_forever() answers for any more, because a
\* cancellation skipped the discard, names a listener that is closed.
StaleEntriesClosed ==
  \A e \in serving : tls[e] = "closed" \/ \E c \in Callers : srv[c] = e

\* "An old serving task must never close the replacement listener", nor does the
\* entry it leaves in _serving keep the replacement from being served.
ReplacementSafe == ClosedForReason /\ StaleEntriesClosed

\* The phase of the instance as its callers see it.
Phase ==
  IF closeTask # None /\ shut[closeTask] # "done" THEN "stopping"
  ELSE IF \E c \in Callers : pc[c] \in Binding THEN "starting"
  ELSE IF server # None THEN "up"
  ELSE "down"

Abstract == INSTANCE ServerPhases WITH phase <- Phase, handlers <- Tasks

\* The lifecycle code implements ServerPhases: handlers are admitted only while
\* starting or up, never beyond MAX_CLIENTS, never while _shutdown works from
\* its snapshot of _clients, and the instance is down only without handlers.
PhasesImplemented == Abstract!Spec

\* A call under way.  The end of a serve_forever() that was interrupted before
\* it could begin a shutdown is not counted: it waits for its clients.
Pending(c) ==
  /\ pc[c] \notin {"idle", "serving"}
  /\ pc[c] = "unserve" => shut[srv[c]] # "none"

\* Every start() and close() call returns, and serve_forever() returns once it
\* has been interrupted: rollback does not deadlock on the lock start() holds,
\* and no stalled client holds up the shutdown.  A shutdown that was begun is
\* finished, whoever of those awaiting it is cancelled ("Cancelling one caller
\* does not abandon socket cleanup").
CallsReturn ==
  /\ \A c \in Callers : Pending(c) ~> ~Pending(c)
  /\ (\E e \in Epochs : shut[e] = "created") ~>
       (\A e \in Epochs : shut[e] \in {"none", "done"})

-----------------------------------------------------------------------------
(* The inductive invariant behind the safety properties *)

\* The lock is owned exactly by the start() that is past its guard.
LockInv ==
  \A c \in Callers : pc[c] \in Binding \cup {"rollback"} <=> lock = c

\* Everything the instance refers to belongs to the current epoch.
EpochInv ==
  /\ server \in {None, epoch}
  /\ httpServer \in {None, epoch}
  /\ closeTask \in {None, epoch}
  /\ httpServer # None => server # None
  /\ \A e \in Epochs : e > epoch =>
       tls[e] = "none" /\ redir[e] = "none" /\ shut[e] = "none"

\* A shutdown task runs only as the current _close_task, with _closing set.
ShutInv ==
  /\ closing <=> closeTask # None
  /\ closeTask = None => shut[epoch] = "none"
  /\ closeTask # None => shut[closeTask] # "none"
  /\ \A e \in Epochs : shut[e] \in Running => closeTask = e
  /\ closeTask # None /\ shut[closeTask] = "done" =>
       server = None /\ httpServer = None

\* How far _start has come.
BindInv ==
  \A c \in Callers :
    /\ pc[c] \in Binding => closeTask = None
    /\ pc[c] = "bind_tls" =>
         /\ server = None
         /\ tls[epoch] = "none" /\ redir[epoch] = "none"
    /\ pc[c] = "bind_http" =>
         server = epoch /\ httpServer = None /\ redir[epoch] = "none"
    /\ pc[c] \in {"listen_tls", "listen_http"} => server = epoch
    /\ pc[c] = "rollback" => joined[c] = epoch /\ closeTask = epoch

\* The locals of serve_forever() and _close().
LocalInv ==
  \A c \in Callers :
    /\ pc[c] \in {"serving", "unserve", "unserve_now"} => srv[c] # None
    /\ pc[c] \in {"idle", "start_lock", "rollback", "closed"} \cup Binding =>
         srv[c] = None
    /\ srv[c] = None => srvHttp[c] = None
    /\ srvHttp[c] \in {None, srv[c]}
    /\ pc[c] \in {"join", "closed"} =>
         joined[c] # None /\ shut[joined[c]] # "none"
    /\ pc[c] = "closed" => shut[joined[c]] = "done"

\* What is served, or was, has been bound, and serve_forever() closes it before
\* its last await.
EntryInv ==
  /\ server # None => tls[server] # "none"
  /\ \A e \in serving : tls[e] # "none"
  /\ \A c \in Callers :
       /\ srv[c] # None => tls[srv[c]] # "none"
       /\ pc[c] \in {"unserve", "unserve_now"} => tls[srv[c]] = "closed"

\* Once the shutdown has begun, no listener is open and its snapshot still
\* covers every handler; without a server there is no connection at all.
ClientInv ==
  /\ closeTask # None /\ shut[closeTask] # "created" =>
       \A e \in Epochs : tls[e] \notin Open /\ redir[e] \notin Open
  /\ closeTask # None /\ shut[closeTask] \in {"grace", "reap"} =>
       Tasks \subseteq snap[closeTask]
  /\ closeTask # None /\ shut[closeTask] = "drain" => Tasks = {}
  /\ server = None => \A k \in Clients : client[k] = "absent"

\* The conjunction is inductive; it implies each of the safety properties.
LifecycleInv ==
  /\ TypeOK
  /\ LockInv
  /\ EpochInv
  /\ ShutInv
  /\ BindInv
  /\ LocalInv
  /\ EntryInv
  /\ ClientInv
  /\ ListenersOwned
  /\ ReplacementSafe
=============================================================================
