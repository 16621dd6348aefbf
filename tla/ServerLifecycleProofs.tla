------------------------ MODULE ServerLifecycleProofs ------------------------
(***************************************************************************)
(* LifecycleInv is inductive, for any number of callers, clients and       *)
(* epochs and any client limit.  Types, the preservation of TypeOK, comes  *)
(* first: the other conjuncts need it to read the updated functions.  Then *)
(* there is one lemma per kind of step, with one case per action, and the  *)
(* same again for the refinement of ServerPhases.                          *)
(***************************************************************************)
EXTENDS ServerLifecycle, TLAPS

\* A SolveTLS object that has just been constructed.
LEMMA InitEstablishesInv == Init => LifecycleInv
  <1> SUFFICES ASSUME Init PROVE LifecycleInv
    OBVIOUS
  <1>1. 1 \in Epochs
    BY MaxEpochAssumption DEF Epochs
  <1>2. TypeOK
    BY <1>1, Zenon
    DEF Init, TypeOK, None, CallerStates, ListenerStates, ShutStates,
        ClientStates
  <1>3. LockInv /\ EpochInv /\ ShutInv /\ BindInv /\ LocalInv
    BY MaxEpochAssumption, CallersAssumption
    DEF Init, LockInv, EpochInv, ShutInv, BindInv, LocalInv, Epochs, None,
        Binding, Running
  <1>4. ClientInv /\ ListenersOwned /\ ClosedForReason
    BY MaxEpochAssumption
    DEF Init, ClientInv, ListenersOwned, ClosedForReason, Open, Epochs, None
  <1>5. EntryInv /\ StaleEntriesClosed
    BY DEF Init, EntryInv, StaleEntriesClosed, None
  <1> QED
    BY <1>2, <1>3, <1>4, <1>5 DEF LifecycleInv, ReplacementSafe

\* What LifecycleInv says besides the types and the entries of _serving.
OtherInv ==
  /\ LockInv /\ EpochInv /\ ShutInv /\ BindInv /\ LocalInv
  /\ ClientInv /\ ListenersOwned /\ ClosedForReason

\* Every step keeps the types.
LEMMA Types ==
  ASSUME LifecycleInv, Next
  PROVE  TypeOK'
  <1> SUFFICES ASSUME TypeOK PROVE TypeOK'
    BY DEF LifecycleInv, ReplacementSafe
  <1> USE DEF TypeOK, CallerStates, ListenerStates, ShutStates, ClientStates,
              None, Goto, callerVars, locals, world, rest, serverVars,
              listenVars, shutVars
  <1>1. ASSUME NEW c \in Callers, StartNext(c) PROVE TypeOK'
    <2>1. CASE Start(c)
      BY <2>1 DEF Start
    <2>2. CASE StartRefused(c)
      BY <2>2 DEF StartRefused, MayStart
    <2>3. CASE StartAdmitted(c)
      <3>1. epoch + 1 \in Epochs
        BY <2>3, MaxEpochAssumption DEF StartAdmitted, Epochs
      <3> QED
        BY <2>3, <3>1, Zenon DEF StartAdmitted
    <2>4. CASE BindTlsFails(c)
      BY <2>4 DEF BindTlsFails
    <2>5. CASE BindTls(c)
      BY <2>5 DEF BindTls
    <2>6. CASE BindHttp(c)
      BY <2>6 DEF BindHttp, ServeListener
    <2>7. CASE ListenHttp(c)
      BY <2>7 DEF ListenHttp, ServeListener
    <2>8. CASE StartReturns(c)
      BY <2>8 DEF StartReturns
    <2>9. CASE StartFails(c)
      BY <2>9 DEF StartFails, CreateShutdown
    <2>10. CASE RollbackReturns(c)
      BY <2>10 DEF RollbackReturns, Joined
    <2> QED
      BY <1>1, <2>1, <2>2, <2>3, <2>4, <2>5, <2>6, <2>7, <2>8, <2>9, <2>10
      DEF StartNext
  <1>2. ASSUME NEW c \in Callers, ServeNext(c) PROVE TypeOK'
    <2>1. CASE Serve(c)
      BY <2>1 DEF Serve, ServeListener
    <2>2. CASE ServeEnds(c)
      BY <2>2 DEF ServeEnds
    <2>3. CASE CancelServe(c)
      BY <2>3 DEF CancelServe
    <2>4. CASE ServeCloseReturns(c)
      BY <2>4 DEF ServeCloseReturns, EnterUnserve, Joined, CloseListener
    <2>5. CASE CancelServeClose(c)
      BY <2>5 DEF CancelServeClose, EnterUnserve, CloseListener
    <2>6. CASE ServeReturns(c)
      BY <2>6 DEF ServeReturns, LeaveUnserve
    <2>7. CASE CancelUnserve(c)
      BY <2>7 DEF CancelUnserve, LeaveUnserve
    <2> QED
      BY <1>2, <2>1, <2>2, <2>3, <2>4, <2>5, <2>6, <2>7 DEF ServeNext
  <1>3. ASSUME NEW c \in Callers, CloseNext(c) PROVE TypeOK'
    <2>1. CASE Close(c)
      BY <2>1 DEF Close
    <2>2. CASE CloseSkipped(c)
      BY <2>2 DEF CloseSkipped, EnterUnserve, Expected, CloseListener
    <2>3. CASE CloseCreates(c)
      BY <2>3, Zenon DEF CloseCreates, CreateShutdown, Expected
    <2>4. CASE CloseJoins(c)
      BY <2>4 DEF CloseJoins, Expected
    <2>5. CASE CloseReturns(c)
      BY <2>5 DEF CloseReturns, Joined
    <2>6. CASE AfterClose(c)
      BY <2>6 DEF AfterClose
    <2>7. CASE CancelCall(c)
      BY <2>7 DEF CancelCall
    <2> QED
      BY <1>3, <2>1, <2>2, <2>3, <2>4, <2>5, <2>6, <2>7 DEF CloseNext
  <1>4. ASSUME NEW e \in Epochs, ShutdownNext(e) PROVE TypeOK'
    <2>1. CASE ShutdownBegins(e)
      BY <2>1 DEF ShutdownBegins, CloseListener, Snapshot, Tasks
    <2>2. CASE GraceOver(e)
      BY <2>2 DEF GraceOver
    <2>3. CASE ClientsReaped(e)
      BY <2>3 DEF ClientsReaped
    <2>4. CASE ShutdownEnds(e)
      BY <2>4 DEF ShutdownEnds
    <2> QED
      BY <1>4, <2>1, <2>2, <2>3, <2>4 DEF ShutdownNext
  <1>5. ASSUME NEW k \in Clients, ClientNext(k) PROVE TypeOK'
    <2>1. CASE Connect(k)
      BY <2>1 DEF Connect
    <2>2. CASE AcceptRejects(k)
      BY <2>2 DEF AcceptRejects, MayAdmit
    <2>3. CASE AcceptAdmits(k)
      BY <2>3 DEF AcceptAdmits, MayAdmit
    <2>4. CASE HandlerEnds(k)
      BY <2>4 DEF HandlerEnds
    <2>5. CASE ClientDone(k)
      BY <2>5 DEF ClientDone
    <2> QED
      BY <1>5, <2>1, <2>2, <2>3, <2>4, <2>5 DEF ClientNext
  <1> QED
    BY <1>1, <1>2, <1>3, <1>4, <1>5 DEF Next

\* A step that leaves the instance, its listeners, its shutdown tasks and its
\* clients alone can only disturb what relates callers to them.
LEMMA WorldFrame ==
  ASSUME LifecycleInv, UNCHANGED world, (LockInv /\ BindInv /\ LocalInv)'
  PROVE  OtherInv'
  <1>1. (EpochInv /\ ShutInv /\ ListenersOwned /\ ClosedForReason)'
    BY DEF LifecycleInv, ReplacementSafe, EpochInv, ShutInv, ListenersOwned,
           ClosedForReason, world
  <1>2. ClientInv'
    BY DEF LifecycleInv, ClientInv, Tasks, world
  <1> QED
    BY <1>1, <1>2 DEF OtherInv

\* The finally block of serve_forever(), however its call of _close ended.
LEMMA EnterUnserveStep ==
  ASSUME LifecycleInv, NEW c \in Callers, EnterUnserve(c),
         pc[c] \in {"close_lock", "join"}, srv[c] # None
  PROVE  OtherInv'
  <1> SUFFICES ASSUME TypeOK, LockInv, EpochInv, ShutInv, BindInv, LocalInv,
                      ClientInv, ListenersOwned, ClosedForReason
               PROVE  OtherInv'
    BY DEF LifecycleInv, ReplacementSafe
  <1> USE DEF TypeOK, EnterUnserve, CloseListener, serverVars, shutVars, None
  <1>1. LockInv'
    BY DEF LockInv, Binding
  <1>2. (EpochInv /\ ShutInv)'
    BY DEF EpochInv, ShutInv, Open
  <1>3. (BindInv /\ LocalInv)'
    BY DEF BindInv, LocalInv, Binding, Open
  <1>4. ClientInv'
    BY DEF ClientInv, Tasks, Open
  <1>5. (ListenersOwned /\ ClosedForReason)'
    BY DEF ListenersOwned, ClosedForReason, LocalInv, Open, Epochs
  <1> QED
    BY <1>1, <1>2, <1>3, <1>4, <1>5 DEF OtherInv

\* The steps of start(), from the lock to the end of a rollback.
LEMMA StartStep ==
  ASSUME LifecycleInv, NEW c \in Callers, StartNext(c)
  PROVE  OtherInv'
  <1> SUFFICES ASSUME TypeOK, LockInv, EpochInv, ShutInv, BindInv, LocalInv,
                      ClientInv, ListenersOwned, ClosedForReason
               PROVE  OtherInv'
    BY DEF LifecycleInv, ReplacementSafe
  <1> USE CallersAssumption
      DEF TypeOK, Goto, Binding, None, callerVars, locals, world, rest,
          serverVars, listenVars, shutVars
  <1>1. CASE Start(c)
    <2>1. (LockInv /\ BindInv /\ LocalInv)'
      BY <1>1 DEF Start, LockInv, BindInv, LocalInv
    <2> QED
      BY <1>1, <2>1, WorldFrame DEF Start
  <1>2. CASE StartRefused(c)
    <2>1. (LockInv /\ BindInv /\ LocalInv)'
      BY <1>2 DEF StartRefused, MayStart, LockInv, BindInv, LocalInv
    <2> QED
      BY <1>2, <2>1, WorldFrame DEF StartRefused
  <1>3. CASE StartAdmitted(c)
    <2>1. LockInv'
      BY <1>3 DEF StartAdmitted, MayStart, LockInv
    <2>2. (EpochInv /\ ShutInv)'
      BY <1>3, MaxEpochAssumption DEF StartAdmitted, MayStart, EpochInv,
         ShutInv, Running, Epochs
    <2>3. (BindInv /\ LocalInv)'
      BY <1>3, MaxEpochAssumption DEF StartAdmitted, MayStart, EpochInv,
         BindInv, LocalInv, LockInv, Epochs
    <2>4. ClientInv'
      BY <1>3 DEF StartAdmitted, MayStart, ClientInv, Tasks
    <2>5. (ListenersOwned /\ ClosedForReason)'
      BY <1>3 DEF StartAdmitted, MayStart, ListenersOwned, ClosedForReason,
         Open
    <2> QED
      BY <2>1, <2>2, <2>3, <2>4, <2>5 DEF OtherInv
  <1>4. CASE BindTlsFails(c)
    <2>1. (LockInv /\ BindInv /\ LocalInv)'
      BY <1>4 DEF BindTlsFails, LockInv, BindInv, LocalInv
    <2> QED
      BY <1>4, <2>1, WorldFrame DEF BindTlsFails
  <1>5. CASE BindTls(c)
    <2>1. LockInv'
      BY <1>5 DEF BindTls, LockInv
    <2>2. (EpochInv /\ ShutInv)'
      BY <1>5 DEF BindTls, EpochInv, ShutInv, Running, BindInv
    <2>3. (BindInv /\ LocalInv)'
      BY <1>5 DEF BindTls, EpochInv, BindInv, LocalInv, LockInv
    <2>4. ClientInv'
      BY <1>5 DEF BindTls, ClientInv, Tasks, BindInv, Epochs
    <2>5. (ListenersOwned /\ ClosedForReason)'
      <3>1. /\ server = None /\ server' = epoch /\ epoch \in Epochs
            /\ tls'[epoch] \in Open
            /\ \A e \in Epochs \ {epoch} : tls'[e] = tls[e]
        BY <1>5 DEF BindTls, BindInv, Open
      <3> QED
        BY <1>5, <3>1
        DEF BindTls, ListenersOwned, ClosedForReason, Open, Epochs
    <2> QED
      BY <2>1, <2>2, <2>3, <2>4, <2>5 DEF OtherInv
  <1>6. CASE BindHttp(c)
    <2>1. LockInv'
      BY <1>6 DEF BindHttp, ServeListener, LockInv
    <2>2. (EpochInv /\ ShutInv)'
      BY <1>6 DEF BindHttp, ServeListener, EpochInv, ShutInv, Running, BindInv,
         Epochs
    <2>3. (BindInv /\ LocalInv)'
      BY <1>6 DEF BindHttp, ServeListener, EpochInv, BindInv, LocalInv, LockInv
    <2>4. ClientInv'
      BY <1>6 DEF BindHttp, ServeListener, ClientInv, Tasks, BindInv
    <2>5. (ListenersOwned /\ ClosedForReason)'
      BY <1>6 DEF BindHttp, ServeListener, ListenersOwned, ClosedForReason,
         Open, BindInv, Epochs
    <2> QED
      BY <2>1, <2>2, <2>3, <2>4, <2>5 DEF OtherInv
  <1>7. CASE ListenHttp(c)
    <2>1. LockInv'
      BY <1>7 DEF ListenHttp, ServeListener, LockInv
    <2>2. (EpochInv /\ ShutInv)'
      BY <1>7 DEF ListenHttp, ServeListener, EpochInv, ShutInv, Running
    <2>3. (BindInv /\ LocalInv)'
      BY <1>7 DEF ListenHttp, ServeListener, EpochInv, BindInv, LocalInv
    <2>4. ClientInv'
      BY <1>7 DEF ListenHttp, ServeListener, ClientInv, Tasks, BindInv
    <2>5. (ListenersOwned /\ ClosedForReason)'
      BY <1>7 DEF ListenHttp, ServeListener, ListenersOwned, ClosedForReason,
         Open
    <2> QED
      BY <2>1, <2>2, <2>3, <2>4, <2>5 DEF OtherInv
  <1>8. CASE StartReturns(c)
    <2>1. (LockInv /\ BindInv /\ LocalInv)'
      BY <1>8 DEF StartReturns, LockInv, BindInv, LocalInv
    <2> QED
      BY <1>8, <2>1, WorldFrame DEF StartReturns
  <1>9. CASE StartFails(c)
    <2>1. /\ closeTask = None /\ closeTask' = epoch /\ closing' = TRUE
          /\ server' = epoch /\ httpServer' \in {httpServer, epoch}
          /\ httpServer \in {None, epoch} /\ epoch \in Epochs
          /\ pc[c] \in Binding
      BY <1>9 DEF StartFails, CreateShutdown, BindInv, EpochInv
    <2>2. /\ tls'[epoch] \in {tls[epoch], "bound"}
          /\ redir'[epoch] \in {redir[epoch], "bound"}
          /\ redir'[epoch] \in Open => httpServer' = epoch
          /\ \A e \in Epochs \ {epoch} :
               tls'[e] = tls[e] /\ redir'[e] = redir[e]
      BY <1>9 DEF StartFails, ListenersOwned, Open
    <2>3. /\ UNCHANGED <<srv, srvHttp, lock, epoch, client>>
          /\ shut' = [shut EXCEPT ![epoch] = "created"]
          /\ joined' = [joined EXCEPT ![c] = epoch]
          /\ pc' = [pc EXCEPT ![c] = "rollback"]
          /\ asked' = asked \cup {epoch}
      BY <1>9 DEF StartFails, CreateShutdown
    <2>4. LockInv'
      BY <2>1, <2>3 DEF LockInv
    <2>5. (EpochInv /\ ShutInv)'
      BY <2>1, <2>2, <2>3 DEF EpochInv, ShutInv, Running, Epochs
    <2>6. (BindInv /\ LocalInv)'
      <3>1. BindInv'
        BY <2>1, <2>3 DEF BindInv, LockInv, Epochs
      <3>2. LocalInv'
        BY <2>1, <2>3 DEF LocalInv, LockInv, ShutInv, Epochs
      <3> QED
        BY <3>1, <3>2
    <2>7. ClientInv'
      BY <2>1, <2>3 DEF ClientInv, Tasks, Epochs
    <2>8. (ListenersOwned /\ ClosedForReason)'
      BY <2>1, <2>2, <2>3
      DEF ListenersOwned, ClosedForReason, EpochInv, BindInv, Open, Epochs
    <2> QED
      BY <2>4, <2>5, <2>6, <2>7, <2>8 DEF OtherInv
  <1>10. CASE RollbackReturns(c)
    <2>1. (LockInv /\ BindInv /\ LocalInv)'
      BY <1>10 DEF RollbackReturns, Joined, LockInv, BindInv, LocalInv
    <2> QED
      BY <1>10, <2>1, WorldFrame DEF RollbackReturns
  <1> QED
    BY <1>1, <1>2, <1>3, <1>4, <1>5, <1>6, <1>7, <1>8, <1>9, <1>10
    DEF StartNext

\* The steps of serve_forever(), its call of _close included.
LEMMA ServeStep ==
  ASSUME LifecycleInv, NEW c \in Callers, ServeNext(c)
  PROVE  OtherInv'
  <1> SUFFICES ASSUME TypeOK, LockInv, EpochInv, ShutInv, BindInv, LocalInv,
                      ClientInv, ListenersOwned, ClosedForReason
               PROVE  OtherInv'
    BY DEF LifecycleInv, ReplacementSafe
  <1> USE CallersAssumption
      DEF TypeOK, Goto, Binding, None, callerVars, locals, world, rest,
          serverVars, listenVars, shutVars
  <1>1. CASE Serve(c)
    <2>1. LockInv'
      BY <1>1 DEF Serve, ServeListener, LockInv
    <2>2. (EpochInv /\ ShutInv)'
      <3>1. EpochInv'
        BY <1>1 DEF Serve, ServeListener, EpochInv, ShutInv, Running
      <3>2. ShutInv'
        BY <1>1 DEF Serve, ServeListener, EpochInv, ShutInv, Running
      <3> QED
        BY <3>1, <3>2
    <2>3. (BindInv /\ LocalInv)'
      BY <1>1 DEF Serve, ServeListener, EpochInv, BindInv, LocalInv
    <2>4. ClientInv'
      BY <1>1 DEF Serve, ServeListener, ClientInv, Tasks, Open
    <2>5. (ListenersOwned /\ ClosedForReason)'
      BY <1>1 DEF Serve, ServeListener, ListenersOwned, ClosedForReason, Open
    <2> QED
      BY <2>1, <2>2, <2>3, <2>4, <2>5 DEF OtherInv
  <1>2. CASE ServeEnds(c)
    <2>1. (LockInv /\ BindInv /\ LocalInv)'
      <3>1. LockInv'
        BY <1>2 DEF ServeEnds, LockInv, BindInv, LocalInv
      <3>2. BindInv'
        BY <1>2 DEF ServeEnds, LockInv, BindInv, LocalInv
      <3>3. LocalInv'
        BY <1>2 DEF ServeEnds, LockInv, BindInv, LocalInv
      <3> QED
        BY <3>1, <3>2, <3>3
    <2> QED
      BY <1>2, <2>1, WorldFrame DEF ServeEnds
  <1>3. CASE CancelServe(c)
    <2>1. (LockInv /\ BindInv /\ LocalInv)'
      <3>1. LockInv'
        BY <1>3 DEF CancelServe, LockInv, BindInv, LocalInv
      <3>2. BindInv'
        BY <1>3 DEF CancelServe, LockInv, BindInv, LocalInv
      <3>3. LocalInv'
        BY <1>3 DEF CancelServe, LockInv, BindInv, LocalInv
      <3> QED
        BY <3>1, <3>2, <3>3
    <2> QED
      BY <1>3, <2>1, WorldFrame DEF CancelServe
  <1>4. CASE ServeCloseReturns(c)
    BY <1>4, EnterUnserveStep DEF ServeCloseReturns
  <1>5. CASE CancelServeClose(c)
    BY <1>5, EnterUnserveStep DEF CancelServeClose
  <1>6. ASSUME LeaveUnserve(c) PROVE OtherInv'
    <2>1. LockInv'
      BY <1>6 DEF LeaveUnserve, LockInv
    <2>2. (EpochInv /\ ShutInv)'
      BY <1>6, ZenonT(30) DEF LeaveUnserve, EpochInv, ShutInv, Running
    <2>3. (BindInv /\ LocalInv)'
      BY <1>6 DEF LeaveUnserve, EpochInv, BindInv, LocalInv
    <2>4. ClientInv'
      BY <1>6 DEF LeaveUnserve, ClientInv, Tasks
    <2>5. (ListenersOwned /\ ClosedForReason)'
      BY <1>6 DEF LeaveUnserve, ListenersOwned, ClosedForReason, Open
    <2> QED
      BY <2>1, <2>2, <2>3, <2>4, <2>5 DEF OtherInv
  <1> QED
    BY <1>1, <1>2, <1>3, <1>4, <1>5, <1>6
    DEF ServeNext, ServeReturns, CancelUnserve

\* The steps of close() and of _close under the lock.
LEMMA CloseStep ==
  ASSUME LifecycleInv, NEW c \in Callers, CloseNext(c)
  PROVE  OtherInv'
  <1> SUFFICES ASSUME TypeOK, LockInv, EpochInv, ShutInv, BindInv, LocalInv,
                      ClientInv, ListenersOwned, ClosedForReason
               PROVE  OtherInv'
    BY DEF LifecycleInv, ReplacementSafe
  <1> USE CallersAssumption
      DEF TypeOK, Goto, Binding, None, callerVars, locals, world, rest,
          serverVars, listenVars, shutVars
  <1>1. CASE Close(c)
    <2>1. (LockInv /\ BindInv /\ LocalInv)'
      BY <1>1 DEF Close, LockInv, BindInv, LocalInv
    <2> QED
      BY <1>1, <2>1, WorldFrame, ZenonT(30) DEF Close
  <1>2. CASE CloseSkipped(c)
    BY <1>2, EnterUnserveStep DEF CloseSkipped, Expected
  <1>3. CASE CloseCreates(c)
    <2>1. LockInv'
      BY <1>3 DEF CloseCreates, CreateShutdown, Expected, LockInv
    <2>2. (EpochInv /\ ShutInv)'
      <3>1. EpochInv'
        BY <1>3 DEF CloseCreates, CreateShutdown, Expected, EpochInv, ShutInv,
           Running, Epochs
      <3>2. ShutInv'
        BY <1>3 DEF CloseCreates, CreateShutdown, Expected, EpochInv, ShutInv,
           Running, Epochs
      <3> QED
        BY <3>1, <3>2
    <2>3. (BindInv /\ LocalInv)'
      BY <1>3 DEF CloseCreates, CreateShutdown, Expected, EpochInv, BindInv,
         LocalInv, LockInv, ShutInv, Epochs
    <2>4. ClientInv'
      BY <1>3 DEF CloseCreates, CreateShutdown, Expected, ClientInv, Tasks
    <2>5. (ListenersOwned /\ ClosedForReason)'
      BY <1>3 DEF CloseCreates, CreateShutdown, Expected, ListenersOwned,
         ClosedForReason, Open, EpochInv, Epochs
    <2> QED
      BY <2>1, <2>2, <2>3, <2>4, <2>5 DEF OtherInv
  <1>4. CASE CloseJoins(c)
    <2>1. (LockInv /\ BindInv /\ LocalInv)'
      BY <1>4 DEF CloseJoins, Expected, LockInv, BindInv, LocalInv, ShutInv
    <2> QED
      BY <1>4, <2>1, WorldFrame, ZenonT(30) DEF CloseJoins
  <1>5. CASE CloseReturns(c)
    <2>1. (LockInv /\ BindInv /\ LocalInv)'
      BY <1>5 DEF CloseReturns, Joined, LockInv, BindInv, LocalInv
    <2> QED
      BY <1>5, <2>1, WorldFrame, ZenonT(30) DEF CloseReturns
  <1>6. CASE AfterClose(c)
    <2>1. (LockInv /\ BindInv /\ LocalInv)'
      BY <1>6 DEF AfterClose, LockInv, BindInv, LocalInv
    <2> QED
      BY <1>6, <2>1, WorldFrame, ZenonT(30) DEF AfterClose
  <1>7. CASE CancelCall(c)
    <2>1. (LockInv /\ BindInv /\ LocalInv)'
      BY <1>7 DEF CancelCall, LockInv, BindInv, LocalInv
    <2> QED
      BY <1>7, <2>1, WorldFrame, ZenonT(30) DEF CancelCall
  <1> QED
    BY <1>1, <1>2, <1>3, <1>4, <1>5, <1>6, <1>7
    DEF CloseNext

\* The steps of the shutdown task.
LEMMA ShutdownStep ==
  ASSUME LifecycleInv, NEW e \in Epochs, ShutdownNext(e)
  PROVE  OtherInv'
  <1> SUFFICES ASSUME TypeOK, LockInv, EpochInv, ShutInv, BindInv, LocalInv,
                      ClientInv, ListenersOwned, ClosedForReason
               PROVE  OtherInv'
    BY DEF LifecycleInv, ReplacementSafe
  <1> USE CallersAssumption
      DEF TypeOK, Goto, Binding, None, callerVars, locals, world, rest,
          serverVars, listenVars, shutVars
  <1>1. CASE ShutdownBegins(e)
    <2>1. LockInv'
      BY <1>1, ZenonT(30) DEF ShutdownBegins, CloseListener, Snapshot, LockInv
    <2>2. (EpochInv /\ ShutInv)'
      BY <1>1, ZenonT(30) DEF ShutdownBegins, CloseListener, Snapshot, EpochInv, ShutInv,
         Running, Open
    <2>3. (BindInv /\ LocalInv)'
      BY <1>1 DEF ShutdownBegins, CloseListener, Snapshot, EpochInv, BindInv,
         LocalInv, ShutInv, Running, Epochs
    <2>4. ClientInv'
      BY <1>1, ZenonT(30) DEF ShutdownBegins, CloseListener, Snapshot, ClientInv, Tasks,
         ShutInv, ListenersOwned, Running, Open, Epochs
    <2>5. (ListenersOwned /\ ClosedForReason)'
      BY <1>1 DEF ShutdownBegins, CloseListener, Snapshot, ListenersOwned,
         ClosedForReason, Open, EpochInv, ShutInv, Running, Epochs
    <2> QED
      BY <2>1, <2>2, <2>3, <2>4, <2>5 DEF OtherInv
  <1>2. CASE GraceOver(e)
    <2>1. LockInv'
      BY <1>2 DEF GraceOver, LockInv
    <2>2. (EpochInv /\ ShutInv)'
      BY <1>2, ZenonT(60) DEF GraceOver, EpochInv, ShutInv, Running
    <2>3. (BindInv /\ LocalInv)'
      BY <1>2, ZenonT(60) DEF GraceOver, EpochInv, BindInv, LocalInv
    <2>4. ClientInv'
      BY <1>2, ZenonT(60) DEF GraceOver, ClientInv, Tasks
    <2>5. (ListenersOwned /\ ClosedForReason)'
      BY <1>2, ZenonT(60) DEF GraceOver, ListenersOwned, ClosedForReason, Open
    <2> QED
      BY <2>1, <2>2, <2>3, <2>4, <2>5 DEF OtherInv
  <1>3. CASE ClientsReaped(e)
    <2>1. LockInv'
      BY <1>3, ZenonT(30) DEF ClientsReaped, LockInv
    <2>2. (EpochInv /\ ShutInv)'
      BY <1>3, ZenonT(30) DEF ClientsReaped, EpochInv, ShutInv, Running
    <2>3. (BindInv /\ LocalInv)'
      BY <1>3 DEF ClientsReaped, EpochInv, BindInv, LocalInv
    <2>4. ClientInv'
      BY <1>3, ZenonT(30) DEF ClientsReaped, ClientInv, Tasks
    <2>5. (ListenersOwned /\ ClosedForReason)'
      BY <1>3, ZenonT(30) DEF ClientsReaped, ListenersOwned, ClosedForReason, Open
    <2> QED
      BY <2>1, <2>2, <2>3, <2>4, <2>5 DEF OtherInv
  <1>4. CASE ShutdownEnds(e)
    <2>1. LockInv'
      BY <1>4, ZenonT(30) DEF ShutdownEnds, LockInv
    <2>2. (EpochInv /\ ShutInv)'
      BY <1>4, ZenonT(30) DEF ShutdownEnds, EpochInv, ShutInv, Running
    <2>3. (BindInv /\ LocalInv)'
      BY <1>4 DEF ShutdownEnds, EpochInv, BindInv, LocalInv, ShutInv, Running,
         Epochs
    <2>4. ClientInv'
      BY <1>4, ZenonT(30) DEF ShutdownEnds, ClientInv, Tasks
    <2>5. (ListenersOwned /\ ClosedForReason)'
      BY <1>4 DEF ShutdownEnds, ListenersOwned, ClosedForReason, Open, ShutInv,
         ClientInv, Running, Epochs
    <2> QED
      BY <2>1, <2>2, <2>3, <2>4, <2>5 DEF OtherInv
  <1> QED
    BY <1>1, <1>2, <1>3, <1>4
    DEF ShutdownNext

\* The steps of connections, handler tasks and their done callbacks.
LEMMA ClientStep ==
  ASSUME LifecycleInv, NEW k \in Clients, ClientNext(k)
  PROVE  OtherInv'
  <1>1. UNCHANGED <<callerVars, serverVars, listenVars, shutVars, asked>>
    BY DEF ClientNext, Connect, AcceptRejects, AcceptAdmits, HandlerEnds,
           ClientDone
  <1>2. (LockInv /\ EpochInv /\ ShutInv /\ BindInv /\ LocalInv)'
    <2>1. (LockInv /\ EpochInv)'
      BY <1>1, ZenonT(30) DEF LifecycleInv, LockInv, EpochInv, callerVars, serverVars,
         listenVars, shutVars
    <2>2. (ShutInv /\ BindInv /\ LocalInv)'
      BY <1>1, ZenonT(30) DEF LifecycleInv, ShutInv, BindInv, LocalInv, callerVars,
         serverVars, listenVars, shutVars
    <2> QED
      BY <2>1, <2>2
  <1>3. (ListenersOwned /\ ClosedForReason)'
    BY <1>1, ZenonT(30)
    DEF LifecycleInv, ReplacementSafe, ListenersOwned, ClosedForReason,
        serverVars, listenVars, shutVars
  <1>4. ClientInv'
    <2> USE <1>1 DEF LifecycleInv, TypeOK, ClientInv, Tasks, None, serverVars,
                     listenVars, shutVars
    <2>1. CASE Connect(k)
      BY <2>1 DEF Connect, EpochInv, ShutInv, ListenersOwned, Open, Epochs
    <2>2. CASE AcceptRejects(k)
      BY <2>2, ZenonT(30) DEF AcceptRejects
    <2>3. CASE AcceptAdmits(k)
      BY <2>3, ZenonT(30) DEF AcceptAdmits, MayAdmit, ShutInv
    <2>4. CASE HandlerEnds(k)
      BY <2>4, ZenonT(30) DEF HandlerEnds
    <2>5. CASE ClientDone(k)
      BY <2>5 DEF ClientDone
    <2> QED
      BY <2>1, <2>2, <2>3, <2>4, <2>5, ZenonT(30) DEF ClientNext
  <1> QED
    BY <1>2, <1>3, <1>4, ZenonT(30) DEF OtherInv

\* A step that neither serves nor stops serving: a listener stays bound, one that
\* is closed stays closed, and _server refers to one that was bound.
LEMMA EntriesFrame ==
  ASSUME TypeOK, EntryInv, StaleEntriesClosed, UNCHANGED <<serving, srv>>,
         \A e \in Epochs : /\ tls'[e] = "none" => tls[e] = "none"
                           /\ tls[e] = "closed" => tls'[e] = "closed",
         server' # None => tls'[server'] # "none",
         \A c \in Callers : pc'[c] \in {"unserve", "unserve_now"} =>
           pc[c] \in {"unserve", "unserve_now"} \/ tls'[srv[c]] = "closed",
         \A c \in Callers : pc[c] \in {"unserve", "unserve_now"} => srv[c] # None
  PROVE  (EntryInv /\ StaleEntriesClosed)'
  <1> /\ serving \subseteq Epochs
      /\ srv \in [Callers -> Epochs \cup {None}]
    BY ZenonT(30) DEF TypeOK
  <1>1. /\ \A e \in serving : e \in Epochs
        /\ \A c \in Callers : srv[c] # None => srv[c] \in Epochs
    OBVIOUS
  <1>2. StaleEntriesClosed'
    BY <1>1 DEF StaleEntriesClosed
  <1>3. EntryInv'
    BY <1>1 DEF EntryInv
  <1> QED
    BY <1>2, <1>3

\* Every step keeps what is known of the entries of _serving.
LEMMA EntriesStep ==
  ASSUME LifecycleInv, Next
  PROVE  (EntryInv /\ StaleEntriesClosed)'
  <1> SUFFICES ASSUME TypeOK, EpochInv, BindInv, LocalInv, EntryInv, StaleEntriesClosed
               PROVE  (EntryInv /\ StaleEntriesClosed)'
    BY DEF LifecycleInv, ReplacementSafe
  <1> USE DEF Goto, callerVars, locals, world, rest, serverVars, listenVars, shutVars
  <1> DEFINE Unserving == {"unserve", "unserve_now"}
  <1>0. /\ serving \subseteq Epochs /\ server \in Epochs \cup {None}
        /\ srv \in [Callers -> Epochs \cup {None}] /\ epoch \in Epochs
        /\ pc \in [Callers -> CallerStates]
        /\ tls \in [Epochs -> ListenerStates]
    BY ZenonT(30) DEF TypeOK
  <1>1. \A c \in Callers : pc[c] \in Unserving => srv[c] # None
    BY ZenonT(30) DEF LocalInv
  <1>2. ASSUME NEW c \in Callers, StartNext(c)
        PROVE  (EntryInv /\ StaleEntriesClosed)'
    <2>1. UNCHANGED <<serving, srv>>
      BY <1>2, ZenonT(30) DEF StartNext, Start, StartRefused, StartAdmitted, BindTlsFails, BindTls,
         BindHttp, ListenHttp, StartReturns, StartFails, RollbackReturns
    <2>2. \A d \in Callers : pc'[d] \in Unserving => pc[d] \in Unserving
      <3>1. \/ \E p \in CallerStates \ Unserving : pc' = [pc EXCEPT ![c] = p]
            \/ UNCHANGED pc
        BY <1>2, ZenonT(30) DEF StartNext, Start, StartRefused, StartAdmitted, BindTlsFails,
           BindTls, BindHttp, ListenHttp, StartReturns, StartFails, RollbackReturns,
           CallerStates
      <3> QED
        BY <1>0, <3>1, SMTT(30)
    <2>3. /\ \A e \in Epochs : /\ tls'[e] = "none" => tls[e] = "none"
                               /\ tls[e] = "closed" => tls'[e] = "closed"
          /\ server' # None => tls'[server'] # "none"
      <3>1. CASE BindTls(c)
        BY <1>0, <3>1 DEF BindTls, BindInv
      <3>2. CASE BindHttp(c)
        <4>1. UNCHANGED server /\ tls' = ServeListener(tls, epoch)
          BY <3>2, ZenonT(30) DEF BindHttp
        <4> QED
          BY <1>0, <4>1 DEF ServeListener, EntryInv
      <3>3. CASE StartFails(c)
        BY <3>3 DEF StartFails, CreateShutdown, BindInv, EntryInv, TypeOK
      <3>4. CASE UNCHANGED <<tls, server>>
        BY <3>4 DEF EntryInv
      <3> QED
        BY <1>2, <3>1, <3>2, <3>3, <3>4, ZenonT(30) DEF StartNext, Start, StartRefused,
           StartAdmitted, BindTlsFails, ListenHttp, StartReturns, RollbackReturns
    <2> QED
      BY <1>1, <2>1, <2>2, <2>3, EntriesFrame, ZenonT(30)
  <1>3. ASSUME NEW c \in Callers, EnterUnserve(c), srv[c] # None
        PROVE  (EntryInv /\ StaleEntriesClosed)'
    <2>1. UNCHANGED <<serving, srv, server>>
      BY <1>3 DEF EnterUnserve
    <2>2. /\ \A e \in Epochs : /\ tls'[e] = "none" => tls[e] = "none"
                               /\ tls[e] = "closed" => tls'[e] = "closed"
          /\ tls'[srv[c]] = "closed"
      <3>1. srv[c] \in Epochs /\ tls[srv[c]] # "none"
        BY <1>0, <1>3, ZenonT(30) DEF EntryInv
      <3>2. tls' = CloseListener(tls, srv[c])
        BY <1>3, ZenonT(30) DEF EnterUnserve
      <3> QED
        BY <1>0, <3>1, <3>2 DEF CloseListener, ListenerStates, Open
    <2>3. server' # None => tls'[server'] # "none"
      BY <1>0, <2>1, <2>2, ZenonT(30) DEF EntryInv
    <2>4. \A d \in Callers : pc'[d] \in Unserving =>
            pc[d] \in Unserving \/ tls'[srv[d]] = "closed"
      <3>1. \A d \in Callers : d # c => pc'[d] = pc[d]
        BY <1>0, <1>3 DEF EnterUnserve
      <3> QED
        BY <2>2, <3>1, ZenonT(30)
    <2> QED
      BY <1>1, <2>1, <2>2, <2>3, <2>4, EntriesFrame, ZenonT(30)
  <1>4. ASSUME NEW c \in Callers, Serve(c)
        PROVE  (EntryInv /\ StaleEntriesClosed)'
    <2>1. /\ server \in Epochs /\ tls[server] # "none" /\ serving' = serving \cup {server}
          /\ srv' = [srv EXCEPT ![c] = server] /\ pc' = [pc EXCEPT ![c] = "serving"]
          /\ pc[c] = "idle" /\ server' = server
      BY <1>0, <1>4, ZenonT(30) DEF Serve, EntryInv
    <2>2. \A e \in Epochs : /\ tls'[e] = "none" => tls[e] = "none"
                            /\ tls[e] = "closed" => tls'[e] = "closed"
      BY <1>4 DEF Serve, ServeListener
    <2>3. srv[c] = None /\ None \notin Epochs
      <3>1. srv[c] = None
        BY <2>1, ZenonT(30) DEF LocalInv
      <3>2. None \notin Epochs
        BY DEF None, Epochs
      <3> QED
        BY <3>1, <3>2
    <2>4. StaleEntriesClosed'
      <3>1. srv'[c] = server /\ \A d \in Callers : srv[d] # None => srv'[d] = srv[d]
        BY <1>0, <2>1, <2>3, SMTT(30)
      <3>2. \A e \in serving : e \in Epochs /\ e # None
        BY <1>0, <2>3, ZenonT(30)
      <3>3. ASSUME NEW e \in serving PROVE tls'[e] = "closed" \/ \E d \in Callers : srv'[d] = e
        <4>1. CASE tls[e] = "closed"
          BY <2>2, <3>2, <4>1, ZenonT(30)
        <4>2. CASE \E d \in Callers : srv[d] = e
          BY <3>1, <3>2, <4>2, ZenonT(30)
        <4> QED
          BY <4>1, <4>2, ZenonT(30) DEF StaleEntriesClosed
      <3> QED
        BY <2>1, <3>1, <3>3, ZenonT(30) DEF StaleEntriesClosed
    <2>5. EntryInv'
      <3>1. /\ \A e \in serving' : tls'[e] # "none"
            /\ server' # None => tls'[server'] # "none"
        BY <1>0, <2>1, <2>2, ZenonT(30) DEF EntryInv
      <3>2. \A d \in Callers : srv'[d] = server \/ srv'[d] = srv[d]
        BY <1>0, <2>1, SMTT(30)
      <3>3. \A d \in Callers : pc'[d] \in Unserving => pc[d] \in Unserving /\ d # c
        BY <1>0, <2>1, SMTT(30)
      <3>4. \A d \in Callers : d # c => srv'[d] = srv[d]
        BY <1>0, <2>1, SMTT(30)
      <3>5. \A d \in Callers : srv'[d] # None => tls'[srv'[d]] # "none"
        <4> SUFFICES ASSUME NEW d \in Callers, srv'[d] # None
                     PROVE  tls'[srv'[d]] # "none"
          OBVIOUS
        <4>1. CASE srv'[d] = server
          BY <2>1, <2>2, <4>1, ZenonT(30)
        <4>2. CASE srv'[d] = srv[d]
          <5>1. srv[d] \in Epochs /\ tls[srv[d]] # "none"
            BY <1>0, <4>2, ZenonT(30) DEF EntryInv
          <5> QED
            BY <2>2, <4>2, <5>1, ZenonT(30)
        <4> QED
          BY <3>2, <4>1, <4>2, ZenonT(30)
      <3>6. \A d \in Callers : pc'[d] \in Unserving => tls'[srv'[d]] = "closed"
        <4> SUFFICES ASSUME NEW d \in Callers, pc'[d] \in Unserving
                     PROVE  tls'[srv'[d]] = "closed"
          OBVIOUS
        <4>1. pc[d] \in Unserving /\ srv'[d] = srv[d]
          BY <3>3, <3>4, ZenonT(30)
        <4>2. srv[d] \in Epochs
          BY <1>0, <1>1, <4>1, ZenonT(30)
        <4>3. tls[srv[d]] = "closed"
          BY <4>1, ZenonT(30) DEF EntryInv
        <4> QED
          BY <2>2, <4>1, <4>2, <4>3, ZenonT(30)
      <3> QED
        BY <3>1, <3>5, <3>6, ZenonT(30) DEF EntryInv
    <2> QED
      BY <2>4, <2>5
  <1>5. ASSUME NEW c \in Callers, LeaveUnserve(c), serving' \subseteq serving
        PROVE  (EntryInv /\ StaleEntriesClosed)'
    <2>1. /\ pc[c] \in Unserving /\ tls[srv[c]] = "closed"
          /\ srv' = [srv EXCEPT ![c] = None] /\ pc' = [pc EXCEPT ![c] = "idle"]
          /\ UNCHANGED <<tls, server>>
      BY <1>5, ZenonT(30) DEF LeaveUnserve, EntryInv
    <2>2. \A d \in Callers : d # c => srv'[d] = srv[d] /\ pc'[d] = pc[d]
      BY <1>0, <2>1, SMTT(30)
    <2>3. srv'[c] = None /\ pc'[c] \notin Unserving
      BY <1>0, <2>1, SMTT(30)
    <2>4. StaleEntriesClosed'
      <3> SUFFICES ASSUME NEW e \in serving
                   PROVE  tls'[e] = "closed" \/ \E d \in Callers : srv'[d] = e
        BY <1>5, ZenonT(30) DEF StaleEntriesClosed
      <3>1. UNCHANGED tls
        BY <2>1, ZenonT(30)
      <3>2. CASE tls[e] = "closed"
        BY <3>1, <3>2
      <3>3. ASSUME NEW d \in Callers, srv[d] = e
            PROVE  tls'[e] = "closed" \/ srv'[d] = e
        BY <2>1, <2>2, <3>1, <3>3, ZenonT(30)
      <3> QED
        BY <3>2, <3>3, ZenonT(30) DEF StaleEntriesClosed
    <2>5. EntryInv'
      BY <1>5, <2>1, <2>2, <2>3, ZenonT(30) DEF EntryInv
    <2> QED
      BY <2>4, <2>5
  <1>6. ASSUME NEW c \in Callers, \/ ServeEnds(c) \/ CancelServe(c) \/ Close(c)
                                \/ CloseCreates(c) \/ CloseJoins(c) \/ CloseReturns(c)
                                \/ AfterClose(c) \/ CancelCall(c)
        PROVE  (EntryInv /\ StaleEntriesClosed)'
    <2>1. UNCHANGED <<serving, srv, tls, server>>
      BY <1>6, ZenonT(30) DEF ServeEnds, CancelServe, Close, CloseCreates, CloseJoins, CloseReturns,
         AfterClose, CancelCall
    <2>2. \A d \in Callers : pc'[d] \in Unserving => pc[d] \in Unserving
      <3>1. \/ \E p \in CallerStates \ Unserving : pc' = [pc EXCEPT ![c] = p]
            \/ UNCHANGED pc
        BY <1>6, ZenonT(30) DEF ServeEnds, CancelServe, Close, CloseCreates, CloseJoins,
           CloseReturns, AfterClose, CancelCall, CallerStates
      <3> QED
        BY <1>0, <3>1, SMTT(30)
    <2>3. server' # None => tls'[server'] # "none"
      BY <2>1 DEF EntryInv
    <2> QED
      BY <1>1, <2>1, <2>2, <2>3, EntriesFrame, ZenonT(30)
  <1>7. ASSUME NEW e \in Epochs, ShutdownNext(e)
        PROVE  (EntryInv /\ StaleEntriesClosed)'
    <2>1. UNCHANGED <<serving, srv, pc>> /\ server' \in {server, None}
      BY <1>7, ZenonT(30) DEF ShutdownNext, ShutdownBegins, GraceOver, ClientsReaped,
         ShutdownEnds
    <2>2. \A f \in Epochs : /\ tls'[f] = "none" => tls[f] = "none"
                            /\ tls[f] = "closed" => tls'[f] = "closed"
      BY <1>7 DEF ShutdownNext, ShutdownBegins, GraceOver, ClientsReaped, ShutdownEnds,
         CloseListener, Open
    <2>3. server' # None => tls'[server'] # "none"
      BY <1>0, <2>1, <2>2, ZenonT(30) DEF EntryInv
    <2> QED
      BY <1>1, <2>1, <2>2, <2>3, EntriesFrame, ZenonT(30)
  <1>8. ASSUME NEW k \in Clients, ClientNext(k)
        PROVE  (EntryInv /\ StaleEntriesClosed)'
    <2>1. UNCHANGED <<serving, srv, pc, tls, server>>
      BY <1>8 DEF ClientNext, Connect, AcceptRejects, AcceptAdmits, HandlerEnds, ClientDone
    <2> QED
      BY <1>1, <2>1, EntriesFrame DEF EntryInv
  <1>9. ASSUME NEW c \in Callers, ServeNext(c) \/ CloseNext(c)
        PROVE  (EntryInv /\ StaleEntriesClosed)'
    <2>1. CASE ServeReturns(c) \/ CancelUnserve(c)
      BY <2>1, <1>5 DEF ServeReturns, CancelUnserve
    <2>2. CASE ServeCloseReturns(c) \/ CancelServeClose(c) \/ CloseSkipped(c)
      BY <2>2, <1>3 DEF ServeCloseReturns, CancelServeClose, CloseSkipped, Expected
    <2> QED
      BY <1>9, <1>4, <1>6, <2>1, <2>2, ZenonT(30) DEF ServeNext, CloseNext
  <1> QED
    BY <1>2, <1>7, <1>8, <1>9, ZenonT(30) DEF Next

\* A step of something else leaves the invariant alone.
LEMMA StutterStep ==
  ASSUME LifecycleInv, UNCHANGED vars
  PROVE  LifecycleInv'
  <1>1. UNCHANGED world /\ UNCHANGED callerVars
    BY ZenonT(30) DEF vars
  <1>2. (LockInv /\ BindInv /\ LocalInv)'
    BY <1>1
    DEF LifecycleInv, LockInv, BindInv, LocalInv, callerVars, world
  <1>3. TypeOK'
    BY <1>1, ZenonT(30) DEF LifecycleInv, TypeOK, callerVars, world, serverVars, listenVars,
       shutVars
  <1>4. (EntryInv /\ StaleEntriesClosed)'
    BY <1>1
    DEF LifecycleInv, ReplacementSafe, EntryInv, StaleEntriesClosed, callerVars, world
  <1> QED
    BY <1>1, <1>2, <1>3, <1>4, WorldFrame DEF OtherInv, LifecycleInv, ReplacementSafe

\* Every step of the server preserves the invariant.
LEMMA LifecycleStep == LifecycleInv /\ [Next]_vars => LifecycleInv'
  <1>1. ASSUME LifecycleInv, Next PROVE LifecycleInv'
    <2>1. OtherInv'
      BY <1>1, StartStep, ServeStep, CloseStep, ShutdownStep, ClientStep
      DEF Next
    <2>2. TypeOK'
      BY <1>1, Types
    <2>3. (EntryInv /\ StaleEntriesClosed)'
      BY <1>1, EntriesStep
    <2> QED
      BY <2>1, <2>2, <2>3 DEF OtherInv, LifecycleInv, ReplacementSafe
  <1> QED
    BY <1>1, StutterStep

-----------------------------------------------------------------------------
(* The safety properties *)

\* The inductive invariant holds in every reachable state.
THEOREM LifecycleInvariant == Spec => []LifecycleInv
  BY InitEstablishesInv, LifecycleStep, PTL DEF Spec

\* No socket is lost by a failed, cancelled or rolled back start() or by a
\* shutdown: an open listener is always the one _server or _http_server names.
THEOREM NoListenerLost == Spec => []ListenersOwned
  <1>1. LifecycleInv => ListenersOwned
    BY ZenonT(30) DEF LifecycleInv
  <1> QED
    BY LifecycleInvariant, <1>1, PTL

\* Shutdown tasks exclude each other and every binding start().
THEOREM ShutdownsExcludeStarts == Spec => []ShutdownExclusive
  <1>1. LifecycleInv => ShutdownExclusive
    BY DEF LifecycleInv, TypeOK, ShutInv, BindInv, ShutdownExclusive, Epochs,
           None
  <1> QED
    BY LifecycleInvariant, <1>1, PTL

\* A caller whose close() has returned joined a shutdown that is over, and which
\* has left nothing behind if it was the current one.
LEMMA CleanClose == LifecycleInv => CloseIsComplete
  <1> SUFFICES ASSUME TypeOK, EpochInv, ShutInv, LocalInv, ClientInv,
                      ListenersOwned, NEW c \in Callers, pc[c] = "closed"
               PROVE  /\ shut[joined[c]] = "done"
                      /\ tls[joined[c]] \notin Open
                      /\ redir[joined[c]] \notin Open
                      /\ joined[c] = epoch => /\ server = None
                                              /\ httpServer = None
                                              /\ Tasks = {}
    BY DEF LifecycleInv, CloseIsComplete
  <1>1. joined[c] \in Epochs /\ shut[joined[c]] = "done"
    BY ZenonT(30) DEF TypeOK, LocalInv, None
  <1>2. joined[c] = epoch => server = None /\ httpServer = None
    BY <1>1 DEF EpochInv, ShutInv, Epochs, None
  <1>3. server = None => Tasks = {}
    BY DEF ClientInv, Tasks
  <1>4. tls[joined[c]] \notin Open /\ redir[joined[c]] \notin Open
    BY <1>1, <1>2
    DEF TypeOK, EpochInv, ListenersOwned, Epochs, None
  <1> QED
    BY <1>1, <1>2, <1>3, <1>4, ZenonT(30)

\* When close() returns normally the cleanup it joined is complete.
THEOREM CloseReturnsClean == Spec => []CloseIsComplete
  BY LifecycleInvariant, CleanClose, PTL

\* A serving task of an earlier epoch never closes the replacement listener, and
\* an entry of _serving it leaves behind never keeps that one from being served.
THEOREM OldServeHarmless == Spec => []ReplacementSafe
  <1>1. LifecycleInv => ReplacementSafe
    BY DEF LifecycleInv
  <1> QED
    BY LifecycleInvariant, <1>1, PTL

-----------------------------------------------------------------------------
(* Refinement: Phase and Tasks behave as ServerPhases allows *)

\* What the phase and the handlers of the abstract specification depend on.
LEMMA PhaseFrame ==
  ASSUME UNCHANGED <<closeTask, shut, server, client>>,
         \A c \in Callers : pc'[c] \in Binding <=> pc[c] \in Binding
  PROVE  UNCHANGED <<Phase, Tasks>>
  BY DEF Phase, Tasks

\* The same for a caller that stays inside, or outside, the binding part of
\* _start.
LEMMA CallerFrame ==
  ASSUME TypeOK, UNCHANGED <<closeTask, shut, server, client>>,
         NEW c \in Callers, NEW s, pc' = [pc EXCEPT ![c] = s],
         s \in Binding <=> pc[c] \in Binding
  PROVE  [Abstract!Next]_(Abstract!vars)
  <1>1. \A d \in Callers : pc'[d] \in Binding <=> pc[d] \in Binding
    BY DEF TypeOK
  <1> QED
    BY <1>1, PhaseFrame DEF Abstract!vars

\* start() begins, completes, fails to bind, or rolls back.
LEMMA StartRefines ==
  ASSUME LifecycleInv, NEW c \in Callers, StartNext(c)
  PROVE  [Abstract!Next]_(Abstract!vars)
  <1> SUFFICES ASSUME TypeOK, LockInv, EpochInv, ShutInv, BindInv, ClientInv
               PROVE  [Abstract!Next]_(Abstract!vars)
    BY DEF LifecycleInv
  <1> USE DEF Goto, Binding, world, rest, shutVars, serverVars
  <1>1. CASE StartAdmitted(c)
    <2>1. Tasks' = Tasks
      BY <1>1, ZenonT(30) DEF StartAdmitted, Tasks
    <2>2. Phase = "down" /\ Phase' = "starting"
      BY <1>1, CallersAssumption
      DEF StartAdmitted, MayStart, Phase, TypeOK, LockInv, None
    <2> QED
      BY <2>1, <2>2 DEF Abstract!Next, Abstract!Begin
  <1>2. CASE BindTlsFails(c)
    <2>1. Tasks' = Tasks /\ Tasks = {}
      BY <1>2 DEF BindTlsFails, Tasks, BindInv, ClientInv
    <2>2. Phase = "starting" /\ Phase' = "down"
      <3>1. /\ pc[c] = "bind_tls" /\ pc' = [pc EXCEPT ![c] = "idle"]
            /\ UNCHANGED <<closeTask, server>>
        BY <1>2, ZenonT(30) DEF BindTlsFails
      <3>2. closeTask = None /\ server = None
        BY <3>1 DEF BindInv
      <3>3. \A d \in Callers : pc'[d] \notin Binding
        BY <3>1 DEF TypeOK, LockInv
      <3> QED
        BY <3>1, <3>2, <3>3 DEF Phase
    <2> QED
      BY <2>1, <2>2, ZenonT(30) DEF Abstract!Next, Abstract!BindFails
  <1>3. CASE BindTls(c)
    <2>1. Tasks' = Tasks
      BY <1>3, ZenonT(30) DEF BindTls, Tasks
    <2>2. Phase = "starting" /\ Phase' = "starting"
      BY <1>3 DEF BindTls, Phase, TypeOK, BindInv
    <2> QED
      BY <2>1, <2>2 DEF Abstract!vars
  <1>4. CASE StartReturns(c)
    <2>1. Tasks' = Tasks
      BY <1>4, ZenonT(30) DEF StartReturns, Tasks
    <2>2. Phase = "starting" /\ Phase' = "up"
      <3>1. /\ pc[c] \in {"listen_tls", "listen_http"}
            /\ pc' = [pc EXCEPT ![c] = "idle"]
            /\ UNCHANGED <<closeTask, server>>
        BY <1>4, ZenonT(30) DEF StartReturns
      <3>2. closeTask = None /\ server # None
        BY <3>1 DEF BindInv, TypeOK, Epochs, None
      <3>3. \A d \in Callers : pc'[d] \notin Binding
        BY <3>1 DEF TypeOK, LockInv
      <3> QED
        BY <3>1, <3>2, <3>3 DEF Phase
    <2> QED
      BY <2>1, <2>2 DEF Abstract!Next, Abstract!Started
  <1>5. CASE StartFails(c)
    <2>1. Tasks' = Tasks
      BY <1>5, ZenonT(30) DEF StartFails, Tasks
    <2>2. Phase = "starting"
      BY <1>5, ZenonT(30) DEF StartFails, Phase, BindInv
    <2>3. Phase' = "stopping"
      BY <1>5 DEF StartFails, CreateShutdown, Phase, TypeOK, Epochs, None
    <2> QED
      BY <2>1, <2>2, <2>3 DEF Abstract!Next, Abstract!Stop
  <1>6. CASE Start(c)
    BY <1>6, CallerFrame, Zenon DEF Start
  <1>7. CASE StartRefused(c)
    BY <1>7, CallerFrame, Zenon DEF StartRefused
  <1>8. CASE RollbackReturns(c)
    BY <1>8, CallerFrame, Zenon DEF RollbackReturns
  <1>9. CASE BindHttp(c)
    BY <1>9, CallerFrame, Zenon DEF BindHttp
  <1>10. CASE ListenHttp(c)
    BY <1>10, CallerFrame, Zenon DEF ListenHttp
  <1> QED
    BY <1>1, <1>2, <1>3, <1>4, <1>5, <1>6, <1>7, <1>8, <1>9, <1>10
    DEF StartNext

\* serve_forever() by itself changes no phase.
LEMMA ServeRefines ==
  ASSUME LifecycleInv, NEW c \in Callers, ServeNext(c)
  PROVE  [Abstract!Next]_(Abstract!vars)
  <1> SUFFICES ASSUME TypeOK
               PROVE  [Abstract!Next]_(Abstract!vars)
    BY DEF LifecycleInv
  <1> USE DEF Goto, Binding, world, rest, serverVars, shutVars
  <1>1. CASE Serve(c)
    BY <1>1, CallerFrame, Zenon DEF Serve
  <1>2. CASE ServeEnds(c)
    BY <1>2, CallerFrame, Zenon DEF ServeEnds
  <1>3. CASE CancelServe(c)
    BY <1>3, CallerFrame, Zenon DEF CancelServe
  <1>4. CASE ServeCloseReturns(c)
    BY <1>4, CallerFrame, Zenon DEF ServeCloseReturns, EnterUnserve
  <1>5. CASE CancelServeClose(c)
    BY <1>5, CallerFrame, Zenon DEF CancelServeClose, EnterUnserve
  <1>6. CASE ServeReturns(c)
    BY <1>6, CallerFrame, Zenon DEF ServeReturns, LeaveUnserve
  <1>7. CASE CancelUnserve(c)
    BY <1>7, CallerFrame, Zenon DEF CancelUnserve, LeaveUnserve
  <1> QED
    BY <1>1, <1>2, <1>3, <1>4, <1>5, <1>6, <1>7 DEF ServeNext

\* _close stops the instance when it creates the shutdown task.
LEMMA CloseRefines ==
  ASSUME LifecycleInv, NEW c \in Callers, CloseNext(c)
  PROVE  [Abstract!Next]_(Abstract!vars)
  <1> SUFFICES ASSUME TypeOK
               PROVE  [Abstract!Next]_(Abstract!vars)
    BY DEF LifecycleInv
  <1> USE DEF Goto, Binding, world, serverVars, shutVars
  <1>1. CASE CloseCreates(c)
    <2>1. Tasks' = Tasks
      BY <1>1, ZenonT(30) DEF CloseCreates, Tasks
    <2>2. Phase # "stopping"
      BY <1>1 DEF CloseCreates, Phase
    <2>3. Phase' = "stopping"
      BY <1>1 DEF CloseCreates, CreateShutdown, Phase, TypeOK, Epochs, None
    <2> QED
      BY <2>1, <2>2, <2>3 DEF Abstract!Next, Abstract!Stop
  <1>2. CASE Close(c)
    BY <1>2, CallerFrame, Zenon DEF Close
  <1>3. CASE CloseSkipped(c)
    BY <1>3, CallerFrame, Zenon DEF CloseSkipped, EnterUnserve
  <1>4. CASE CloseJoins(c)
    BY <1>4, CallerFrame, Zenon DEF CloseJoins
  <1>5. CASE CloseReturns(c)
    BY <1>5, CallerFrame, Zenon DEF CloseReturns
  <1>6. CASE AfterClose(c)
    BY <1>6, CallerFrame, Zenon DEF AfterClose
  <1>7. CASE CancelCall(c)
    BY <1>7, CallerFrame, Zenon DEF CancelCall
  <1> QED
    BY <1>1, <1>2, <1>3, <1>4, <1>5, <1>6, <1>7 DEF CloseNext

\* The end of the shutdown task is the end of phase "stopping".
LEMMA ShutdownRefines ==
  ASSUME LifecycleInv, NEW e \in Epochs, ShutdownNext(e)
  PROVE  [Abstract!Next]_(Abstract!vars)
  <1> SUFFICES ASSUME TypeOK, ShutInv, BindInv
               PROVE  [Abstract!Next]_(Abstract!vars)
    BY ZenonT(30) DEF LifecycleInv
  <1>1. /\ closeTask = e /\ e # None
        /\ UNCHANGED <<pc, closeTask>>
        /\ shut[e] # "done" /\ e \in DOMAIN shut
    BY DEF ShutdownNext, ShutdownBegins, GraceOver, ClientsReaped,
           ShutdownEnds, ShutInv, Running, TypeOK, Epochs, None, callerVars,
           serverVars
  <1>2. Phase = "stopping"
    BY <1>1 DEF Phase
  <1>3. CASE ShutdownEnds(e)
    <2>1. Tasks' = Tasks /\ Tasks = {}
      BY <1>3 DEF ShutdownEnds, Tasks
    <2>2. Phase' = "down"
      <3>1. \A c \in Callers : pc[c] \notin Binding
        BY <1>1 DEF BindInv
      <3>2. shut'[e] = "done" /\ server' = None
        BY <1>1, <1>3 DEF ShutdownEnds
      <3> QED
        BY <1>1, <3>1, <3>2, ZenonT(30) DEF Phase
    <2> QED
      BY <1>2, <2>1, <2>2 DEF Abstract!Next, Abstract!Stopped
  <1>4. CASE ~ShutdownEnds(e)
    <2>1. Tasks' = Tasks
      BY <1>4
      DEF ShutdownNext, ShutdownBegins, GraceOver, ClientsReaped, Tasks, TypeOK
    <2>2. Phase' = "stopping"
      BY <1>1, <1>4
      DEF ShutdownNext, ShutdownBegins, GraceOver, ClientsReaped, Phase
    <2> QED
      BY <1>2, <2>1, <2>2, ZenonT(30) DEF Abstract!vars
  <1> QED
    BY <1>3, <1>4

\* Handlers are admitted by _accept_client and leave with _client_done.
LEMMA ClientRefines ==
  ASSUME LifecycleInv, NEW k \in Clients, ClientNext(k)
  PROVE  [Abstract!Next]_(Abstract!vars)
  <1> SUFFICES ASSUME TypeOK, ShutInv, ClientInv
               PROVE  [Abstract!Next]_(Abstract!vars)
    BY ZenonT(30) DEF LifecycleInv
  <1>1. Phase' = Phase
    BY DEF ClientNext, Connect, AcceptRejects, AcceptAdmits, HandlerEnds,
           ClientDone, callerVars, serverVars, shutVars, Phase
  <1>2. CASE Connect(k) \/ AcceptRejects(k) \/ HandlerEnds(k)
    <2>1. Tasks' = Tasks
      BY <1>2 DEF Connect, AcceptRejects, HandlerEnds, Tasks, TypeOK
    <2> QED
      BY <1>1, <2>1, ZenonT(30) DEF Abstract!vars
  <1>3. CASE AcceptAdmits(k)
    <2>1. k \notin Tasks /\ Tasks' = Tasks \cup {k}
      BY <1>3, ZenonT(30) DEF AcceptAdmits, Tasks, TypeOK
    <2>2. Phase \in {"starting", "up"}
      BY <1>3 DEF AcceptAdmits, MayAdmit, ShutInv, ClientInv, Phase
    <2>3. Cardinality(Tasks) = Abstract!Cardinality(Tasks)
      BY Zenon DEF Cardinality, Abstract!Cardinality
    <2>4. Cardinality(Tasks) < MaxClients
      BY <1>3 DEF AcceptAdmits, MayAdmit
    <2> QED
      BY <1>1, <2>1, <2>2, <2>3, <2>4 DEF Abstract!Next, Abstract!Admit
  <1>4. CASE ClientDone(k)
    <2>1. k \in Tasks /\ Tasks' = Tasks \ {k}
      BY <1>4 DEF ClientDone, Tasks, TypeOK
    <2> QED
      BY <1>1, <2>1 DEF Abstract!Next, Abstract!Finish
  <1> QED
    BY <1>2, <1>3, <1>4 DEF ClientNext

\* The lifecycle code implements ServerPhases: handlers are admitted only while
\* starting or up and within MAX_CLIENTS, and down means no handler is left.
THEOREM LifecycleImplementsPhases == Spec => PhasesImplemented
  <1>1. Init => Abstract!Init
    BY DEF Init, Abstract!Init, Phase, Tasks, None, Binding
  <1>2. LifecycleInv /\ [Next]_vars => [Abstract!Next]_(Abstract!vars)
    <2> SUFFICES ASSUME LifecycleInv, [Next]_vars
                 PROVE  [Abstract!Next]_(Abstract!vars)
      OBVIOUS
    <2>1. CASE UNCHANGED vars
      BY <2>1, PhaseFrame DEF vars, callerVars, world, Abstract!vars
    <2> QED
      BY <2>1, StartRefines, ServeRefines, CloseRefines, ShutdownRefines,
         ClientRefines DEF Next
  <1> QED
    BY LifecycleInvariant, <1>1, <1>2, PTL
    DEF Spec, PhasesImplemented, Abstract!Spec
=============================================================================
