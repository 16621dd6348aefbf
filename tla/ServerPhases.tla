---------------------------- MODULE ServerPhases ----------------------------
(***************************************************************************)
(* What a SolveTLS instance promises to whoever starts and closes it,      *)
(* without tasks, locks, listeners or cancellation: it is down, starting,  *)
(* up or stopping; client handlers are admitted only while it is starting  *)
(* or up and never above the limit; it is down again only when no client   *)
(* handler is left.                                                        *)
(***************************************************************************)
EXTENDS Naturals, FiniteSets

CONSTANTS
  Clients,      \* client connections
  MaxClients    \* MAX_CLIENTS

VARIABLES
  phase,        \* "down", "starting", "up" or "stopping"
  handlers      \* the clients that have a handler task

vars == <<phase, handlers>>

Init ==
  /\ phase = "down"
  /\ handlers = {}

Begin ==
  /\ phase = "down"
  /\ phase' = "starting"
  /\ UNCHANGED handlers

\* The first bind fails: there is nothing to roll back.
BindFails ==
  /\ phase = "starting"
  /\ handlers = {}
  /\ phase' = "down"
  /\ UNCHANGED handlers

Started ==
  /\ phase = "starting"
  /\ phase' = "up"
  /\ UNCHANGED handlers

\* From "starting" this is the rollback of a failed start; from "down" it is
\* close() on an instance that has never been started.
Stop ==
  /\ phase # "stopping"
  /\ phase' = "stopping"
  /\ UNCHANGED handlers

Stopped ==
  /\ phase = "stopping"
  /\ handlers = {}
  /\ phase' = "down"
  /\ UNCHANGED handlers

Admit(k) ==
  /\ phase \in {"starting", "up"}
  /\ k \notin handlers
  /\ Cardinality(handlers) < MaxClients
  /\ handlers' = handlers \cup {k}
  /\ UNCHANGED phase

Finish(k) ==
  /\ k \in handlers
  /\ handlers' = handlers \ {k}
  /\ UNCHANGED phase

Next ==
  \/ Begin \/ BindFails \/ Started \/ Stop \/ Stopped
  \/ \E k \in Clients : Admit(k) \/ Finish(k)

Spec == Init /\ [][Next]_vars
=============================================================================
