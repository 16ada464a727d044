-------------------------------- MODULE Server --------------------------------
(***************************************************************************)
(* The HTTP server: requests that share MAX_OPERATIONS permits, each handed   *)
(* to a blocking task that outlives a client who leaves, and the graceful     *)
(* shutdown.  The permit is taken in the handler without waiting, moved into   *)
(* the task and dropped with it.                                            *)
(***************************************************************************)
EXTENDS Naturals, FiniteSets

CONSTANTS Requests,       \* one connection and one request each
          MAX_OPERATIONS

ASSUME ServerAssumption == IsFiniteSet(Requests) /\ MAX_OPERATIONS \in Nat \ {0}

VARIABLES phase,    \* of main: "serving", "draining", "closing", "stopped"
          client,   \* "absent", "sent", "waiting", "gone" or the answer
          task,     \* "none", "queued", "running", "done", "panicked", "cancelled"
          permits   \* of the semaphore

vars == <<phase, client, task, permits>>

Answers == {"rejected", "busy", "result", "internal_error"}
Pending == {r \in Requests : client[r] \in {"sent", "waiting"}}
Active == {r \in Requests : task[r] \in {"queued", "running"}}

Init ==
  /\ phase = "serving" /\ client = [r \in Requests |-> "absent"]
  /\ task = [r \in Requests |-> "none"] /\ permits = MAX_OPERATIONS

Send(r) ==
  /\ phase = "serving" /\ client[r] = "absent"
  /\ client' = [client EXCEPT ![r] = "sent"]
  /\ UNCHANGED <<phase, task, permits>>

\* A URI beyond 8192 bytes, an unknown route or method, invalid parameters: answered
\* before a permit is asked for.
Reject(r) ==
  /\ client[r] = "sent" /\ client' = [client EXCEPT ![r] = "rejected"]
  /\ UNCHANGED <<phase, task, permits>>

\* AppState::run up to its await.
Run(r) ==
  /\ client[r] = "sent"
  /\ IF permits = 0
     THEN /\ client' = [client EXCEPT ![r] = "busy"]
          /\ UNCHANGED <<task, permits>>
     ELSE /\ permits' = permits - 1
          /\ task' = [task EXCEPT ![r] = "queued"]
          /\ client' = [client EXCEPT ![r] = "waiting"]
  /\ UNCHANGED phase

Begin(r) ==
  /\ task[r] = "queued"
  /\ task' = [task EXCEPT ![r] = "running"]
  /\ UNCHANGED <<phase, client, permits>>

FinishFaulty(r) ==
  /\ task[r] = "running"
  /\ \/ task' = [task EXCEPT ![r] = "done"] /\ permits' = permits + 1
     \/ task' = [task EXCEPT ![r] = "panicked"] /\ UNCHANGED permits
  /\ UNCHANGED <<phase, client>>

\* The operation returns, with a result or an error, or panics; either drops the permit.
Finish(r) ==
  /\ task[r] = "running"
  /\ \E end \in {"done", "panicked"} : task' = [task EXCEPT ![r] = end]
  /\ permits' = permits + 1
  /\ UNCHANGED <<phase, client>>

RespondFaulty(r) ==
  /\ client[r] = "waiting" /\ task[r] = "done"
  /\ client' = [client EXCEPT ![r] = "result"]
  /\ UNCHANGED <<phase, task, permits>>

\* The handler resumes: a panicked task is an internal error.
Respond(r) ==
  /\ client[r] = "waiting"
  /\ \/ task[r] = "done" /\ client' = [client EXCEPT ![r] = "result"]
     \/ task[r] = "panicked" /\ client' = [client EXCEPT ![r] = "internal_error"]
  /\ UNCHANGED <<phase, task, permits>>

DisconnectFaulty(r) ==
  /\ client[r] \in {"sent", "waiting"}
  /\ client' = [client EXCEPT ![r] = "gone"]
  /\ permits' = IF r \in Active THEN permits + 1 ELSE permits
  /\ UNCHANGED <<phase, task>>

\* The handler is dropped; a task it has spawned is detached, not stopped.
Disconnect(r) ==
  /\ client[r] \in {"sent", "waiting"}
  /\ client' = [client EXCEPT ![r] = "gone"]
  /\ UNCHANGED <<phase, task, permits>>

\* shutdown_signal: no new connection is accepted.
Signal ==
  /\ phase = "serving" /\ phase' = "draining"
  /\ UNCHANGED <<client, task, permits>>

\* serve returns when every connection is closed, and main drops the runtime.
Drained ==
  /\ phase = "draining" /\ Pending = {} /\ phase' = "closing"
  /\ UNCHANGED <<client, task, permits>>

\* The runtime drops the tasks it has not begun, and their permits.
Cancel(r) ==
  /\ phase = "closing" /\ task[r] = "queued"
  /\ task' = [task EXCEPT ![r] = "cancelled"] /\ permits' = permits + 1
  /\ UNCHANGED <<phase, client>>

\* It waits for those it has.
Exit ==
  /\ phase = "closing" /\ Active = {} /\ phase' = "stopped"
  /\ UNCHANGED <<client, task, permits>>

Stopped == phase = "stopped" /\ UNCHANGED vars

Next ==
  \/ \E r \in Requests :
       \/ Send(r) \/ Reject(r) \/ Run(r) \/ Begin(r) \/ Finish(r) \/ Respond(r)
       \/ Disconnect(r) \/ Cancel(r)
  \/ Signal \/ Drained \/ Exit \/ Stopped

\* The async runtime polls every handler and begins every task, and the library's
\* operations return.  Nobody has to send, to leave or to ask for a shutdown.
Fairness ==
  /\ \A r \in Requests : /\ WF_vars(Reject(r) \/ Run(r)) /\ WF_vars(Begin(r))
                         /\ WF_vars(Finish(r)) /\ WF_vars(Respond(r))
  /\ WF_vars(Drained) /\ WF_vars(Exit)

Spec == Init /\ [][Next]_vars /\ Fairness

-------------------------------------------------------------------------------

\* Never more than MAX_OPERATIONS tasks hold resources at once, those whose client has
\* left among them, and when the process ends every permit has come back exactly once
\* and no client is left without an answer (AppState::run).
AtMostMaxOperations ==
  /\ Cardinality(Active) <= MAX_OPERATIONS
  /\ phase = "stopped" => permits = MAX_OPERATIONS /\ Active = {} /\ Pending = {}

\* A request is refused as busy only while MAX_OPERATIONS others are at work: neither a
\* panic nor a client who leaves costs a permit for good.
RefusedOnlyWhenBusy ==
  [][\A r \in Requests :
       client[r] # "busy" /\ client'[r] = "busy" =>
         Cardinality(Active \ {r}) = MAX_OPERATIONS]_vars

\* Whoever sends a request and stays is answered, whatever the others do and even when
\* the work panics or the server is told to stop; and a server told to stop does.
AnswersAndStops ==
  /\ \A r \in Requests : client[r] = "sent" ~> client[r] \in Answers \cup {"gone"}
  /\ phase = "draining" ~> phase = "stopped"
===============================================================================
