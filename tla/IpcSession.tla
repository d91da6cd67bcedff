------------------------------ MODULE IpcSession ------------------------------
(***************************************************************************)
(* The sessions between the clients of the hydration daemon and the daemon *)
(* itself: ipc_client.rs and ipc_protocol.rs on one side, IPCServer.swift  *)
(* and the actor of module HydrationManager on the other, the socket in    *)
(* between, and the death and restart of the daemon.                       *)
(*                                                                         *)
(* A client opens a connection for every request and waits for one answer, *)
(* but no longer than its read timeout.  The daemon has one task for each  *)
(* connection, which is not told that its client has given up.  It finds   *)
(* out when it writes the answer: nothing ignores SIGPIPE, so that write   *)
(* ends the whole process.  launchd starts it again.                       *)
(*                                                                         *)
(* What is written to a client that waits can be read whatever happens     *)
(* afterwards, so writing an answer and reading it are one step, and so    *)
(* are the end of the daemon and the end of its sockets.                   *)
(***************************************************************************)
EXTENDS HydrationManager

CONSTANT DaemonStops   \* the daemon may also be stopped, or crash, on its own

VARIABLES
  daemonUp,  \* the daemon is running
  conn,      \* connections (one per element of Calls): the request, or None
  client     \* the client of each connection

sessionVars ==
  <<disk, pending, unreported, states, actor, calls, daemonUp, conn, client>>

(* The JSON objects of the wire.  A ping names no file.                    *)
WireRequest == [type: {"ping"}, path: {None}] \cup
               [type: {"query_state", "hydrate"}, path: Paths]
WireResponse == [type: {"pong"}] \cup
                [type: {"state"}, state: FileState] \cup
                [type: {"hydration_result"}, success: BOOLEAN]

(* "lost" is a daemon that cannot be reached, or that has gone before it   *)
(* answered; "failed" is an answer of no use, or none within 300 s.        *)
IpcError == {"lost", "failed", "unexpected"}

ASSUME SessionAssumption ==
  /\ DaemonStops \in BOOLEAN
  /\ None \notin WireRequest \cup IpcError \cup {"ok", "local"}

(* "local": the client was told that the file is local.  sawLocal is       *)
(* history: the file has been local since the request.                     *)
Client == [pc: {"idle", "waiting", "done"}, sawLocal: BOOLEAN,
           result: IpcError \cup {"ok", "local", None}]
NoClient == [pc |-> "idle", sawLocal |-> FALSE, result |-> None]

Waiting(c) == client[c].pc = "waiting"

SessionTypeOK ==
  /\ HydrationTypeOK
  /\ daemonUp \in BOOLEAN
  /\ conn \in [Calls -> WireRequest \cup {None}]
  /\ client \in [Calls -> Client]
  /\ \A c \in Calls : /\ Waiting(c) \/ ~At(c, "idle") => conn[c] # None
                      /\ conn[c] # None => daemonUp
                      /\ client[c].pc = "done" <=> client[c].result # None

SessionInit ==
  /\ Init
  /\ daemonUp = TRUE
  /\ conn = [c \in Calls |-> None]
  /\ client = [c \in Calls |-> NoClient]

-----------------------------------------------------------------------------
(* The client: IpcClient.                                                  *)

Done(result) == [NoClient EXCEPT !.pc = "done", !.result = result]

(* send, up to the end of write_all.                                       *)
Send(c, r) ==
  /\ client[c] = NoClient
  /\ conn[c] = None
  /\ IF daemonUp
     THEN /\ conn' = [conn EXCEPT ![c] = r]
          /\ client' = [client EXCEPT ![c].pc = "waiting",
                          ![c].sawLocal = r.path # None /\ disk[r.path] = "local"]
     ELSE client' = [client EXCEPT ![c] = Done("lost")] /\ UNCHANGED conn
  /\ UNCHANGED <<vars, daemonUp>>

(* ping, query_state and hydrate look at the response that send returns.   *)
Interpreted(r, response) ==
  CASE r.type = "ping" /\ response.type = "pong" -> "ok"
    [] r.type = "query_state" /\ response.type = "state" ->
         IF response.state = "local" THEN "local" ELSE "ok"
    [] r.type = "hydrate" /\ response.type = "hydration_result" ->
         IF response.success THEN "local" ELSE "failed"
    [] OTHER -> "unexpected"

(* read_exact has waited for 300 s; the client closes its end.  Only a     *)
(* hydrate that sleeps between its polls takes that long.                  *)
ReadTimeout(c) ==
  /\ Waiting(c)
  /\ At(c, "sleep")
  /\ client' = [client EXCEPT ![c] = Done("failed")]
  /\ UNCHANGED <<vars, daemonUp, conn>>

(* The caller is done with the result.                                     *)
Used(c) ==
  /\ client[c].pc = "done"
  /\ client' = [client EXCEPT ![c] = NoClient]
  /\ UNCHANGED <<vars, daemonUp, conn>>

-----------------------------------------------------------------------------
(* The daemon: IPCServer.                                                  *)

(* writeAll and close, to a client that still waits.                       *)
Answers(c, response) ==
  /\ Waiting(c)
  /\ client' = [client EXCEPT ![c] = Done(Interpreted(conn[c], response))]
  /\ conn' = [conn EXCEPT ![c] = None]
  /\ UNCHANGED daemonUp

(* The process ends, and with it the actor, its map and all tasks.  The    *)
(* clients that still wait read the end of their connections.              *)
Dies ==
  /\ daemonUp' = FALSE
  /\ states' = [p \in Paths |-> None]
  /\ actor' = None
  /\ calls' = [c \in Calls |-> NoCall]
  /\ conn' = [c \in Calls |-> None]
  /\ client' = [c \in Calls |-> IF Waiting(c) THEN Done("lost") ELSE client[c]]
  /\ unreported' = {}
  /\ UNCHANGED <<disk, pending>>

Asks(c, type) == conn[c] # None /\ conn[c].type = type

ServePing(c) ==
  /\ Asks(c, "ping")
  /\ Answers(c, [type |-> "pong"])
  /\ UNCHANGED vars

(* refreshState takes the actor; where it throws the answer is "unknown".  *)
ServeQuery(c) ==
  /\ Asks(c, "query_state")
  /\ LET p == conn[c].path IN
       \/ /\ QueryState(p)
          /\ Answers(c, [type |-> "state", state |-> Detected(p)])
       \/ /\ actor = None
          /\ DetectorThrows(p)
          /\ Answers(c, [type |-> "state", state |-> "unknown"])
          /\ UNCHANGED vars

ServeHydrate(c) ==
  /\ Asks(c, "hydrate")
  /\ Request(c, conn[c].path)
  /\ UNCHANGED <<daemonUp, conn, client>>

(* hydrate has returned or thrown.                                         *)
AnswerHydrate(c) ==
  /\ Reply(c)
  /\ Answers(c, [type |-> "hydration_result",
                 success |-> calls[c].result = "local"])

(* ... after its client has closed the socket: SIGPIPE.                    *)
BrokenPipe(c) == At(c, "reply") /\ ~Waiting(c) /\ Dies

(* SIGTERM, or a crash of its own.                                         *)
Stops == DaemonStops /\ daemonUp /\ Dies

(* launchd keeps the daemon alive.  It watches from now on: events of the  *)
(* time before are lost, but so is the map.                                *)
Restarts ==
  /\ ~daemonUp
  /\ daemonUp' = TRUE
  /\ pending' = {}
  /\ UNCHANGED <<disk, unreported, states, actor, calls, conn, client>>

-----------------------------------------------------------------------------
FileChanges(p) ==
  /\ DiskChanges(p)
  /\ client' = [c \in Calls |->
       IF Waiting(c) /\ conn[c].path = p /\ disk'[p] = "local"
       THEN [client[c] EXCEPT !.sawLocal = TRUE] ELSE client[c]]
  /\ UNCHANGED <<daemonUp, conn>>

(* A step of the actor.                                                    *)
Within(A) == daemonUp /\ A /\ UNCHANGED <<daemonUp, conn, client>>

Serve(c) == \/ ServePing(c) \/ ServeQuery(c) \/ ServeHydrate(c)
            \/ AnswerHydrate(c) \/ BrokenPipe(c)

SessionNext ==
  \/ \E c \in Calls : \/ \E r \in WireRequest : Send(c, r)
                      \/ ReadTimeout(c) \/ Used(c)
                      \/ Within(CallStep(c)) \/ Serve(c)
  \/ \E p \in Paths : FileChanges(p) \/ Within(handleEvent(p) \/ stopTracking(p))
  \/ Stops
  \/ Restarts

(* The daemon's tasks and the actor are scheduled, the clock runs, and     *)
(* launchd starts the daemon again.  No fairness is asked of the client's  *)
(* timeout: a client gets its answer without.                              *)
SessionFairness ==
  /\ \A c \in Calls : /\ SF_sessionVars(Within(CallStep(c)) \/ Serve(c))
                      /\ SF_sessionVars(Within(TimeoutExpires(c)))
  /\ \A p \in Paths : SF_sessionVars(Within(handleEvent(p)))
  /\ WF_sessionVars(Restarts)

SessionSpec == SessionInit /\ [][SessionNext]_sessionVars /\ SessionFairness

-----------------------------------------------------------------------------
(* What holds between the steps.  The actor has one call at a time, and a  *)
(* call that is about to download has it since it saw the file evicted.    *)
ActorExclusive ==
  \A c \in Calls :
    /\ calls[c].pc \in {"recheck", "download", "wait"} <=> actor = c
    /\ At(c, "download") => states[calls[c].path] = "evicted"

(* A call works for the request of its connection.                         *)
CallsServed ==
  \A c \in Calls : ~At(c, "idle") => conn[c] \in WireRequest
                                     /\ conn[c].type = "hydrate"
                                     /\ conn[c].path = calls[c].path

(* Who is local, or found local, was local while the client waits.         *)
LocalSeen ==
  \A c \in Calls :
    /\ ~Waiting(c) => ~client[c].sawLocal
    /\ Waiting(c) /\ conn[c].path # None /\ disk[conn[c].path] = "local"
         => client[c].sawLocal
    /\ Waiting(c) /\ calls[c].result = "local" => client[c].sawLocal

(* The inductive invariant: types, one call at a time on the actor, every  *)
(* call in step with its connection, and a client that waits has seen each *)
(* state its call relies on.                                               *)
SessionInv ==
  SessionTypeOK /\ ActorExclusive /\ CallsServed /\ LocalSeen /\ NoInvalidTransition

(* The session keeps the daemon's promise: a client that is told that a    *)
(* file is local was told so of a state the file has had since the client  *)
(* asked, through cached states, events out of order, timeouts, and a      *)
(* daemon that dies and comes back in between.                             *)
ServiceCall ==
  [c \in Calls |->
    [pc        |-> CASE Waiting(c)            -> "asked"
                     [] client[c].pc = "done" -> "answered"
                     [] OTHER                 -> "idle",
     path      |-> IF Waiting(c) THEN conn[c].path ELSE None,
     sawLocal  |-> client[c].sawLocal,
     toldLocal |-> client[c].result = "local"]]

Service == INSTANCE HydrationService WITH
  Clients <- Calls, FileStates <- FileState, NoPath <- None, call <- ServiceCall

ImplementsService == Service!Spec

(* Every connection ends, with an answer or with the end of the daemon:    *)
(* no client waits for ever, even without a timeout, and no task outlives  *)
(* its client for ever, whatever the file, the other clients and launchd   *)
(* do.                                                                     *)
ConnectionsEnd == \A c \in Calls : conn[c] # None ~> conn[c] = None

(* ipc_client.rs:7-9: "safe to use from multiple threads (each call is     *)
(* independent)".  A daemon that nobody stops answers every client, also   *)
(* when another one has given up.                                          *)
CallsIndependent ==
  \A c \in Calls : client[c].result # "lost"

=============================================================================
