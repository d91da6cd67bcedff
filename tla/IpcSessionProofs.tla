--------------------------- MODULE IpcSessionProofs ---------------------------
(***************************************************************************)
(* The sessions of any number of clients with the daemon, on any files:    *)
(* SessionInv is inductive, so the state machine never rejects a hydrate   *)
(* and failures are recorded, and every step is one that the daemon's      *)
(* promise (module HydrationService) allows.                               *)
(***************************************************************************)
EXTENDS IpcSession, TLAPS

USE HydrationAssumption, SessionAssumption

(* The initial state: no connection, no call, nothing tracked.             *)
LEMMA InitInv == SessionInit => SessionInv
<1> SUFFICES ASSUME SessionInit PROVE SessionInv
  OBVIOUS
<1>1. NoCall \in Call /\ NoClient \in Client
  BY DEF NoCall, Call, NoClient, Client
<1>2. SessionTypeOK
  BY <1>1 DEF SessionInit, Init, SessionTypeOK, HydrationTypeOK, NoCall, NoClient,
              Waiting, At
<1>3. ActorExclusive /\ CallsServed /\ LocalSeen /\ NoInvalidTransition
  BY DEF SessionInit, Init, ActorExclusive, CallsServed, LocalSeen,
         NoInvalidTransition, NoCall, NoClient, Waiting, At, Results
<1>4. QED
  BY <1>2, <1>3 DEF SessionInv

(* What the table of transitions allows that hydrate asks for.             *)
LEMMA Transitions ==
  ASSUME NEW p \in Paths, states \in [Paths -> FileState \cup {None}]
  PROVE  /\ states[p] = "evicted" => CanTransition(states, p, "downloading")
         /\ CurrentState(states, p) \in FileState
  BY DEF CanTransition, CurrentState, validTransitions, FileState

(* What the detector finds is a state, and it finds "local" only if the    *)
(* file is.                                                                *)
LEMMA DetectedState ==
  ASSUME NEW p \in Paths, disk \in [Paths -> FileState]
  PROVE  /\ Detected(p) \in FileState
         /\ Detected(p) = "local" => disk[p] = "local"
  BY DEF Detected, FileState

(* A step of a call that has the actor or takes it, and changes nothing    *)
(* but its own record and the map: what remains to be shown is that the    *)
(* record is a proper one.                                                 *)
LEMMA CallChanges ==
  ASSUME SessionInv, NEW c \in Calls, NEW r \in Call, ~At(c, "idle"),
         calls' = [calls EXCEPT ![c] = r],
         UNCHANGED <<disk, daemonUp, conn, client, pending>>,
         unreported' \in SUBSET Paths,
         actor \in {None, c},
         actor' = IF r.pc \in {"recheck", "download", "wait"} THEN c ELSE None,
         states' \in [Paths -> FileState \cup {None}],
         r.pc # "idle", r.path = calls[c].path,
         r.pc = "reply" <=> r.result # None,
         r.result # "invalid_transition",
         r.result = "local" => disk[r.path] = "local",
         r.pc = "download" => states'[r.path] = "evicted"
  PROVE  SessionInv'
<1> USE DEF SessionInv
<1>1. calls[c].path \in Paths /\ calls \in [Calls -> Call]
  BY DEF SessionTypeOK, HydrationTypeOK, At
<1>2. /\ calls'[c] = r
      /\ \A d \in Calls : d # c => calls'[d] = calls[d]
      /\ calls' \in [Calls -> Call]
  BY <1>1
<1>3. SessionTypeOK'
  <2>1. HydrationTypeOK'
    BY <1>1, <1>2 DEF SessionTypeOK, HydrationTypeOK
  <2>2. QED
    BY <1>2, <2>1 DEF SessionTypeOK, Waiting, At
<1>4. ActorExclusive'
  BY <1>1, <1>2 DEF ActorExclusive, At
<1>5. CallsServed'
  BY <1>2 DEF CallsServed, At
<1>6. LocalSeen'
  <2>1. ASSUME Waiting(c), r.result = "local" PROVE client[c].sawLocal
    BY <1>1, <2>1 DEF CallsServed, LocalSeen, At
  <2>2. QED
    BY <1>2, <2>1 DEF LocalSeen, Waiting
<1>7. NoInvalidTransition'
  BY <1>2 DEF NoInvalidTransition
<1>8. QED
  BY <1>3, <1>4, <1>5, <1>6, <1>7

-----------------------------------------------------------------------------
(* hydrate's own steps.                                                    *)

(* Records that a step of hydrate makes of a call's record.                *)
LEMMA CallAt ==
  ASSUME NEW k \in Call, NEW pc \in {"recheck", "download", "wait"}
  PROVE  LET r == [k EXCEPT !.pc = pc] IN
         r \in Call /\ r.pc = pc /\ r.path = k.path /\ r.result = k.result
  BY DEF Call

LEMMA CallFinished ==
  ASSUME NEW k \in Call, NEW result \in Results
  PROVE  LET r == [k EXCEPT !.pc = "reply", !.result = result] IN
         r \in Call /\ r.pc = "reply" /\ r.path = k.path /\ r.result = result
  BY DEF Call

LEMMA CallStarted ==
  ASSUME NEW k \in Call, NEW p \in Paths
  PROVE  LET r == [k EXCEPT !.pc = "called", !.path = p] IN
         r \in Call /\ r.pc = "called" /\ r.path = p /\ r.result = k.result
  BY DEF Call

(* A call that goes on and keeps the actor.                                *)
LEMMA GotoInv ==
  ASSUME SessionInv, NEW c \in Calls, NEW pc \in {"recheck", "download", "wait"},
         ~At(c, "idle"), ~At(c, "reply"), Goto(c, pc),
         UNCHANGED <<disk, pending, daemonUp, conn, client>>,
         unreported' \in SUBSET Paths,
         actor \in {None, c}, actor' = c,
         states' \in [Paths -> FileState \cup {None}],
         pc = "download" => states'[calls[c].path] = "evicted"
  PROVE  SessionInv'
<1> DEFINE k == calls[c]
           r == [k EXCEPT !.pc = pc]
<1>1. k \in Call /\ k.result = None
  BY DEF SessionInv, SessionTypeOK, HydrationTypeOK, At
<1> HIDE DEF k
<1>2. r \in Call /\ r.pc = pc /\ r.path = k.path /\ r.result = k.result
  BY <1>1, CallAt
<1> USE DEF k
<1>3. calls' = [calls EXCEPT ![c] = r]
  BY DEF Goto
<1>4. QED
  BY <1>1, <1>2, <1>3, CallChanges DEF Results

(* A call that ends.                                                       *)
LEMMA FinishInv ==
  ASSUME SessionInv, NEW c \in Calls, NEW result \in Results,
         ~At(c, "idle"), Finish(c, result),
         UNCHANGED <<disk, pending, daemonUp, conn, client>>,
         unreported' \in SUBSET Paths,
         actor \in {None, c},
         states' \in [Paths -> FileState \cup {None}],
         result # "invalid_transition",
         result = "local" => disk[calls[c].path] = "local"
  PROVE  SessionInv'
<1> DEFINE r == [calls[c] EXCEPT !.pc = "reply", !.result = result]
<1>1. calls[c] \in Call
  BY DEF SessionInv, SessionTypeOK, HydrationTypeOK
<1>2. r \in Call /\ r.pc = "reply" /\ r.path = calls[c].path /\ r.result = result
  BY <1>1, CallFinished, Zenon
<1>3. calls' = [calls EXCEPT ![c] = r] /\ actor' = None
  BY DEF Finish
<1>4. QED
  BY <1>2, <1>3, CallChanges

(* Every step of hydrate keeps the invariant.                              *)
LEMMA CallStepInv ==
  ASSUME SessionInv, NEW c \in Calls, Within(CallStep(c))
  PROVE  SessionInv'
<1> DEFINE p == calls[c].path
           d == Detected(p)
<1>1. UNCHANGED <<daemonUp, conn, client>>
  BY DEF Within
<1>2. /\ disk \in [Paths -> FileState] /\ states \in [Paths -> FileState \cup {None}]
      /\ calls \in [Calls -> Call] /\ calls[c] \in Call
      /\ ~At(c, "idle") => p \in Paths
      /\ calls[c].pc \in {"recheck", "download", "wait"} <=> actor = c
      /\ unreported \in SUBSET Paths
  BY DEF SessionInv, SessionTypeOK, HydrationTypeOK, ActorExclusive, At
<1>3. ASSUME ~At(c, "idle"), refreshState(p)
      PROVE  /\ states' \in [Paths -> FileState \cup {None}]
             /\ states'[p] = d /\ d \in FileState
             /\ d = "local" => disk[p] = "local"
  BY <1>2, <1>3, DetectedState DEF refreshState
<1>4. CASE Enter(c)
  <2>1. /\ ~At(c, "idle") /\ ~At(c, "reply") /\ refreshState(p) /\ actor = None
        /\ UNCHANGED <<disk, pending>> /\ unreported' \in SUBSET Paths
    BY <1>2, <1>4 DEF Enter, refreshState, At
  <2>2. CASE d = "local"
    BY <1>1, <1>3, <1>4, <2>1, <2>2, FinishInv DEF Enter, Results
  <2>3. CASE d = "downloading"
    BY <1>1, <1>3, <1>4, <2>1, <2>3, GotoInv DEF Enter
  <2>4. CASE d = "evicted"
    BY <1>1, <1>3, <1>4, <2>1, <2>4, GotoInv DEF Enter
  <2>5. CASE d \notin {"local", "downloading", "evicted"}
    BY <1>1, <1>3, <1>4, <2>1, <2>5, GotoInv DEF Enter
  <2>6. QED
    BY <2>2, <2>3, <2>4, <2>5
<1>5. CASE Recheck(c)
  <2>1. /\ ~At(c, "idle") /\ ~At(c, "reply") /\ refreshState(p) /\ actor = c
        /\ UNCHANGED <<disk, pending>> /\ unreported' \in SUBSET Paths
    BY <1>2, <1>5 DEF Recheck, refreshState, At
  <2>2. CASE d = "local"
    BY <1>1, <1>3, <1>5, <2>1, <2>2, FinishInv DEF Recheck, Results
  <2>3. CASE d = "evicted"
    BY <1>1, <1>3, <1>5, <2>1, <2>3, GotoInv DEF Recheck
  <2>4. CASE d \notin {"local", "evicted"}
    BY <1>1, <1>3, <1>5, <2>1, <2>4, FinishInv DEF Recheck, Results
  <2>5. QED
    BY <2>2, <2>3, <2>4
<1>6. CASE StartDownload(c)
  <2>1. /\ ~At(c, "idle") /\ ~At(c, "reply") /\ actor = c
        /\ UNCHANGED <<disk, pending>> /\ unreported' \in SUBSET Paths
    BY <1>2, <1>6 DEF StartDownload, At
  <2>2. p \in Paths /\ states[p] = "evicted"
    BY <1>2, <1>6, <2>1 DEF StartDownload, SessionInv, ActorExclusive
  <2>3. CanTransition(states, p, "downloading")
    BY <1>2, <2>2, Transitions
  <2>4. CASE states' = [states EXCEPT ![p] = "downloading"] /\ Goto(c, "wait")
                                                            /\ UNCHANGED actor
    <3>1. states' \in [Paths -> FileState \cup {None}]
      BY <1>2, <2>2, <2>4 DEF FileState
    <3>2. QED
      BY <1>1, <2>1, <2>4, <3>1, GotoInv
  <2>5. CASE /\ states' = MarkError([states EXCEPT ![p] = "downloading"], p)
             /\ Finish(c, "download_failed")
    <3>1. states' \in [Paths -> FileState \cup {None}]
      BY <1>2, <2>2, <2>5 DEF MarkError, FileState
    <3>2. QED
      BY <1>1, <2>1, <2>5, <3>1, FinishInv DEF Results
  <2>6. QED
    BY <1>6, <2>3, <2>4, <2>5 DEF StartDownload
<1>7. CASE Poll(c)
  <2>1. /\ ~At(c, "idle") /\ ~At(c, "reply") /\ refreshState(p) /\ actor = c
        /\ UNCHANGED <<disk, pending>> /\ unreported' \in SUBSET Paths
    BY <1>2, <1>7 DEF Poll, refreshState, At
  <2>2. CASE d = "local"
    BY <1>1, <1>3, <1>7, <2>1, <2>2, FinishInv DEF Poll, Results
  <2>3. CASE d = "error"
    BY <1>1, <1>3, <1>7, <2>1, <2>3, FinishInv DEF Poll, Results
  <2>4. CASE d \notin {"local", "error"}
    <3> DEFINE r == [calls[c] EXCEPT !.pc = "sleep",
                                     !.wasLocal = @ \/ disk[p] = "local"]
    <3>1. /\ r \in Call /\ r.pc = "sleep" /\ r.path = p
          /\ r.result = calls[c].result
      BY <1>2 DEF Call
    <3>2. calls[c].result = None
      BY <1>2, <2>1 DEF SessionInv, SessionTypeOK, HydrationTypeOK, At
    <3>3. calls' = [calls EXCEPT ![c] = r] /\ actor' = None
      BY <1>7, <2>4 DEF Poll
    <3>4. QED
      BY <1>1, <1>3, <2>1, <3>1, <3>2, <3>3, CallChanges DEF Results
  <2>5. QED
    BY <2>2, <2>3, <2>4
<1>8. CASE Wake(c)
  BY <1>1, <1>2, <1>8, GotoInv DEF Wake, At
<1>9. CASE Timeout(c)
  <2>1. /\ ~At(c, "idle") /\ actor = c /\ UNCHANGED <<disk, pending>>
        /\ unreported' \in SUBSET Paths /\ Finish(c, "timeout")
    BY <1>2, <1>9 DEF Timeout, At
  <2>2. states' \in [Paths -> FileState \cup {None}]
    BY <1>2, <1>9, <2>1 DEF Timeout, MarkError, FileState
  <2>3. QED
    BY <1>1, <2>1, <2>2, FinishInv DEF Results
<1>10. CASE DetectFails(c)
  <2>1. /\ ~At(c, "idle") /\ actor \in {None, c}
        /\ UNCHANGED <<disk, pending, unreported, states>>
        /\ Finish(c, "detector_error")
    BY <1>2, <1>10 DEF DetectFails, At
  <2>2. QED
    BY <1>1, <1>2, <2>1, FinishInv DEF Results
<1>11. CASE TimeoutExpires(c)
  <2>1. /\ calls' = [calls EXCEPT ![c] = [calls[c] EXCEPT !.late = TRUE]]
        /\ UNCHANGED <<disk, pending, unreported, states, actor>>
    BY <1>11 DEF TimeoutExpires
  <2>2. \A k \in Call : LET r == [k EXCEPT !.late = TRUE] IN
                       r \in Call /\ r.pc = k.pc /\ r.path = k.path /\ r.result = k.result
    BY DEF Call
  <2>3. \A e \in Calls : /\ calls'[e] \in Call
                         /\ calls'[e].pc = calls[e].pc
                         /\ calls'[e].path = calls[e].path
                         /\ calls'[e].result = calls[e].result
    BY <1>2, <2>1, <2>2
  <2>4. SessionTypeOK'
    <3>1. calls' \in [Calls -> Call]
      BY <1>2, <2>1, <2>3
    <3>2. HydrationTypeOK'
      BY <1>1, <2>1, <2>3, <3>1 DEF SessionInv, SessionTypeOK, HydrationTypeOK
    <3>3. QED
      BY <1>1, <2>3, <3>2 DEF SessionInv, SessionTypeOK, Waiting, At
  <2>5. ActorExclusive' /\ CallsServed' /\ LocalSeen' /\ NoInvalidTransition'
    BY <1>1, <2>1, <2>3 DEF SessionInv, ActorExclusive, CallsServed, LocalSeen,
                            NoInvalidTransition, Waiting, At
  <2>6. QED
    BY <2>4, <2>5 DEF SessionInv
<1>12. QED
  BY <1>4, <1>5, <1>6, <1>7, <1>8, <1>9, <1>10, <1>11 DEF Within, CallStep

-----------------------------------------------------------------------------
(* The clients, the connections and the daemon's life.                     *)

(* What a client gets to know of an answer is a result.                    *)
LEMMA ResultTyped ==
  ASSUME NEW r \in WireRequest, NEW response \in WireResponse
  PROVE  Interpreted(r, response) \in IpcError \cup {"ok", "local"}
<1> DEFINE a == r.type = "ping" /\ response.type = "pong"
           b == r.type = "query_state" /\ response.type = "state"
           e == r.type = "hydrate" /\ response.type = "hydration_result"
<1>1. CASE a
  BY <1>1 DEF Interpreted, IpcError
<1>2. CASE b
  BY <1>2 DEF Interpreted, IpcError
<1>3. CASE e
  BY <1>3 DEF Interpreted, IpcError
<1>4. CASE ~a /\ ~b /\ ~e
  BY <1>4 DEF Interpreted, IpcError
<1>5. QED
  BY <1>1, <1>2, <1>3, <1>4

LEMMA DoneTyped ==
  ASSUME NEW result \in IpcError \cup {"ok", "local"}
  PROVE  /\ Done(result) \in Client /\ Done(result).pc = "done"
         /\ Done(result).sawLocal = FALSE /\ Done(result).result = result
         /\ result # None
  BY DEF Done, NoClient, Client

(* A client that waits no longer has no more obligations: its record       *)
(* becomes that of a client that is done, or idle again.                   *)
LEMMA ClientRests ==
  ASSUME SessionInv, NEW c \in Calls, NEW r \in Client,
         client' = [client EXCEPT ![c] = r],
         r.pc \in {"idle", "done"}, ~r.sawLocal,
         r.pc = "done" <=> r.result # None,
         UNCHANGED <<vars, daemonUp, conn>>
  PROVE  SessionInv'
<1> USE DEF SessionInv, vars
<1>1. SessionTypeOK'
  BY DEF SessionTypeOK, HydrationTypeOK, Waiting, At
<1>2. ActorExclusive' /\ CallsServed' /\ NoInvalidTransition'
  BY DEF ActorExclusive, CallsServed, NoInvalidTransition, At
<1>3. LocalSeen'
  BY DEF LocalSeen, SessionTypeOK, Waiting
<1>4. QED
  BY <1>1, <1>2, <1>3

LEMMA SendInv ==
  ASSUME SessionInv, NEW c \in Calls, NEW r \in WireRequest, Send(c, r)
  PROVE  SessionInv'
<1> USE DEF SessionInv
<1>1. CASE ~daemonUp
  BY <1>1, DoneTyped, ClientRests DEF Send, IpcError
<1>2. CASE daemonUp
  <2> DEFINE seen == r.path # None /\ disk[r.path] = "local"
             k == [pc |-> "waiting", sawLocal |-> seen, result |-> None]
  <2>1. k \in Client
    BY DEF Client
  <2>2. /\ client' = [client EXCEPT ![c] = k] /\ conn' = [conn EXCEPT ![c] = r]
        /\ UNCHANGED <<vars, daemonUp>>
    BY <1>2 DEF Send, NoClient, SessionTypeOK
  <2>3. At(c, "idle") /\ calls[c].result = None
    BY DEF Send, CallsServed, SessionTypeOK, HydrationTypeOK, At
  <2>4. SessionTypeOK'
    BY <1>2, <2>1, <2>2 DEF SessionTypeOK, HydrationTypeOK, Waiting, At, vars
  <2>5. ActorExclusive' /\ CallsServed' /\ NoInvalidTransition'
    BY <2>2, <2>3 DEF ActorExclusive, CallsServed, NoInvalidTransition, At, vars,
                      SessionTypeOK
  <2>6. LocalSeen'
    BY <2>1, <2>2, <2>3 DEF LocalSeen, SessionTypeOK, Waiting, vars
  <2>7. QED
    BY <2>4, <2>5, <2>6
<1>3. QED
  BY <1>1, <1>2

(* The end of a connection: its client has its answer and its call is over.*)
LEMMA AnswerInv ==
  ASSUME SessionInv, NEW c \in Calls, NEW response \in WireResponse,
         Answers(c, response), actor # c,
         NEW n \in Call, calls' = [calls EXCEPT ![c] = n],
         n.pc = "idle", n.result = None,
         states' \in [Paths -> FileState \cup {None}],
         \A e \in Calls : At(e, "download") => states' = states,
         UNCHANGED <<disk, pending, actor>>, unreported' \in SUBSET Paths
  PROVE  SessionInv'
<1> USE DEF SessionInv
<1> DEFINE k == Done(Interpreted(conn[c], response))
<1>1. conn[c] \in WireRequest
  BY DEF Answers, SessionTypeOK
<1>2. k \in Client /\ k.pc = "done" /\ ~k.sawLocal /\ k.result # None
  BY <1>1, ResultTyped, DoneTyped
<1>3. /\ calls' \in [Calls -> Call] /\ calls'[c] = n
      /\ \A e \in Calls : e # c => calls'[e] = calls[e]
  BY DEF SessionTypeOK, HydrationTypeOK
<1>4. /\ client' = [client EXCEPT ![c] = k] /\ conn' = [conn EXCEPT ![c] = None]
      /\ daemonUp' = daemonUp
  BY DEF Answers
<1>5. SessionTypeOK'
  <2>1. HydrationTypeOK'
    BY <1>3 DEF SessionTypeOK, HydrationTypeOK
  <2>2. QED
    BY <1>2, <1>3, <1>4, <2>1 DEF SessionTypeOK, HydrationTypeOK, Waiting, At
<1>6. ActorExclusive'
  BY <1>3 DEF ActorExclusive, At, SessionTypeOK, HydrationTypeOK
<1>7. CallsServed'
  BY <1>3, <1>4 DEF CallsServed, At, SessionTypeOK, HydrationTypeOK
<1>8. LocalSeen'
  BY <1>2, <1>3, <1>4 DEF LocalSeen, Waiting, SessionTypeOK, HydrationTypeOK
<1>9. NoInvalidTransition'
  BY <1>3 DEF NoInvalidTransition, Results
<1>10. QED
  BY <1>5, <1>6, <1>7, <1>8, <1>9

(* Pings, queries, the start and the answer of a hydrate.                  *)
LEMMA ServeInv ==
  ASSUME SessionInv, NEW c \in Calls,
         ServePing(c) \/ ServeQuery(c) \/ ServeHydrate(c) \/ AnswerHydrate(c)
  PROVE  SessionInv'
<1> USE DEF SessionInv
<1>1. /\ calls \in [Calls -> Call] /\ conn[c] \in WireRequest \cup {None}
      /\ disk \in [Paths -> FileState] /\ states \in [Paths -> FileState \cup {None}]
      /\ unreported \in SUBSET Paths /\ NoCall \in Call
  BY DEF SessionTypeOK, HydrationTypeOK, NoCall, Call
<1>2. ASSUME conn[c] # None, conn[c].type # "hydrate"
      PROVE  /\ actor # c /\ calls = [calls EXCEPT ![c] = calls[c]]
             /\ calls[c] \in Call /\ calls[c].pc = "idle" /\ calls[c].result = None
  <2>1. At(c, "idle")
    BY <1>2 DEF CallsServed
  <2>2. actor # c
    BY <2>1 DEF ActorExclusive, At
  <2>3. QED
    BY <1>1, <2>1, <2>2 DEF At, SessionTypeOK, HydrationTypeOK
<1>3. CASE ServePing(c)
  <2>1. [type |-> "pong"] \in WireResponse
    BY DEF WireResponse
  <2>2. QED
    BY <1>1, <1>2, <1>3, <2>1, AnswerInv DEF ServePing, Asks, vars
<1>4. CASE ServeQuery(c)
  <2> DEFINE p == conn[c].path
  <2>1. conn[c] # None /\ conn[c].type = "query_state" /\ p \in Paths
    BY <1>1, <1>4 DEF ServeQuery, Asks, WireRequest
  <2>2. CASE QueryState(p) /\ Answers(c, [type |-> "state", state |-> Detected(p)])
    <3>1. [type |-> "state", state |-> Detected(p)] \in WireResponse
      BY <1>1, <2>1, DetectedState DEF WireResponse
    <3>2. /\ states' \in [Paths -> FileState \cup {None}] /\ actor = None
          /\ unreported' \in SUBSET Paths
      BY <1>1, <2>1, <2>2, DetectedState DEF QueryState, refreshState
    <3>3. \A e \in Calls : ~At(e, "download")
      BY <3>2 DEF ActorExclusive, At
    <3>4. QED
      BY <1>2, <2>1, <2>2, <3>1, <3>2, <3>3, AnswerInv DEF QueryState
  <2>3. CASE Answers(c, [type |-> "state", state |-> "unknown"]) /\ UNCHANGED vars
    <3>1. [type |-> "state", state |-> "unknown"] \in WireResponse
      BY DEF WireResponse, FileState
    <3>2. QED
      BY <1>1, <1>2, <2>1, <2>3, <3>1, AnswerInv DEF vars
  <2>4. QED
    BY <1>4, <2>2, <2>3 DEF ServeQuery
<1>5. CASE ServeHydrate(c)
  <2> DEFINE n == [NoCall EXCEPT !.pc = "called", !.path = conn[c].path]
  <2>1. conn[c] # None /\ conn[c].type = "hydrate" /\ conn[c].path \in Paths
    BY <1>1, <1>5 DEF ServeHydrate, Asks, WireRequest
  <2>2. n \in Call /\ n.pc = "called" /\ n.path = conn[c].path /\ n.result = None
    BY <1>1, <2>1, CallStarted DEF NoCall
  <2>3. /\ calls' = [calls EXCEPT ![c] = n] /\ At(c, "idle")
        /\ UNCHANGED <<disk, pending, unreported, states, actor>>
        /\ UNCHANGED <<daemonUp, conn, client>>
    BY <1>5 DEF ServeHydrate, Request
  <2> HIDE DEF n
  <2>4. SessionTypeOK'
    BY <1>1, <2>1, <2>2, <2>3 DEF SessionTypeOK, HydrationTypeOK, Waiting, At
  <2>5. ActorExclusive' /\ CallsServed' /\ LocalSeen' /\ NoInvalidTransition'
    BY <1>1, <2>1, <2>2, <2>3 DEF ActorExclusive, CallsServed, LocalSeen,
                            NoInvalidTransition, Results, Waiting, At
  <2>6. QED
    BY <2>4, <2>5
<1>6. CASE AnswerHydrate(c)
  <2> DEFINE response == [type |-> "hydration_result",
                          success |-> calls[c].result = "local"]
  <2>1. response \in WireResponse
    BY DEF WireResponse
  <2>2. actor # c /\ NoCall.pc = "idle" /\ NoCall.result = None
    BY <1>6 DEF AnswerHydrate, Reply, ActorExclusive, At, NoCall
  <2>3. QED
    BY <1>1, <1>6, <2>1, <2>2, AnswerInv DEF AnswerHydrate, Reply
<1>7. QED
  BY <1>3, <1>4, <1>5, <1>6

(* The daemon ends, by itself or in the middle of an answer.               *)
LEMMA DiesInv ==
  ASSUME SessionInv, Dies
  PROVE  SessionInv'
<1> USE DEF SessionInv
<1>1. /\ calls' = [c \in Calls |-> NoCall] /\ conn' = [c \in Calls |-> None]
      /\ actor' = None /\ states' = [p \in Paths |-> None] /\ daemonUp' = FALSE
      /\ unreported' = {} /\ UNCHANGED <<disk, pending>>
  BY DEF Dies
<1>2. NoCall \in Call /\ NoCall.pc = "idle" /\ NoCall.result = None
  BY DEF NoCall, Call
<1>3. \A c \in Calls : client'[c] \in Client /\ ~Waiting(c)' /\ ~client'[c].sawLocal
                       /\ (client'[c].pc = "done" <=> client'[c].result # None)
  <2> SUFFICES ASSUME NEW c \in Calls
               PROVE  /\ client'[c] \in Client /\ ~Waiting(c)' /\ ~client'[c].sawLocal
                      /\ (client'[c].pc = "done" <=> client'[c].result # None)
    OBVIOUS
  <2>1. CASE Waiting(c)
    BY <2>1, DoneTyped DEF Dies, Waiting, IpcError
  <2>2. CASE ~Waiting(c)
    BY <2>2 DEF Dies, SessionTypeOK, LocalSeen, Waiting
  <2>3. QED
    BY <2>1, <2>2
<1>4. client' \in [Calls -> Client]
  BY <1>3 DEF Dies
<1>5. SessionTypeOK'
  BY <1>1, <1>2, <1>3, <1>4 DEF SessionTypeOK, HydrationTypeOK, Waiting, At
<1>6. ActorExclusive' /\ CallsServed' /\ LocalSeen' /\ NoInvalidTransition'
  BY <1>1, <1>2, <1>3 DEF ActorExclusive, CallsServed, LocalSeen,
                          NoInvalidTransition, Results, Waiting, At
<1>7. QED
  BY <1>5, <1>6

(* A client that sees its file local.                                      *)
LEMMA ClientSees ==
  \A k \in Client :
    LET seen == [k EXCEPT !.sawLocal = TRUE] IN
    /\ k.sawLocal \in BOOLEAN /\ seen \in Client /\ seen.sawLocal = TRUE
    /\ seen.pc = k.pc /\ seen.result = k.result
  BY DEF Client

(* iCloud changes a file: whoever waits for it has seen it if it is local. *)
LEMMA FileChangesInv ==
  ASSUME SessionInv, NEW p \in Paths, FileChanges(p)
  PROVE  SessionInv'
<1> USE DEF SessionInv
<1>1. /\ UNCHANGED <<states, actor, calls, daemonUp, conn>>
      /\ disk' \in [Paths -> FileState] /\ pending' \in SUBSET Paths
      /\ unreported' \in SUBSET Paths
      /\ \A q \in Paths : q # p => disk'[q] = disk[q]
  BY DEF FileChanges, DiskChanges, SessionTypeOK, HydrationTypeOK
<1>2. \A c \in Calls :
        /\ client'[c] \in Client /\ client'[c].pc = client[c].pc
        /\ client'[c].result = client[c].result
        /\ client'[c].sawLocal =
             (client[c].sawLocal \/ (/\ Waiting(c) /\ conn[c].path = p
                                     /\ disk'[p] = "local"))
  BY ClientSees DEF FileChanges, SessionTypeOK
<1>3. client' \in [Calls -> Client]
  BY <1>2 DEF FileChanges
<1>4. SessionTypeOK'
  BY <1>1, <1>2, <1>3 DEF SessionTypeOK, HydrationTypeOK, Waiting, At
<1>5. ActorExclusive' /\ CallsServed' /\ NoInvalidTransition'
  BY <1>1 DEF ActorExclusive, CallsServed, NoInvalidTransition, At
<1>6. LocalSeen'
  <2>1. \A c \in Calls : Waiting(c) => conn[c] \in WireRequest
    BY DEF SessionTypeOK
  <2>2. \A c \in Calls : Waiting(c) => conn[c].path \in Paths \cup {None}
    BY <2>1 DEF WireRequest
  <2>3. QED
    BY <1>1, <1>2, <2>2 DEF LocalSeen, Waiting
<1>7. QED
  BY <1>4, <1>5, <1>6

(* The actor's other methods need the actor, so no call is about to        *)
(* download when they touch the map.                                       *)
LEMMA MapChanges ==
  ASSUME SessionInv, actor = None,
         states' \in [Paths -> FileState \cup {None}], pending' \in SUBSET Paths,
         unreported' \in SUBSET Paths,
         UNCHANGED <<disk, actor, calls, daemonUp, conn, client>>
  PROVE  SessionInv'
<1> USE DEF SessionInv
<1>1. SessionTypeOK'
  BY DEF SessionTypeOK, HydrationTypeOK, Waiting, At
<1>2. ActorExclusive' /\ CallsServed' /\ LocalSeen' /\ NoInvalidTransition'
  BY DEF ActorExclusive, CallsServed, LocalSeen, NoInvalidTransition, Waiting, At
<1>3. QED
  BY <1>1, <1>2

LEMMA RestartsInv ==
  ASSUME SessionInv, Restarts
  PROVE  SessionInv'
<1> USE DEF SessionInv
<1>1. SessionTypeOK'
  BY DEF Restarts, SessionTypeOK, HydrationTypeOK, Waiting, At
<1>2. ActorExclusive' /\ CallsServed' /\ LocalSeen' /\ NoInvalidTransition'
  BY DEF Restarts, ActorExclusive, CallsServed, LocalSeen, NoInvalidTransition,
         Waiting, At
<1>3. QED
  BY <1>1, <1>2

LEMMA StepInv == SessionInv /\ [SessionNext]_sessionVars => SessionInv'
<1> SUFFICES ASSUME SessionInv, [SessionNext]_sessionVars PROVE SessionInv'
  OBVIOUS
<1>1. CASE UNCHANGED sessionVars
  BY <1>1 DEF SessionInv, SessionTypeOK, HydrationTypeOK, ActorExclusive, CallsServed,
              LocalSeen, NoInvalidTransition, Waiting, At, sessionVars
<1>2. ASSUME NEW c \in Calls, ReadTimeout(c) \/ Used(c)
      PROVE  SessionInv'
  <2>1. NoClient \in Client /\ NoClient.pc = "idle" /\ ~NoClient.sawLocal
        /\ NoClient.result = None
    BY DEF NoClient, Client
  <2>2. CASE ReadTimeout(c)
    BY <2>2, DoneTyped, ClientRests DEF ReadTimeout, IpcError
  <2>3. CASE Used(c)
    BY <2>1, <2>3, ClientRests DEF Used
  <2>4. QED
    BY <1>2, <2>2, <2>3
<1>3. ASSUME NEW p \in Paths, Within(handleEvent(p) \/ stopTracking(p))
      PROVE  SessionInv'
  <2>1. /\ disk \in [Paths -> FileState] /\ states \in [Paths -> FileState \cup {None}]
        /\ pending \in SUBSET Paths /\ unreported \in SUBSET Paths
    BY DEF SessionInv, SessionTypeOK, HydrationTypeOK
  <2>2. /\ states' \in [Paths -> FileState \cup {None}]
        /\ pending' \in SUBSET Paths /\ unreported' \in SUBSET Paths
    BY <1>3, <2>1, DetectedState DEF Within, handleEvent, stopTracking, refreshState
  <2>3. /\ actor = None
        /\ UNCHANGED <<disk, actor, calls, daemonUp, conn, client>>
    BY <1>3 DEF Within, handleEvent, stopTracking
  <2>4. QED
    BY <2>2, <2>3, MapChanges
<1>4. ASSUME NEW c \in Calls, Serve(c)
      PROVE  SessionInv'
  BY <1>4, ServeInv, DiesInv DEF Serve, BrokenPipe
<1>5. QED
  BY <1>1, <1>2, <1>3, <1>4, SendInv, CallStepInv, FileChangesInv, DiesInv, RestartsInv
  DEF SessionNext, Stops

-----------------------------------------------------------------------------
(* SessionInv holds in every state, for any files and number of clients.   *)
THEOREM SessionInvariant == SessionSpec => []SessionInv
<1>1. QED
  BY InitInv, StepInv, PTL DEF SessionSpec

(* No hydrate of HydrationManager ever dies of its own state machine,      *)
(* however calls, events, queries and restarts interleave.                 *)
THEOREM SessionNoInvalidTransition == SessionSpec => []NoInvalidTransition
<1>1. SessionInv => NoInvalidTransition
  BY DEF SessionInv
<1>2. QED
  BY <1>1, SessionInvariant, PTL

(* Whatever state the path is in, a timeout and a refused download leave   *)
(* it in state error: the `try?` of waitForDownload hides nothing.         *)
THEOREM SessionFailureRecorded == SessionSpec => FailureRecorded
<1>1. SessionInv => [FailureStep]_vars
  <2> SUFFICES ASSUME SessionInv, NEW c \in Calls,
                      Timeout(c) \/ (/\ StartDownload(c)
                                     /\ calls'[c].result = "download_failed"),
                      calls'[c].pc = "reply"
               PROVE  states'[calls[c].path] = "error"
    BY DEF FailureStep
  <2> DEFINE p == calls[c].path
  <2>1. /\ p \in Paths /\ states \in [Paths -> FileState \cup {None}]
        /\ calls \in [Calls -> Call]
    BY DEF SessionInv, SessionTypeOK, HydrationTypeOK, Timeout, StartDownload, At
  <2>2. CASE Timeout(c)
    <3>1. states[p] # "error" => CanTransition(states, p, "error")
      BY <2>1 DEF CanTransition, CurrentState, validTransitions, FileState
    <3>2. QED
      BY <2>1, <2>2, <3>1 DEF Timeout, MarkError
  <2>3. CASE StartDownload(c) /\ calls'[c].result = "download_failed"
    <3>1. CASE Goto(c, "wait")
      BY <2>1, <3>1 DEF Goto
    <3>2. CASE Finish(c, "invalid_transition")
      BY <2>1, <2>3, <3>2 DEF Finish
    <3>3. CASE states' = MarkError([states EXCEPT ![p] = "downloading"], p)
      BY <2>1, <3>3 DEF MarkError, CanTransition, CurrentState, validTransitions
    <3>4. QED
      BY <2>3, <3>1, <3>2, <3>3 DEF StartDownload
  <2>4. QED
    BY <2>2, <2>3
<1>2. QED
  BY <1>1, SessionInvariant, PTL DEF FailureRecorded

-----------------------------------------------------------------------------
(* The refinement: each step of the session is one of the service, or none.*)

(* How a client of the session looks to the service.                       *)
LEMMA MappedClient ==
  ASSUME NEW c \in Calls
  PROVE  /\ client[c].pc = "waiting" =>
              ServiceCall[c] = [pc |-> "asked", path |-> conn[c].path,
                                sawLocal |-> client[c].sawLocal,
                                toldLocal |-> client[c].result = "local"]
         /\ client[c].pc = "done" =>
              ServiceCall[c] = [pc |-> "answered", path |-> None,
                                sawLocal |-> client[c].sawLocal,
                                toldLocal |-> client[c].result = "local"]
         /\ client[c].pc = "idle" =>
              ServiceCall[c] = [pc |-> "idle", path |-> None,
                                sawLocal |-> client[c].sawLocal,
                                toldLocal |-> client[c].result = "local"]
  BY DEF ServiceCall, Waiting

LEMMA MappedChange ==
  ASSUME NEW c \in Calls,
         \A e \in Calls : e # c => client'[e] = client[e] /\ conn'[e] = conn[e]
  PROVE  ServiceCall' = [ServiceCall EXCEPT ![c] = ServiceCall'[c]]
  BY DEF ServiceCall, Waiting

LEMMA MappedStutter ==
  ASSUME UNCHANGED <<disk, client, conn>>
  PROVE  UNCHANGED Service!serviceVars
  BY DEF Service!serviceVars, ServiceCall, Waiting

LEMMA MappedInit == SessionInit => Service!Init
<1> SUFFICES ASSUME SessionInit PROVE Service!Init
  OBVIOUS
<1>1. \A c \in Calls : ServiceCall[c] = Service!NoRequest
  <2> SUFFICES ASSUME NEW c \in Calls PROVE ServiceCall[c] = Service!NoRequest
    OBVIOUS
  <2>1. client[c].pc = "idle" /\ client[c].sawLocal = FALSE /\ client[c].result = None
    BY DEF SessionInit, NoClient
  <2>2. QED
    BY <2>1, MappedClient DEF Service!NoRequest
<1>2. ServiceCall = [c \in Calls |-> Service!NoRequest]
  BY <1>1 DEF ServiceCall
<1>3. QED
  BY <1>2 DEF SessionInit, Init, Service!Init

(* A client that has its result: whether it was told that the file is      *)
(* local is all that the service sees of it.                               *)
LEMMA MappedDone ==
  ASSUME SessionInv, NEW c \in Calls,
         NEW result \in IpcError \cup {"ok", "local"},
         NEW told \in BOOLEAN, told <=> result = "local",
         client' = [client EXCEPT ![c] = Done(result)],
         \A e \in Calls : e # c => conn'[e] = conn[e]
  PROVE  ServiceCall' = [ServiceCall EXCEPT ![c] = Service!Answered(told)]
<1>1. client \in [Calls -> Client]
  BY DEF SessionInv, SessionTypeOK
<1>2. client'[c] = Done(result) /\ \A e \in Calls : e # c => client'[e] = client[e]
  BY <1>1
<1>3. client'[c].pc = "done" /\ client'[c].sawLocal = FALSE /\ client'[c].result = result
  BY <1>2, DoneTyped
<1>4. ServiceCall'[c] = Service!Answered(told)
  BY <1>3 DEF ServiceCall, Waiting, Service!Answered
<1>5. QED
  BY <1>2, <1>4, MappedChange

(* An answer that says "local" goes to a client that has seen the file so. *)
LEMMA MappedAnswer ==
  ASSUME SessionInv, NEW c \in Calls, NEW response \in WireResponse,
         Answers(c, response), UNCHANGED disk,
         Interpreted(conn[c], response) = "local" => client[c].sawLocal
  PROVE  Service!Next
<1> DEFINE result == Interpreted(conn[c], response)
           told == result = "local"
<1>1. conn[c] \in WireRequest
  BY DEF Answers, SessionInv, SessionTypeOK
<1>2. result \in IpcError \cup {"ok", "local"}
  BY <1>1, ResultTyped
<1>3. ServiceCall' = [ServiceCall EXCEPT ![c] = Service!Answered(told)]
  <2>1. /\ client' = [client EXCEPT ![c] = Done(result)]
        /\ \A e \in Calls : e # c => conn'[e] = conn[e]
    BY DEF Answers, SessionInv, SessionTypeOK
  <2>2. QED
    BY <1>2, <2>1, MappedDone
<1>4. ServiceCall[c].pc = "asked" /\ ServiceCall[c].sawLocal = client[c].sawLocal
  BY DEF Answers, ServiceCall, Waiting
<1>5. Service!Answer(c, told)
  BY <1>3, <1>4 DEF Service!Answer
<1>6. told \in BOOLEAN
  OBVIOUS
<1>7. QED
  BY <1>5, <1>6 DEF Service!Next

LEMMA MappedServe ==
  ASSUME SessionInv, NEW c \in Calls,
         ServePing(c) \/ ServeQuery(c) \/ AnswerHydrate(c)
  PROVE  Service!Next
<1>1. /\ conn[c] \in WireRequest \cup {None} /\ disk \in [Paths -> FileState]
  BY DEF SessionInv, SessionTypeOK, HydrationTypeOK
<1>2. CASE ServePing(c)
  <2>1. [type |-> "pong"] \in WireResponse
    BY DEF WireResponse
  <2>2. Interpreted(conn[c], [type |-> "pong"]) # "local"
    BY <1>2 DEF ServePing, Asks, Interpreted
  <2>3. QED
    BY <1>2, <2>1, <2>2, MappedAnswer DEF ServePing, vars
<1>3. CASE ServeQuery(c)
  <2> DEFINE p == conn[c].path
  <2>1. conn[c] # None /\ conn[c].type = "query_state" /\ p \in Paths
    BY <1>1, <1>3 DEF ServeQuery, Asks, WireRequest
  <2>2. ASSUME NEW s \in FileState, Answers(c, [type |-> "state", state |-> s]),
               UNCHANGED disk, s = "local" => disk[p] = "local"
        PROVE  Service!Next
    <3> DEFINE response == [type |-> "state", state |-> s]
    <3>1. response \in WireResponse
      BY DEF WireResponse
    <3>2. Interpreted(conn[c], response) = IF s = "local" THEN "local" ELSE "ok"
      BY <2>1 DEF Interpreted
    <3>3. s = "local" => client[c].sawLocal
      BY <2>1, <2>2 DEF SessionInv, LocalSeen, Answers
    <3>4. QED
      BY <2>2, <3>1, <3>2, <3>3, MappedAnswer
  <2>3. CASE QueryState(p) /\ Answers(c, [type |-> "state", state |-> Detected(p)])
    BY <1>1, <2>1, <2>2, <2>3, DetectedState DEF QueryState
  <2>4. CASE Answers(c, [type |-> "state", state |-> "unknown"]) /\ UNCHANGED vars
    BY <2>2, <2>4 DEF vars, FileState
  <2>5. QED
    BY <1>3, <2>3, <2>4 DEF ServeQuery
<1>4. CASE AnswerHydrate(c)
  <2> DEFINE success == calls[c].result = "local"
             response == [type |-> "hydration_result", success |-> success]
  <2>1. response \in WireResponse
    BY DEF WireResponse
  <2>2. conn[c].type = "hydrate"
    BY <1>4 DEF AnswerHydrate, Reply, At, SessionInv, CallsServed
  <2>3. Interpreted(conn[c], response) =
          IF success THEN "local" ELSE "failed"
    BY <2>2 DEF Interpreted
  <2>4. success => client[c].sawLocal
    BY <1>4 DEF AnswerHydrate, Answers, SessionInv, LocalSeen
  <2>5. QED
    BY <1>4, <2>1, <2>3, <2>4, MappedAnswer DEF AnswerHydrate, Reply
<1>5. QED
  BY <1>2, <1>3, <1>4

(* A request reaches the daemon, or finds it dead.                         *)
LEMMA MappedSend ==
  ASSUME SessionInv, NEW c \in Calls, NEW r \in WireRequest, Send(c, r)
  PROVE  Service!Next
<1>1. /\ client \in [Calls -> Client] /\ conn \in [Calls -> WireRequest \cup {None}]
      /\ client[c].pc = "idle" /\ UNCHANGED disk /\ r.path \in Paths \cup {None}
  BY DEF SessionInv, SessionTypeOK, Send, NoClient, vars, WireRequest
<1>2. ServiceCall[c].pc = "idle"
  BY <1>1 DEF ServiceCall, Waiting
<1>3. CASE daemonUp
  <2> DEFINE seen == r.path # None /\ disk[r.path] = "local"
             k == [pc |-> "waiting", sawLocal |-> seen, result |-> None]
  <2>1. client' = [client EXCEPT ![c] = k] /\ conn' = [conn EXCEPT ![c] = r]
    BY <1>3 DEF Send, NoClient, SessionInv, SessionTypeOK
  <2>2. ServiceCall'[c] = [pc |-> "asked", path |-> r.path, sawLocal |-> seen,
                           toldLocal |-> FALSE]
    BY <1>1, <2>1 DEF ServiceCall, Waiting
  <2>3. ServiceCall' = [ServiceCall EXCEPT ![c] = ServiceCall'[c]]
    BY <1>1, <2>1, MappedChange
  <2>4. Service!Ask(c, r.path)
    BY <1>1, <1>2, <2>2, <2>3 DEF Service!Ask
  <2>5. QED
    BY <1>1, <2>4 DEF Service!Next
<1>4. CASE ~daemonUp
  <2>1. client' = [client EXCEPT ![c] = Done("lost")] /\ conn' = conn
    BY <1>4 DEF Send
  <2>2. ServiceCall' = [ServiceCall EXCEPT ![c] = Service!Answered(FALSE)]
    <3>1. "lost" \in IpcError /\ ("lost" = "local") = FALSE
      BY DEF IpcError
    <3>2. QED
      BY <2>1, <3>1, MappedDone
  <2>3. Service!Refuse(c)
    BY <1>1, <1>2, <2>2 DEF Service!Refuse
  <2>4. QED
    BY <2>3 DEF Service!Next
<1>5. QED
  BY <1>3, <1>4

(* A client gives up, or takes its result.                                 *)
LEMMA MappedClientStep ==
  ASSUME SessionInv, NEW c \in Calls, ReadTimeout(c) \/ Used(c)
  PROVE  Service!Next
<1>1. client \in [Calls -> Client] /\ UNCHANGED <<disk, conn>>
  BY DEF SessionInv, SessionTypeOK, ReadTimeout, Used, vars
<1>2. CASE ReadTimeout(c)
  <2>1. ServiceCall' = [ServiceCall EXCEPT ![c] = Service!Answered(FALSE)]
    <3>1. "failed" \in IpcError /\ ("failed" = "local") = FALSE
      BY DEF IpcError
    <3>2. client' = [client EXCEPT ![c] = Done("failed")]
      BY <1>2 DEF ReadTimeout
    <3>3. QED
      BY <1>1, <3>1, <3>2, MappedDone
  <2>2. ServiceCall[c].pc = "asked"
    BY <1>2 DEF ReadTimeout, ServiceCall, Waiting
  <2>3. Service!Answer(c, FALSE)
    BY <1>1, <2>1, <2>2 DEF Service!Answer
  <2>4. QED
    BY <2>3 DEF Service!Next
<1>3. CASE Used(c)
  <2>1. /\ ServiceCall[c].pc = "answered" /\ client' = [client EXCEPT ![c] = NoClient]
    BY <1>3 DEF Used, ServiceCall, Waiting
  <2>2. ServiceCall'[c] = Service!NoRequest
    BY <1>1, <2>1 DEF ServiceCall, Waiting, NoClient, Service!NoRequest
  <2>3. ServiceCall' = [ServiceCall EXCEPT ![c] = ServiceCall'[c]]
    BY <1>1, <2>1, MappedChange
  <2>4. Service!Take(c)
    BY <1>1, <2>1, <2>2, <2>3 DEF Service!Take
  <2>5. QED
    BY <2>4 DEF Service!Next
<1>4. QED
  BY <1>2, <1>3

(* The end of the daemon abandons everybody who waits.                     *)
LEMMA MappedDies ==
  ASSUME SessionInv, Dies
  PROVE  Service!Next
<1> DEFINE abandoned(c) == IF ServiceCall[c].pc = "asked"
                           THEN Service!Answered(FALSE) ELSE ServiceCall[c]
<1>1. client \in [Calls -> Client] /\ UNCHANGED disk
  BY DEF SessionInv, SessionTypeOK, Dies
<1>2. \A c \in Calls : ServiceCall'[c] = abandoned(c)
  <2> SUFFICES ASSUME NEW c \in Calls PROVE ServiceCall'[c] = abandoned(c)
    OBVIOUS
  <2>1. CASE Waiting(c)
    <3>1. client'[c] = Done("lost")
      BY <2>1 DEF Dies
    <3>2. /\ client'[c].pc = "done" /\ client'[c].sawLocal = FALSE
          /\ client'[c].result = "lost"
      BY <3>1, DoneTyped DEF IpcError
    <3>3. ServiceCall'[c] = Service!Answered(FALSE)
      BY <3>2 DEF ServiceCall, Waiting, Service!Answered
    <3>4. ServiceCall[c].pc = "asked"
      BY <2>1 DEF ServiceCall, Waiting
    <3>5. QED
      BY <3>3, <3>4
  <2>2. CASE ~Waiting(c)
    <3>1. client'[c] = client[c]
      BY <2>2 DEF Dies
    <3>2. ServiceCall'[c] = ServiceCall[c]
      BY <2>2, <3>1 DEF ServiceCall, Waiting
    <3>3. ServiceCall[c].pc # "asked"
      BY <2>2 DEF ServiceCall
    <3>4. QED
      BY <3>2, <3>3
  <2>3. QED
    BY <2>1, <2>2
<1>3. ServiceCall' = [c \in Calls |-> abandoned(c)]
  <2>1. ServiceCall' = [c \in Calls |-> ServiceCall'[c]]
    BY DEF ServiceCall
  <2>2. QED
    BY <1>2, <2>1
<1>4. Service!Abandon
  BY <1>1, <1>3 DEF Service!Abandon
<1>5. QED
  BY <1>4 DEF Service!Next

(* Whoever waits for a file sees each of its states, and so does the       *)
(* service.                                                                *)
LEMMA MappedFileChanges ==
  ASSUME SessionInv, NEW p \in Paths, FileChanges(p)
  PROVE  Service!Next
<1> DEFINE s == disk'[p]
           seen(c) == ServiceCall[c].sawLocal \/
                        (/\ ServiceCall[c].pc = "asked" /\ ServiceCall[c].path = p
                         /\ s = "local")
<1>1. /\ client \in [Calls -> Client] /\ UNCHANGED conn
      /\ s \in FileState /\ disk' = [disk EXCEPT ![p] = s]
  BY DEF SessionInv, SessionTypeOK, HydrationTypeOK, FileChanges, DiskChanges
<1>2. \A c \in Calls :
        /\ client'[c].pc = client[c].pc /\ client'[c].result = client[c].result
        /\ client'[c].sawLocal =
             (client[c].sawLocal \/ (/\ Waiting(c) /\ conn[c].path = p
                                     /\ s = "local"))
  <2> SUFFICES ASSUME NEW c \in Calls
               PROVE  /\ client'[c].pc = client[c].pc
                      /\ client'[c].result = client[c].result
                      /\ client'[c].sawLocal =
                           (client[c].sawLocal \/ (/\ Waiting(c) /\ conn[c].path = p
                                                   /\ s = "local"))
    OBVIOUS
  <2>1. client[c] \in Client
    BY <1>1
  <2>2. CASE Waiting(c) /\ conn[c].path = p /\ s = "local"
    <3>1. client'[c] = [client[c] EXCEPT !.sawLocal = TRUE]
      BY <2>2 DEF FileChanges
    <3>2. QED
      BY <2>1, <2>2, <3>1, ClientSees
  <2>3. CASE ~(Waiting(c) /\ conn[c].path = p /\ s = "local")
    <3>1. client'[c] = client[c]
      BY <2>3 DEF FileChanges
    <3>2. QED
      BY <2>1, <2>3, <3>1, ClientSees
  <2>4. QED
    BY <2>2, <2>3
<1>3. \A c \in Calls : ServiceCall'[c] = [ServiceCall[c] EXCEPT !.sawLocal = seen(c)]
  <2> SUFFICES ASSUME NEW c \in Calls
               PROVE  ServiceCall'[c] = [ServiceCall[c] EXCEPT !.sawLocal = seen(c)]
    OBVIOUS
  <2>1. seen(c) = (client[c].sawLocal \/ (/\ Waiting(c) /\ conn[c].path = p
                                          /\ s = "local"))
    <3>1. ServiceCall[c].sawLocal = client[c].sawLocal
      BY DEF ServiceCall
    <3>2. /\ Waiting(c) => ServiceCall[c].pc = "asked"
                           /\ ServiceCall[c].path = conn[c].path
          /\ ~Waiting(c) => ServiceCall[c].pc # "asked"
      BY DEF ServiceCall, Waiting
    <3>3. QED
      BY <1>1, <3>1, <3>2 DEF Client
  <2>2. CASE Waiting(c)
    BY <1>1, <1>2, <2>1, <2>2 DEF ServiceCall, Waiting
  <2>3. CASE client[c].pc = "done"
    BY <1>1, <1>2, <2>1, <2>3 DEF ServiceCall, Waiting
  <2>4. CASE client[c].pc \notin {"waiting", "done"}
    BY <1>1, <1>2, <2>1, <2>4 DEF ServiceCall, Waiting
  <2>5. QED
    BY <2>2, <2>3, <2>4 DEF Waiting
<1>4. ServiceCall' = [c \in Calls |-> [ServiceCall[c] EXCEPT !.sawLocal = seen(c)]]
  <2>1. ServiceCall' = [c \in Calls |-> ServiceCall'[c]]
    BY DEF ServiceCall
  <2>2. QED
    BY <1>3, <2>1
<1>5. Service!DiskChanges(p, s)
  BY <1>1, <1>4 DEF Service!DiskChanges
<1>6. QED
  BY <1>1, <1>5 DEF Service!Next

LEMMA MappedStep ==
  SessionInv /\ [SessionNext]_sessionVars => [Service!Next]_(Service!serviceVars)
<1> SUFFICES ASSUME SessionInv, [SessionNext]_sessionVars
             PROVE  Service!Next \/ UNCHANGED Service!serviceVars
  OBVIOUS
<1>1. CASE UNCHANGED sessionVars
  BY <1>1, MappedStutter DEF sessionVars
<1>2. ASSUME NEW c \in Calls, Within(CallStep(c)) \/ ServeHydrate(c)
      PROVE  UNCHANGED Service!serviceVars
  BY <1>2, MappedStutter
  DEF Within, CallStep, Enter, Recheck, StartDownload, Poll, Wake, Timeout, DetectFails,
      TimeoutExpires, ServeHydrate, Request
<1>3. ASSUME NEW p \in Paths, Within(handleEvent(p) \/ stopTracking(p))
      PROVE  UNCHANGED Service!serviceVars
  BY <1>3, MappedStutter DEF Within, handleEvent, stopTracking
<1>4. CASE Restarts
  BY <1>4, MappedStutter DEF Restarts
<1>5. ASSUME NEW c \in Calls, Serve(c)
      PROVE  Service!Next \/ UNCHANGED Service!serviceVars
  BY <1>2, <1>5, MappedServe, MappedDies DEF Serve, BrokenPipe
<1>6. QED
  BY <1>1, <1>2, <1>3, <1>4, <1>5, MappedSend, MappedClientStep, MappedFileChanges,
     MappedDies
  DEF SessionNext, Stops

(* Clients can rely on what they are told: for any files and any number of *)
(* clients, the sessions implement the service's promise.                  *)
THEOREM SessionImplementsService == SessionSpec => ImplementsService
<1>1. QED
  BY MappedInit, MappedStep, SessionInvariant, PTL
  DEF SessionSpec, ImplementsService, Service!Spec

=============================================================================
