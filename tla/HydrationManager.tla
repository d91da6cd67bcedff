--------------------------- MODULE HydrationManager ---------------------------
(***************************************************************************)
(* The hydration daemon's coordinator (HydrationCore/HydrationManager.swift*)
(* with FileState.swift), the IPC tasks that call hydrate and the FSEvents *)
(* handler of HydrationDaemon/main.swift.                                  *)
(*                                                                         *)
(* HydrationManager is a Swift actor.  Between two suspension points a     *)
(* call has the actor for itself, and the only suspension point is the     *)
(* sleep of waitForDownload.  The file system does not wait for the actor: *)
(* every detectState is a step of its own and files change in between.     *)
(***************************************************************************)
EXTENDS Naturals

CONSTANTS
  Paths,      \* paths that clients and events name
  StubPaths,  \* those whose last component is ".name.icloud"
  Calls,      \* hydrate calls that may be in progress at the same time
  None        \* not tracked; nobody; no path

FileState == {"unknown", "evicted", "downloading", "local", "error"}
Results == {"local", "invalid_state", "invalid_transition", "download_failed",
            "timeout", "detector_error"}

ASSUME HydrationAssumption ==
  /\ StubPaths \subseteq Paths
  /\ None \notin Paths \cup Calls \cup FileState \cup Results

VARIABLES
  disk,     \* what the file behind each path really is
  pending,     \* paths with an FSEvents event still to be handled
  unreported,  \* history: paths in the map that have changed since they were
               \* detected, with no event of theirs to be handled
  states,      \* the actor's map: path -> last known state, or None
  actor,       \* the call that is executing on the actor, or None
  calls        \* the hydrate calls

vars == <<disk, pending, unreported, states, actor, calls>>

(* late: the timeout of waitForDownload is over.  wasLocal is history: the *)
(* file was local at one of the call's polls.                              *)
Call ==
  [pc: {"idle", "called", "recheck", "download", "wait", "sleep", "reply"},
   path: Paths \cup {None}, late: BOOLEAN, wasLocal: BOOLEAN,
   result: Results \cup {None}]

NoCall == [pc |-> "idle", path |-> None, late |-> FALSE, wasLocal |-> FALSE,
           result |-> None]

HydrationTypeOK ==
  /\ disk \in [Paths -> FileState]
  /\ pending \in SUBSET Paths
  /\ unreported \in SUBSET Paths
  /\ states \in [Paths -> FileState \cup {None}]
  /\ actor \in Calls \cup {None}
  /\ calls \in [Calls -> Call]
  /\ \A c \in Calls : /\ calls[c].pc # "idle" => calls[c].path \in Paths
                      /\ calls[c].pc = "reply" <=> calls[c].result # None

Init ==
  /\ disk \in [Paths -> FileState]
  /\ pending = {}
  /\ unreported = {}
  /\ states = [p \in Paths |-> None]
  /\ actor = None
  /\ calls = [c \in Calls |-> NoCall]

-----------------------------------------------------------------------------
(* FileStateDetector and FileState.                                        *)

(* Slip: a state that was detected once is believed.                       *)
Detected_Cached(p) == IF states[p] # None THEN states[p] ELSE disk[p]

(* A placeholder's name is evicted whatever became of the file.            *)
Detected(p) == IF p \in StubPaths THEN "evicted" ELSE disk[p]

(* The file vanishes between fileExists and resourceValues.                *)
DetectorThrows(p) == /\ p \notin StubPaths
                     /\ disk[p] = "unknown"
                     /\ p \in pending \cup unreported

(* Slip: the table has no way from downloading to error.                   *)
validTransitions_NoError ==
  [unknown     |-> {"evicted", "local", "error"},
   evicted     |-> {"downloading", "local", "error"},
   downloading |-> {"local", "evicted"},
   local       |-> {"evicted", "error"},
   error       |-> {"evicted", "downloading", "unknown"}]

validTransitions ==
  [unknown     |-> {"evicted", "local", "error"},
   evicted     |-> {"downloading", "local", "error"},
   downloading |-> {"local", "error", "evicted"},
   local       |-> {"evicted", "error"},
   error       |-> {"evicted", "downloading", "unknown"}]

(* ... when the map is m.                                                  *)
CurrentState(m, p) == IF m[p] = None THEN "unknown" ELSE m[p]

CanTransition(m, p, s) == s \in validTransitions[CurrentState(m, p)]

(* try? transition(to: .error)                                             *)
MarkError(m, p) ==
  IF CanTransition(m, p, "error") THEN [m EXCEPT ![p] = "error"] ELSE m

refreshState(p) == /\ states' = [states EXCEPT ![p] = Detected(p)]
                   /\ unreported' = unreported \ {p}

-----------------------------------------------------------------------------
(* hydrate                                                                 *)

At(c, pc) == calls[c].pc = pc

Goto(c, pc) == calls' = [calls EXCEPT ![c].pc = pc]

(* Slip: a call that fails leaves no result.                               *)
Finish_NoResult(c, r) ==
  /\ calls' = [calls EXCEPT ![c].pc = "reply",
                            ![c].result = IF r = "local" THEN r ELSE None]
  /\ actor' = None

(* The call returns or throws and leaves the actor.                        *)
Finish(c, r) == /\ calls' = [calls EXCEPT ![c].pc = "reply", ![c].result = r]
                /\ actor' = None

(* An IPC client asks for a file.                                          *)
Request(c, p) ==
  /\ At(c, "idle")
  /\ calls' = [calls EXCEPT ![c] = [NoCall EXCEPT !.pc = "called", !.path = p]]
  /\ UNCHANGED <<disk, pending, unreported, states, actor>>

Reply(c) ==
  /\ At(c, "reply")
  /\ calls' = [calls EXCEPT ![c] = NoCall]
  /\ UNCHANGED <<disk, pending, unreported, states, actor>>

(* Slip: the detection is awaited, so others get the actor after it.       *)
Enter_Suspends(c) ==
  /\ At(c, "called")
  /\ actor = None
  /\ LET d == Detected(calls[c].path)
     IN /\ refreshState(calls[c].path)
        /\ IF d = "local" THEN Finish(c, "local")
           ELSE /\ Goto(c, CASE d = "downloading" -> "wait"
                             [] d = "evicted"     -> "download"
                             [] OTHER             -> "recheck")
                /\ actor' = None
  /\ UNCHANGED <<disk, pending>>

Enter(c) ==
  /\ At(c, "called")
  /\ actor = None
  /\ LET p == calls[c].path
         d == Detected(p)
     IN /\ refreshState(p)
        /\ IF d = "local" THEN Finish(c, "local")
           ELSE /\ Goto(c, CASE d = "downloading" -> "wait"
                             [] d = "evicted"     -> "download"
                             [] OTHER             -> "recheck")
                /\ actor' = c
  /\ UNCHANGED <<disk, pending>>

(* Slip: the guard after the second detection is missing.                  *)
Recheck_NoGuard(c) ==
  /\ At(c, "recheck")
  /\ LET p == calls[c].path
     IN /\ refreshState(p)
        /\ IF Detected(p) = "local" THEN Finish(c, "local")
           ELSE Goto(c, "download") /\ UNCHANGED actor
  /\ UNCHANGED <<disk, pending>>

Recheck(c) ==
  /\ At(c, "recheck")
  /\ LET p == calls[c].path
         d == Detected(p)
     IN /\ refreshState(p)
        /\ CASE d = "local"   -> Finish(c, "local")
             [] d = "evicted" -> Goto(c, "download") /\ UNCHANGED actor
             [] OTHER         -> Finish(c, "invalid_state")
  /\ UNCHANGED <<disk, pending>>

(* transition to downloading, then startDownloadingUbiquitousItem, which   *)
(* iCloud may refuse.                                                      *)
StartDownload(c) ==
  /\ At(c, "download")
  /\ LET p == calls[c].path IN
     IF ~CanTransition(states, p, "downloading")
     THEN Finish(c, "invalid_transition") /\ UNCHANGED states
     ELSE LET begun == [states EXCEPT ![p] = "downloading"] IN
          \/ /\ states' = begun
             /\ Goto(c, "wait")
             /\ UNCHANGED actor
          \/ /\ states' = MarkError(begun, p)
             /\ Finish(c, "download_failed")
  /\ UNCHANGED <<disk, pending, unreported>>

(* One round of waitForDownload's loop.                                    *)
Poll(c) ==
  /\ At(c, "wait")
  /\ ~calls[c].late
  /\ LET p == calls[c].path
         d == Detected(p)
     IN /\ refreshState(p)
        /\ CASE d = "local" -> Finish(c, "local")
             [] d = "error" -> Finish(c, "download_failed")
             [] OTHER ->
                  /\ calls' = [calls EXCEPT ![c].pc = "sleep",
                                            ![c].wasLocal = @ \/ disk[p] = "local"]
                  /\ actor' = None
  /\ UNCHANGED <<disk, pending>>

(* Slip: every round of the loop restarts the clock.                       *)
Wake_RestartsClock(c) ==
  /\ At(c, "sleep")
  /\ actor = None
  /\ actor' = c
  /\ calls' = [calls EXCEPT ![c].pc = "wait", ![c].late = FALSE]
  /\ UNCHANGED <<disk, pending, unreported, states>>

Wake(c) ==
  /\ At(c, "sleep")
  /\ actor = None
  /\ actor' = c
  /\ Goto(c, "wait")
  /\ UNCHANGED <<disk, pending, unreported, states>>

Timeout(c) ==
  /\ At(c, "wait")
  /\ calls[c].late
  /\ states' = MarkError(states, calls[c].path)
  /\ Finish(c, "timeout")
  /\ UNCHANGED <<disk, pending, unreported>>

(* The detector throws, and so does the call.                              *)
DetectFails(c) ==
  /\ \/ At(c, "called") /\ actor = None
     \/ At(c, "recheck")
     \/ At(c, "wait") /\ ~calls[c].late
  /\ DetectorThrows(calls[c].path)
  /\ Finish(c, "detector_error")
  /\ UNCHANGED <<disk, pending, unreported, states>>

TimeoutExpires(c) ==
  /\ At(c, "sleep")
  /\ ~calls[c].late
  /\ calls' = [calls EXCEPT ![c].late = TRUE]
  /\ UNCHANGED <<disk, pending, unreported, states, actor>>

-----------------------------------------------------------------------------
(* The other methods of the actor and the world around it.                 *)

(* Slip: an event goes through the state machine, which may reject it.     *)
handleEvent_Validated(p) ==
  /\ p \in pending
  /\ actor = None
  /\ states' = IF CanTransition(states, p, Detected(p))
               THEN [states EXCEPT ![p] = Detected(p)] ELSE states
  /\ unreported' = unreported \ {p}
  /\ pending' = pending \ {p}
  /\ UNCHANGED <<disk, actor, calls>>

(* The FSEvents handler asks the detector anew for each event of a file;   *)
(* the tasks that carry the events run in any order.  A throw is dropped:  *)
(* the event of the file's disappearance is yet to come, or DiskChanges    *)
(* has lost it.                                                            *)
handleEvent(p) ==
  /\ p \in pending
  /\ actor = None
  /\ refreshState(p)
  /\ pending' = pending \ {p}
  /\ UNCHANGED <<disk, actor, calls>>

(* query_state.                                                            *)
QueryState(p) ==
  /\ actor = None
  /\ refreshState(p)
  /\ UNCHANGED <<disk, pending, actor, calls>>

(* For programs that link the library; the daemon itself never calls it.   *)
stopTracking(p) ==
  /\ actor = None
  /\ states' = [states EXCEPT ![p] = None]
  /\ unreported' = unreported \ {p}
  /\ UNCHANGED <<disk, pending, actor, calls>>

(* iCloud and macOS download, evict, create and delete files as they like, *)
(* and FSEvents reports it: for the file or, when a directory above it is  *)
(* renamed or moved or the kernel has dropped events, for a directory.     *)
(* The main program passes on the events of files only, and when the file  *)
(* vanishes with its directory while an older event of it is handled, that *)
(* one is lost as well, since the detector throws.                         *)
DiskChanges(p) ==
  /\ \E s \in FileState \ {disk[p]} : disk' = [disk EXCEPT ![p] = s]
  /\ \/ /\ pending' = pending \cup {p}
        /\ unreported' = unreported \ {p}
     \/ /\ \/ UNCHANGED pending
           \/ /\ disk'[p] = "unknown"
              /\ actor = None
              /\ pending' = pending \ {p}
        /\ unreported' = IF states[p] = None \/ p \in pending' THEN unreported
                         ELSE unreported \cup {p}
  /\ UNCHANGED <<states, actor, calls>>

CallStep(c) ==
  \/ Enter(c) \/ Recheck(c) \/ StartDownload(c) \/ Poll(c) \/ Wake(c)
  \/ Timeout(c) \/ DetectFails(c) \/ TimeoutExpires(c)

Next ==
  \/ \E c \in Calls : (\E p \in Paths : Request(c, p)) \/ CallStep(c) \/ Reply(c)
  \/ \E p \in Paths : \/ handleEvent(p) \/ QueryState(p) \/ stopTracking(p)
                      \/ DiskChanges(p)

(* The actor serves its callers fairly, and the clock runs.                *)
Fairness ==
  /\ \A c \in Calls : /\ SF_vars(CallStep(c) \/ Reply(c))
                      /\ SF_vars(TimeoutExpires(c))
  /\ \A p \in Paths : SF_vars(handleEvent(p))

Spec == Init /\ [][Next]_vars /\ Fairness

-----------------------------------------------------------------------------
(* A hydrate never dies of the state machine: between the detection that   *)
(* says "evicted" and the transition to "downloading" no other call, event *)
(* or untracking may change the path's state.                              *)
NoInvalidTransition ==
  \A c \in Calls : calls[c].result # "invalid_transition"

(* A timeout or a refused download always leaves the path in state error,  *)
(* whatever the other calls and the events have put there meanwhile: the   *)
(* `try?` in front of the transition never hides a rejected one.           *)
FailureStep ==
  \A c \in Calls :
    /\ Timeout(c) \/ (StartDownload(c) /\ calls'[c].result = "download_failed")
    /\ calls'[c].pc = "reply"
    => states'[calls[c].path] = "error"
FailureRecorded == [][FailureStep]_vars

(* When the files stop changing, the map stops disagreeing with them: it   *)
(* holds the present state, the error of a failed hydrate, or nothing.     *)
(* Only what happened to a file through a directory above it, whose events *)
(* main.swift:66 drops, may stay unknown to the map until the file itself  *)
(* changes or somebody asks.                                               *)
Settled == actor = None =>
             \A p \in Paths \ unreported :
               states[p] \in {None, Detected(p), "error"}
CacheConverges == <>[][UNCHANGED disk]_vars => <>[]Settled

(* A hydrate that polls while the file is local does not time out.         *)
LocalFileFound ==
  \A c \in Calls : calls[c].result = "timeout" => ~calls[c].wasLocal

=============================================================================
