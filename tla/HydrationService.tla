---------------------------- MODULE HydrationService ----------------------------
(***************************************************************************)
(* What the hydration daemon promises to its clients, whatever happens in  *)
(* between: a client that is told that a file is local (a hydrate that     *)
(* succeeds, a query that answers "local") was told so of a state the file *)
(* has had since the client asked.  Everything else, an error, a timeout,  *)
(* a dead daemon, promises nothing about the file.                         *)
(***************************************************************************)
CONSTANTS
  Paths,       \* paths that clients name
  Clients,     \* threads and programs that ask
  FileStates,  \* the states a file can be in, "local" is one of them
  NoPath       \* the path of a request that names no file, not in Paths

VARIABLES
  disk,  \* the state of each file
  call   \* the request of each client

serviceVars == <<disk, call>>

(* sawLocal: the file has been local since the client asked.  toldLocal:   *)
(* the answer says so.                                                     *)
NoRequest == [pc |-> "idle", path |-> NoPath, sawLocal |-> FALSE, toldLocal |-> FALSE]

Init ==
  /\ disk \in [Paths -> FileStates]
  /\ call = [c \in Clients |-> NoRequest]

Ask(c, p) ==
  /\ call[c].pc = "idle"
  /\ call' = [call EXCEPT ![c] =
                [pc |-> "asked", path |-> p,
                 sawLocal |-> p # NoPath /\ disk[p] = "local", toldLocal |-> FALSE]]
  /\ UNCHANGED disk

Answered(told) ==
  [pc |-> "answered", path |-> NoPath, sawLocal |-> FALSE, toldLocal |-> told]

(* One answer, or, when the daemon dies, one for everybody who waits.      *)
Answer(c, told) ==
  /\ call[c].pc = "asked"
  /\ told => call[c].sawLocal
  /\ call' = [call EXCEPT ![c] = Answered(told)]
  /\ UNCHANGED disk

Abandon ==
  /\ call' = [c \in Clients |-> IF call[c].pc = "asked" THEN Answered(FALSE)
                                                        ELSE call[c]]
  /\ UNCHANGED disk

(* The daemon cannot be reached at all.                                    *)
Refuse(c) ==
  /\ call[c].pc = "idle"
  /\ call' = [call EXCEPT ![c] = Answered(FALSE)]
  /\ UNCHANGED disk

Take(c) ==
  /\ call[c].pc = "answered"
  /\ call' = [call EXCEPT ![c] = NoRequest]
  /\ UNCHANGED disk

DiskChanges(p, s) ==
  /\ disk' = [disk EXCEPT ![p] = s]
  /\ call' = [c \in Clients |->
       [call[c] EXCEPT !.sawLocal =
          @ \/ (call[c].pc = "asked" /\ call[c].path = p /\ s = "local")]]

Next ==
  \/ \E c \in Clients :
       \/ \E p \in Paths \cup {NoPath} : Ask(c, p)
       \/ \E told \in BOOLEAN : Answer(c, told)
       \/ Refuse(c)
       \/ Take(c)
  \/ Abandon
  \/ \E p \in Paths, s \in FileStates : DiskChanges(p, s)

Spec == Init /\ [][Next]_serviceVars

=============================================================================
