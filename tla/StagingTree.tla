------------------------------ MODULE StagingTree ------------------------------
(***************************************************************************)
(* The directories of the staging layer (staging.rs, walk_and_promote) and *)
(* the handlers that make and remove them while the promoter walks.        *)
(*                                                                         *)
(* Every handler creates the staging directories that it needs and the     *)
(* promoter removes those that it finds empty.  A handler and the promoter *)
(* make one system call after the other, with no lock between them.  Names *)
(* are paths below the exported directory; a name is a directory or a file *)
(* for good.  What files contain and how promote_file publishes them is in *)
(* module StagingLayer; here a copy and its rename are one step.           *)
(***************************************************************************)
EXTENDS Naturals, Sequences

CONSTANTS
  Dirs,      \* directories
  Files,     \* files
  Root,      \* the exported directory, and the staging root
  Parent,    \* the directory each of them is in
  Above,     \* all directories its path leads through, without the root
  NoPath,    \* none of them
  Clients    \* handlers that run at the same time

TreePaths == Dirs \cup Files

ASSUME TreeAssumption ==
  /\ Dirs \cap Files = {} /\ TreePaths \cap {Root, NoPath} = {} /\ Root # NoPath
  /\ Parent \in [TreePaths -> Dirs \cup {Root}]
  /\ Above \in [TreePaths -> SUBSET Dirs]
  /\ \A x \in TreePaths : Above[x] = IF Parent[x] = Root THEN {}
                                    ELSE {Parent[x]} \cup Above[Parent[x]]

VARIABLES
  upper,    \* what is in the staging directory
  lower,    \* what is in the iCloud directory
  old,      \* staged files whose mtime is before the quiescence
  walk,     \* the promoter
  request,  \* the handlers in progress
  kept      \* history: files that were created and not removed since

treeVars == <<upper, lower, old, walk, request, kept>>

(* stack: the calls of walk_and_promote, each with the entries that it has *)
(* still to look at.                                                       *)
NoWalk == [pc |-> "sleep", stack |-> <<>>, path |-> NoPath]
Asleep == [pc |-> "idle", path |-> NoPath]

Children(S, d) == {x \in S : Parent[x] = d}
Below(S, d) == {x \in S : d \in Above[x]}
Top == walk.stack[Len(walk.stack)]

Frames == [dir: Dirs \cup {Root}, todo: SUBSET TreePaths]

TreeTypeOK ==
  /\ upper \subseteq TreePaths /\ lower \subseteq TreePaths
  /\ old \subseteq Files /\ kept \subseteq Files
  /\ walk \in [pc: {"sleep", "next", "list", "publish", "unlink", "empty", "rmdir"},
               stack: Seq(Frames), path: TreePaths \cup {NoPath}]
  /\ request \in [Clients -> [pc: {"idle", "create", "mkdir", "unstage", "remove"},
                              path: TreePaths \cup {NoPath}]]

TreeInit ==
  /\ lower \in {S \in SUBSET Dirs : \A x \in S : Above[x] \subseteq S}
  /\ upper = {}
  /\ old = {}
  /\ walk = NoWalk
  /\ request = [c \in Clients |-> Asleep]
  /\ kept = {}

-----------------------------------------------------------------------------
(* The handlers.  A client knows the directories that are in iCloud.       *)

Known(x) == Parent[x] \in lower \cup {Root}

Begins(c, x, pc) ==
  /\ request[c] = Asleep
  /\ Known(x)
  /\ request' = [request EXCEPT ![c] = [pc |-> pc, path |-> x]]

Handles(c, pc) == request[c].pc = pc

HandlerDone(c) == request' = [request EXCEPT ![c] = Asleep]

(* create_file: create_dir_all of the parent ...                           *)
CreateParents(c, f) ==
  /\ Begins(c, f, "create")
  /\ upper' = upper \cup Above[f]
  /\ UNCHANGED <<lower, old, walk, kept>>

(* Somebody is about to remove the file: the promoter, which has published *)
(* its former self, or a client.                                           *)
Doomed(f) ==
  \/ walk.pc = "unlink" /\ walk.path = f
  \/ \E c \in Clients : /\ request[c].pc \in {"unstage", "remove"}
                        /\ request[c].path \in {f} \cup Above[f]

(* ... and File::create, which fails if the parent is gone again.          *)
CreateStaged(c) ==
  /\ Handles(c, "create")
  /\ LET f == request[c].path IN
     IF Above[f] \subseteq upper
     THEN /\ upper' = upper \cup {f}
          /\ old' = old \ {f}
          /\ kept' = IF Doomed(f) THEN kept ELSE kept \cup {f}
     ELSE UNCHANGED <<upper, old, kept>>
  /\ HandlerDone(c)
  /\ UNCHANGED <<lower, walk>>

(* mkdir: create_dir_all in the staging directory, then in iCloud.         *)
MkdirStaged(c, d) ==
  /\ Begins(c, d, "mkdir")
  /\ upper' = upper \cup Above[d] \cup {d}
  /\ UNCHANGED <<lower, old, walk, kept>>

MkdirCloud(c) ==
  /\ Handles(c, "mkdir")
  /\ lower' = lower \cup Above[request[c].path] \cup {request[c].path}
  /\ HandlerDone(c)
  /\ UNCHANGED <<upper, old, walk, kept>>

(* remove, of a file or a directory.  What is below a directory goes with  *)
(* it, whatever the answer will be.                                        *)
RemoveBegins(c, x) ==
  /\ Begins(c, x, "unstage")
  /\ kept' = kept \ ({x} \cup Below(kept, x))
  /\ UNCHANGED <<upper, lower, old, walk>>

(* remove_staged: one file after the other, and no error stops remove.     *)
RemoveOne(c, x) ==
  /\ Handles(c, "unstage")
  /\ x \in upper \cap ({request[c].path} \cup Below(upper, request[c].path))
  /\ Children(upper, x) = {}
  /\ upper' = upper \ {x}
  /\ old' = old \ {x}
  /\ UNCHANGED <<lower, walk, request, kept>>

RemoveStagedEnds(c) ==
  /\ Handles(c, "unstage")
  /\ request' = [request EXCEPT ![c].pc = "remove"]
  /\ UNCHANGED <<upper, lower, old, walk, kept>>

(* A directory that iCloud has is left there: NFS3ERR_ISDIR.               *)
RemoveFromCloud(c) ==
  /\ Handles(c, "remove")
  /\ lower' = lower \ ({request[c].path} \cap Files)
  /\ HandlerDone(c)
  /\ UNCHANGED <<upper, old, walk, kept>>

Handler(c) ==
  \/ \E f \in Files : CreateParents(c, f)
  \/ \E d \in Dirs : MkdirStaged(c, d)
  \/ \E x \in TreePaths : RemoveBegins(c, x) \/ RemoveOne(c, x)
  \/ CreateStaged(c) \/ MkdirCloud(c) \/ RemoveStagedEnds(c) \/ RemoveFromCloud(c)

-----------------------------------------------------------------------------
(* The promoter.                                                           *)

Walks(pc) == walk.pc = pc

GoesOn == walk' = [walk EXCEPT !.pc = "next", !.path = NoPath]

(* The walk compares mtimes with the time of its start.                    *)
QuiescenceEnds(f) ==
  /\ Walks("sleep")
  /\ f \in upper \cap Files
  /\ old' = old \cup {f}
  /\ UNCHANGED <<upper, lower, walk, request, kept>>

Frame(d) == [dir |-> d, todo |-> Children(upper, d)]

PromoteIfQuiesced ==
  /\ Walks("sleep")
  /\ walk' = [NoWalk EXCEPT !.pc = "next", !.stack = <<Frame(Root)>>]
  /\ UNCHANGED <<upper, lower, old, request, kept>>

(* The entry x: a directory is walked, a file that is old is promoted.  An *)
(* entry that is gone is taken for a file, and the error of its metadata   *)
(* ends the walk.                                                          *)
NextEntryOf(x) ==
  /\ Walks("next")
  /\ x \in Top.todo
  /\ LET rest == [walk EXCEPT !.stack[Len(walk.stack)].todo = @ \ {x}] IN
     \/ x \notin upper /\ walk' = NoWalk
     \/ x \in upper \cap Dirs /\ walk' = [rest EXCEPT !.pc = "list", !.path = x]
     \/ x \in upper \cap old /\ walk' = [rest EXCEPT !.pc = "publish", !.path = x]
     \/ x \in upper \ (Dirs \cup old) /\ walk' = rest
  /\ UNCHANGED <<upper, lower, old, request, kept>>

(* read_dir: a directory that is gone has no entries.                      *)
WalkInto ==
  /\ Walks("list")
  /\ walk' = [pc |-> "next", path |-> NoPath,
              stack |-> Append(walk.stack, Frame(walk.path))]
  /\ UNCHANGED <<upper, lower, old, request, kept>>

(* promote_file: create_dir_all in iCloud, copy and rename, unless the     *)
(* staged file is gone ...                                                 *)
PublishOld ==
  /\ Walks("publish")
  /\ lower' = lower \cup Above[walk.path] \cup ({walk.path} \cap upper)
  /\ IF walk.path \in upper THEN walk' = [walk EXCEPT !.pc = "unlink"] ELSE GoesOn
  /\ UNCHANGED <<upper, old, request, kept>>

(* ... and remove_file.                                                    *)
UnlinkOld ==
  /\ Walks("unlink")
  /\ upper' = upper \ {walk.path}
  /\ old' = old \ {walk.path}
  /\ GoesOn
  /\ UNCHANGED <<lower, request, kept>>

(* Slip: empty directories are left behind.                                *)
Return_Littering ==
  /\ Walks("next")
  /\ Top.todo = {}
  /\ LET outer == SubSeq(walk.stack, 1, Len(walk.stack) - 1) IN
     walk' = IF outer = <<>> THEN NoWalk
             ELSE [pc |-> "next", stack |-> outer, path |-> NoPath]
  /\ UNCHANGED <<upper, lower, old, request, kept>>

(* Slip: a directory is cleaned up before its call returns.                *)
Return_Early ==
  /\ Walks("next")
  /\ Top.todo = {}
  /\ LET outer == SubSeq(walk.stack, 1, Len(walk.stack) - 1) IN
     walk' = IF outer = <<>> THEN NoWalk
             ELSE [pc |-> "empty", stack |-> walk.stack, path |-> Top.dir]
  /\ UNCHANGED <<upper, lower, old, request, kept>>

(* The end of a directory: the caller looks whether it is empty now.       *)
Return ==
  /\ Walks("next")
  /\ Top.todo = {}
  /\ LET outer == SubSeq(walk.stack, 1, Len(walk.stack) - 1) IN
     walk' = IF outer = <<>> THEN NoWalk
             ELSE [pc |-> "empty", stack |-> outer, path |-> Top.dir]
  /\ UNCHANGED <<upper, lower, old, request, kept>>

LookIfEmpty ==
  /\ Walks("empty")
  /\ IF walk.path \in upper /\ Children(upper, walk.path) = {}
     THEN walk' = [walk EXCEPT !.pc = "rmdir"]
     ELSE GoesOn
  /\ UNCHANGED <<upper, lower, old, request, kept>>

(* Slip: remove_dir_all, since the directory was found to be empty.        *)
RemoveEmpty_All ==
  /\ Walks("rmdir")
  /\ upper' = upper \ ({walk.path} \cup Below(upper, walk.path))
  /\ old' = old \ Below(upper, walk.path)
  /\ GoesOn
  /\ UNCHANGED <<lower, request, kept>>

(* remove_dir fails if there is an entry again.                            *)
RemoveEmpty ==
  /\ Walks("rmdir")
  /\ upper' = IF Children(upper, walk.path) = {} THEN upper \ {walk.path} ELSE upper
  /\ GoesOn
  /\ UNCHANGED <<lower, old, request, kept>>

WalkStep ==
  \/ PromoteIfQuiesced \/ WalkInto \/ PublishOld \/ UnlinkOld \/ Return
  \/ LookIfEmpty \/ RemoveEmpty
  \/ \E x \in TreePaths : NextEntryOf(x)

TreeNext == \/ \E c \in Clients : Handler(c)
            \/ \E f \in Files : QuiescenceEnds(f)
            \/ WalkStep

(* The promotion task runs for as long as the server, and time passes.     *)
TreeFairness ==
  /\ WF_treeVars(WalkStep)
  /\ \A f \in Files : SF_treeVars(QuiescenceEnds(f))

TreeSpec == TreeInit /\ [][TreeNext]_treeVars /\ TreeFairness

-----------------------------------------------------------------------------
(* The calls of walk_and_promote lead from the root to the directory they  *)
(* are at, and what is cleaned up is a directory whose call has returned.  *)
WalkOK ==
  /\ \A k \in DOMAIN walk.stack :
       /\ k = 1 <=> walk.stack[k].dir = Root
       /\ k > 1 => Parent[walk.stack[k].dir] = walk.stack[k - 1].dir
       /\ walk.stack[k].todo \subseteq Children(TreePaths, walk.stack[k].dir)
  /\ walk.pc # "sleep" => walk.stack # <<>>
  /\ walk.pc \in {"list", "empty", "rmdir"} => walk.path \in Dirs
  /\ walk.pc \in {"publish", "unlink"} => walk.path \in Files
  /\ walk.pc \notin {"sleep", "next"} => Parent[walk.path] = Top.dir

(* Whoever is about to remove a file has taken it from those to be kept,   *)
(* or has published it.                                                    *)
RemovalsAnnounced ==
  /\ walk.pc = "unlink" /\ walk.path \in kept => walk.path \in lower
  /\ \A c \in Clients :
       /\ request[c].pc # "idle" => request[c].path \in TreePaths
       /\ request[c].pc = "create" => request[c].path \in Files
       /\ request[c].pc = "mkdir" => request[c].path \in Dirs
       /\ request[c].pc \in {"unstage", "remove"} =>
            \A f \in kept : request[c].path \notin {f} \cup Above[f]

(* Cleaning up never takes a file away.  A file that a client has created  *)
(* is in one of the two trees until a client removes it, whenever the      *)
(* promoter's look at an empty directory and the handler's steps fall      *)
(* together, and also when the handler's own directories are removed       *)
(* before it uses them.                                                    *)
CreatedFilesKept == kept \subseteq upper \cup lower

(* The inductive invariant.                                                *)
TreeInv == TreeTypeOK /\ WalkOK /\ RemovalsAnnounced /\ CreatedFilesKept

(* When the clients rest, everything that is staged is promoted and the    *)
(* staging directory gets empty, however many walks were cut short by      *)
(* entries that vanished.                                                  *)
QuietTreesPromoted ==
  <>[](\A c \in Clients : request[c] = Asleep) => <>[](upper = {})

=============================================================================
