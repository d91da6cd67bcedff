----------------------------- MODULE StagingLayer -----------------------------
(***************************************************************************)
(* The two on-disk layers of the NFS server and the background promoter    *)
(* (nfs-server/src/staging.rs, started from main.rs).  Every write lands   *)
(* in the staging directory; promote_file copies an aged staged file to a  *)
(* temporary name beside the iCloud file, renames it into place and        *)
(* removes the staged copy.                                                *)
(*                                                                         *)
(* The methods that the request handlers call are actions that may happen  *)
(* at any time and in any order: handlers run as independent tokio tasks   *)
(* and nothing serialises them against the promoter.  What holds here      *)
(* holds for every interleaving of the handlers (module IcloudNfs).        *)
(*                                                                         *)
(* A file's bytes are the set of writes they contain.  fs::copy is one     *)
(* step for the other tasks, but an error or a crash may leave its target  *)
(* partly written: Torn.                                                   *)
(***************************************************************************)
EXTENDS Naturals

CONSTANTS
  Names,      \* file names of one directory
  Writes,     \* write payloads
  None,       \* no such file, no such name
  Torn,       \* a partly copied file
  MaxFaults   \* bound on crashes and failing system calls

ASSUME LayerAssumption ==
  /\ MaxFaults \in Nat
  /\ None \notin Names
  /\ None # Torn
  /\ \A bytes \in SUBSET Writes : bytes # None /\ bytes # Torn

File == {None, Torn} \cup SUBSET Writes

VARIABLES
  staged,   \* the staging directory: name -> bytes, or None
  cloud,    \* the iCloud directory: name -> bytes, or None
  tmp,      \* the promoter's temporary file ".name.icne-tmp" in iCloud
  aged,     \* staged names whose mtime is older than the quiescence
  prom,     \* the promoter
  faults    \* crashes and failures so far

disk == <<staged, cloud, tmp, aged, prom, faults>>

(***************************************************************************)
(* prom.pc is where the promoter is: asleep between two walks, in the loop *)
(* of walk_and_promote, or before the copy, the rename or the removal of   *)
(* promote_file for prom.name.  prom.boot says that this is the promote_all*)
(* that main runs before it serves.  prom.buf and prom.touched are history:*)
(* the bytes that the copy read, and whether anyone changed either layer's *)
(* file of that name since.                                                *)
(***************************************************************************)
Promoter ==
  [pc: {"sleep", "walk", "copy", "publish", "unlink"}, boot: BOOLEAN,
   todo: SUBSET Names, name: Names \cup {None}, buf: File, touched: BOOLEAN]

Starting == [pc |-> "sleep", boot |-> TRUE, todo |-> {}, name |-> None,
             buf |-> None, touched |-> FALSE]

Promoting == prom.pc \in {"copy", "publish", "unlink"}

TypeOK ==
  /\ staged \in [Names -> File]
  /\ cloud \in [Names -> File]
  /\ tmp \in [Names -> File]
  /\ aged \in SUBSET Names
  /\ prom \in Promoter
  /\ Promoting => prom.name \in Names
  /\ faults \in 0..MaxFaults

(* main starts the server over whatever a previous session left behind.    *)
Init ==
  /\ staged \in [Names -> {None} \cup SUBSET Writes]
  /\ cloud \in [Names -> {None} \cup SUBSET Writes]
  /\ tmp \in [Names -> {None, Torn}]
  /\ aged = {}
  /\ prom = Starting
  /\ faults = 0

(* What a client that looks the name up afresh finds.                      *)
Visible(n) == IF staged[n] # None THEN staged[n] ELSE cloud[n]

Serving == ~prom.boot

Touch(S) == prom' = [prom EXCEPT !.touched = @ \/ prom.name \in S]

Fault == /\ faults < MaxFaults
         /\ faults' = faults + 1

Written(c, w) == IF c = Torn THEN Torn ELSE c \cup {w}

-----------------------------------------------------------------------------
(* Operations of the request handlers on the two directories.              *)

(* copy_up: fs::copy may keep the source's mtime, so the copy may be aged. *)
CopyUp(n) ==
  /\ Serving
  /\ cloud[n] # None
  /\ staged' = [staged EXCEPT ![n] = cloud[n]]
  /\ aged' \in {aged \ {n}, aged \cup {n}}
  /\ Touch({n})
  /\ UNCHANGED <<cloud, tmp, faults>>

CopyUpFails(n) ==
  /\ Serving
  /\ cloud[n] # None
  /\ Fault
  /\ staged' = [staged EXCEPT ![n] = Torn]
  /\ aged' = aged \ {n}
  /\ Touch({n})
  /\ UNCHANGED <<cloud, tmp>>

SetStaged(n, c) ==
  /\ Serving
  /\ staged' = [staged EXCEPT ![n] = c]
  /\ aged' = aged \ {n}
  /\ Touch({n})
  /\ UNCHANGED <<cloud, tmp, faults>>

CreateFile(n) == SetStaged(n, {})

WriteStaged(n, w) == /\ staged[n] # None
                     /\ SetStaged(n, Written(staged[n], w))

TruncateStaged(n) == /\ staged[n] # None
                     /\ SetStaged(n, {})

RemoveStaged(n) == SetStaged(n, None)

RenameStaged(a, b) ==
  /\ Serving
  /\ staged[a] # None
  /\ staged' = [staged EXCEPT ![a] = None, ![b] = staged[a]]
  /\ aged' = IF a \in aged THEN (aged \ {a}) \cup {b} ELSE aged \ {b}
  /\ Touch({a, b})
  /\ UNCHANGED <<cloud, tmp, faults>>

RemoveCloud(n) ==
  /\ Serving
  /\ cloud[n] # None
  /\ cloud' = [cloud EXCEPT ![n] = None]
  /\ Touch({n})
  /\ UNCHANGED <<staged, tmp, aged, faults>>

RenameCloud(a, b) ==
  /\ Serving
  /\ cloud[a] # None
  /\ cloud' = [cloud EXCEPT ![a] = None, ![b] = cloud[a]]
  /\ Touch({a, b})
  /\ UNCHANGED <<staged, tmp, aged, faults>>

(* A file system call on the name fails and leaves the contents alone, but *)
(* perhaps not the staged file's mtime: the set_len in front of a write.   *)
OperationFails(n) ==
  /\ Serving
  /\ Fault
  /\ aged' \in {aged, aged \ {n}}
  /\ UNCHANGED <<staged, cloud, tmp, prom>>

ClientStep ==
  \/ \E n \in Names :
       \/ CopyUp(n) \/ CopyUpFails(n) \/ OperationFails(n)
       \/ CreateFile(n) \/ TruncateStaged(n) \/ RemoveStaged(n)
       \/ RemoveCloud(n)
       \/ \E w \in Writes : WriteStaged(n, w)
  \/ \E a, b \in Names : RenameStaged(a, b) \/ RenameCloud(a, b)

(* iCloud itself: a remote edit or deletion, an eviction, a download.      *)
SyncCloud(n, c) ==
  /\ cloud' = [cloud EXCEPT ![n] = c]
  /\ Touch({n})
  /\ UNCHANGED <<staged, tmp, aged, faults>>

SyncStep == \E n \in Names, c \in {None} \cup SUBSET Writes : SyncCloud(n, c)

(* Time passes.  A walk compares every mtime with the instant it started,  *)
(* so files age between walks only.                                        *)
Age(n) ==
  /\ prom.pc = "sleep"
  /\ staged[n] # None
  /\ n \notin aged
  /\ aged' = aged \cup {n}
  /\ UNCHANGED <<staged, cloud, tmp, prom, faults>>

-----------------------------------------------------------------------------
(* The promoter: promote_all at start-up, then promote_if_quiesced for ever*)

StartWalk ==
  /\ prom.pc = "sleep"
  /\ prom' = [prom EXCEPT !.pc = "walk",
                          !.todo = {n \in Names : staged[n] # None}]
  /\ UNCHANGED <<staged, cloud, tmp, aged, faults>>

(* The entry is too young for promotion.                                   *)
SkipFresh(n) ==
  /\ prom.pc = "walk"
  /\ n \in prom.todo
  /\ staged[n] # None
  /\ ~prom.boot /\ n \notin aged
  /\ prom' = [prom EXCEPT !.todo = @ \ {n}]
  /\ UNCHANGED <<staged, cloud, tmp, aged, faults>>

(* Slip: the walk waits for a vanished entry to come back.                 *)
SkipVanished_Retry(n) ==
  /\ prom.pc = "walk"
  /\ n \in prom.todo
  /\ staged[n] = None
  /\ UNCHANGED disk

(* The entry is gone: read_dir no longer returns it, or fs::metadata fails *)
(* and the `?` abandons the rest of the walk.                              *)
SkipVanished(n) ==
  /\ prom.pc = "walk"
  /\ n \in prom.todo
  /\ staged[n] = None
  /\ \/ prom' = [prom EXCEPT !.todo = @ \ {n}]
     \/ prom' = [prom EXCEPT !.todo = {}]
  /\ UNCHANGED <<staged, cloud, tmp, aged, faults>>

Taken(n) == [prom EXCEPT !.pc = "copy", !.name = n, !.todo = @ \ {n}]

Select(n) ==
  /\ prom.pc = "walk"
  /\ n \in prom.todo
  /\ staged[n] # None
  /\ prom.boot \/ n \in aged
  /\ prom' = Taken(n)
  /\ UNCHANGED <<staged, cloud, tmp, aged, faults>>

NextEntry == [prom EXCEPT !.pc = "walk", !.name = None, !.buf = None,
                          !.touched = FALSE]

(* Slip: a temporary file that is already there is taken for the copy.     *)
Copied_ReuseTmp == IF tmp[prom.name] = None THEN staged[prom.name]
                                            ELSE tmp[prom.name]

Copied == staged[prom.name]

Copy ==
  /\ prom.pc = "copy"
  /\ staged[prom.name] # None
  /\ tmp' = [tmp EXCEPT ![prom.name] = Copied]
  /\ prom' = [prom EXCEPT !.pc = "publish", !.buf = staged[prom.name],
                          !.touched = FALSE]
  /\ UNCHANGED <<staged, cloud, aged, faults>>

CopyMissing ==
  /\ prom.pc = "copy"
  /\ staged[prom.name] = None
  /\ prom' = NextEntry
  /\ UNCHANGED <<staged, cloud, tmp, aged, faults>>

(* Slip: the errors of fs::copy and fs::rename are ignored.                *)
OnError_Ignored ==
  CASE prom.pc = "copy"    -> [prom EXCEPT !.pc = "publish", !.touched = FALSE,
                                           !.buf = staged[prom.name]]
    [] prom.pc = "publish" -> [prom EXCEPT !.pc = "unlink"]
    [] OTHER               -> NextEntry

(* A warning, and the file stays staged.                                   *)
OnError == NextEntry

CopyFails ==
  /\ prom.pc = "copy"
  /\ Fault
  /\ tmp' = [tmp EXCEPT ![prom.name] = Torn]
  /\ prom' = OnError
  /\ UNCHANGED <<staged, cloud, aged>>

Publish ==
  /\ prom.pc = "publish"
  /\ cloud' = [cloud EXCEPT ![prom.name] = tmp[prom.name]]
  /\ tmp' = [tmp EXCEPT ![prom.name] = None]
  /\ prom' = [prom EXCEPT !.pc = "unlink"]
  /\ UNCHANGED <<staged, aged, faults>>

Unlink ==
  /\ prom.pc = "unlink"
  /\ staged' = [staged EXCEPT ![prom.name] = None]
  /\ aged' = aged \ {prom.name}
  /\ prom' = NextEntry
  /\ UNCHANGED <<cloud, tmp, faults>>

(* The rename or the removal fails.                                        *)
PromotionFails ==
  /\ prom.pc \in {"publish", "unlink"}
  /\ Fault
  /\ prom' = OnError
  /\ UNCHANGED <<staged, cloud, tmp, aged>>

EndWalk ==
  /\ prom.pc = "walk"
  /\ prom.todo = {}
  /\ prom' = [prom EXCEPT !.pc = "sleep", !.boot = FALSE]
  /\ UNCHANGED <<staged, cloud, tmp, aged, faults>>

PromoterStep ==
  \/ StartWalk \/ EndWalk
  \/ \E n \in Names : SkipFresh(n) \/ SkipVanished(n) \/ Select(n)
  \/ Copy \/ CopyMissing \/ CopyFails \/ Publish \/ Unlink \/ PromotionFails

(* The server dies and is started again.  Both directories stay; copies in *)
(* progress leave partial targets.                                         *)
Crash ==
  /\ Fault
  /\ prom' = Starting
  /\ tmp' \in IF prom.pc = "copy" THEN {tmp, [tmp EXCEPT ![prom.name] = Torn]}
                                  ELSE {tmp}
  /\ \E cut \in SUBSET {n \in Names : Serving /\ cloud[n] # None} :
       staged' = [n \in Names |-> IF n \in cut THEN Torn ELSE staged[n]]
  /\ UNCHANGED <<cloud, aged>>

Next == ClientStep \/ SyncStep \/ (\E n \in Names : Age(n)) \/ PromoterStep
        \/ Crash

Fairness == /\ WF_disk(PromoterStep)
            /\ \A n \in Names : SF_disk(Age(n))

Spec == Init /\ [][Next]_disk
FairSpec == Spec /\ Fairness

-----------------------------------------------------------------------------
(* What promote_file relies on between its copy and its removal: the       *)
(* temporary file holds what the copy read until the rename takes it, and  *)
(* while nobody touches the file both layers agree with it.                *)
PromotionInv ==
  /\ prom.pc \in {"publish", "unlink"} =>
       /\ prom.buf # None
       /\ prom.touched \/ staged[prom.name] = prom.buf
  /\ prom.pc = "publish" => tmp[prom.name] = prom.buf
  /\ prom.pc = "unlink" => prom.touched \/ cloud[prom.name] = prom.buf

(* Promoting a file never changes what a client finds under any name, at   *)
(* start-up, after a crash or in the background, unless somebody changed   *)
(* that very file between the copy and the removal of promote_file.        *)
InvisibleStep ==
  PromoterStep => \A n \in Names : \/ Visible(n)' = Visible(n)
                                   \/ n = prom.name /\ prom.touched
PromotionInvisible == [][InvisibleStep]_disk

(* iCloud only ever receives from the promoter, whole, the bytes that the  *)
(* staged file had when the copy read it: a temporary file left torn by a  *)
(* crash or an error is never renamed into place.                          *)
SnapshotStep ==
  PromoterStep => \A n \in Names : cloud'[n] # cloud[n] =>
                    /\ n = prom.name
                    /\ cloud'[n] = prom.buf
                    /\ prom.touched \/ cloud'[n] = staged[n]
SnapshotPublished == [][SnapshotStep]_disk

(* Once the clients are quiet, every staged file reaches iCloud.           *)
QuietFilesPromoted ==
  <>[][~ClientStep]_disk => <>[](\A n \in Names : staged[n] = None)

=============================================================================
