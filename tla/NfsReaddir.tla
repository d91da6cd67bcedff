------------------------------ MODULE NfsReaddir ------------------------------
(***************************************************************************)
(* Listing a directory through the NFS server (icloud_nfs.rs, readdir).    *)
(*                                                                         *)
(* Every READDIR builds the whole listing anew: it reads the iCloud        *)
(* directory, looks at each entry, lays the staged files over them, sorts  *)
(* by name and answers with the entries after the one whose fileid is the  *)
(* client's cookie, or from the start if it finds none.  Clients, macOS    *)
(* and the promoter change both directories meanwhile.                     *)
(*                                                                         *)
(* An entry's fileid belongs to its literal path, so a file and its        *)
(* placeholder have two.  Of the inode table a listing only depends on the *)
(* path of the inode that is the cookie.                                   *)
(***************************************************************************)
EXTENDS PathUtils, FiniteSets

CONSTANTS
  MaxEntries,  \* max_entries of a READDIR
  MaxChanges   \* bound: changes to the directory during one listing

ASSUME ReaddirAssumption == MaxEntries \in Nat \ {0} /\ MaxChanges \in Nat

VARIABLES
  cloud,      \* entries of the iCloud directory
  staged,     \* names in the staging directory
  work,       \* the READDIR in progress
  cookie,     \* path of the cookie's inode; NoName if there is none
  shown,      \* names the client has got in this listing
  repeated,   \* history: it has got a name twice
  ended,      \* the last reply said that it was the last
  untouched,  \* history: names to be found during every READDIR so far
  changed,    \* history: how often the directory has changed meanwhile
  renamed     \* history: one of the changes was a rename

readdirVars == <<cloud, staged, work, cookie, shown, repeated, ended, untouched,
                 changed, renamed>>

NoWork == [pc |-> "idle", entries |-> {}, marked |-> {}]

(* The names that clients should see.                                      *)
FileNames == {RealName(e) : e \in cloud} \cup staged

NfsListingTypeOK ==
  /\ cloud \subseteq FileName
  /\ staged \subseteq FileName
  /\ work \in [pc: {"idle", "stat", "reply"}, entries: SUBSET FileName,
               marked: SUBSET FileName]
  /\ cookie \in FileName \cup {NoName}
  /\ shown \subseteq FileName
  /\ repeated \in BOOLEAN /\ ended \in BOOLEAN
  /\ untouched \subseteq FileNames
  /\ changed \in 0..MaxChanges
  /\ renamed \in BOOLEAN
  /\ work.marked \subseteq work.entries
  /\ \A e, f \in work.entries :
       work.pc = "reply" /\ RealName(e) = RealName(f) => e = f

(* Directories are finite, and placeholders are never staged.              *)
ReaddirInit ==
  /\ cloud \in SUBSET FileName
  /\ staged \in SUBSET {n \in FileName : ~is_icloud_stub(n)}
  /\ IsFiniteSet(cloud) /\ IsFiniteSet(staged)
  /\ work = NoWork
  /\ cookie = NoName
  /\ shown = {}
  /\ repeated = FALSE
  /\ ended = FALSE
  /\ untouched = FileNames
  /\ changed = 0
  /\ renamed = FALSE

-----------------------------------------------------------------------------
(* readdir                                                                 *)

ReadDir ==
  /\ work.pc = "idle"
  /\ ~ended
  /\ work' = [pc |-> "stat", entries |-> cloud, marked |-> {}]
  /\ UNCHANGED <<cloud, staged, cookie, shown, repeated, ended, untouched,
                 changed, renamed>>

(* symlink_metadata of every entry; those that are gone are left out.      *)
StatEntries ==
  /\ work.pc = "stat"
  /\ LET there == {e \in work.entries : Listed(work.entries, e) /\ e \in cloud}
     IN work' = [pc |-> "reply", entries |-> there, marked |-> there \cap {cookie}]
  /\ UNCHANGED <<cloud, staged, cookie, shown, repeated, ended, untouched,
                 changed, renamed>>

Overlaid(entries) == {e \in entries : RealName(e) \notin staged} \cup staged

(* Slip: every READDIR gives all entries new fileids.                      *)
Marked_Fresh == {}

(* The entries with the cookie's fileid.                                   *)
Marked == (work.marked \ {e \in FileName : RealName(e) \in staged})
          \cup (staged \cap {cookie})

(* Slip: a listing whose cookie is gone is at its end.                     *)
Rest_Ended(all) ==
  IF cookie = NoName THEN all
  ELSE {e \in all : \E m \in Marked : m.base < e.base}

(* What is left after the first entry that has the cookie's fileid.        *)
Rest(all) ==
  IF Marked = {} THEN all ELSE {e \in all : \E m \in Marked : m.base < e.base}

FirstOf(S, k) == {e \in S : Cardinality({f \in S : f.base < e.base}) < k}

Reply ==
  /\ work.pc = "reply"
  /\ LET rest == Rest(Overlaid(work.entries))
         page == FirstOf(rest, MaxEntries)
         got  == {RealName(e) : e \in page}
     IN /\ shown' = shown \cup got
        /\ repeated' = (repeated \/ got \cap shown # {})
        /\ ended' = (Cardinality(rest) <= MaxEntries)
        /\ cookie' = IF page = {} THEN cookie
                     ELSE CHOOSE e \in page : \A f \in page : f.base <= e.base
  /\ work' = NoWork
  /\ UNCHANGED <<cloud, staged, untouched, changed, renamed>>

-----------------------------------------------------------------------------
(* What happens to the directory while a client lists it.  A name counts   *)
(* as touched when its entry changes while a READDIR is at work.           *)

Changes(newCloud, newStaged, touched) ==
  /\ ~ended
  /\ changed < MaxChanges
  /\ changed' = changed + 1
  /\ cloud' = newCloud
  /\ staged' = newStaged
  /\ untouched' = (IF work.pc = "idle" THEN untouched ELSE untouched \ touched)
                  \cap FileNames'
  /\ UNCHANGED <<work, shown, repeated, ended>>

(* A client creates a file, or iCloud brings one.                          *)
NewFile(n) ==
  /\ n \notin FileNames
  /\ ~is_icloud_stub(n)
  /\ \/ Changes(cloud, staged \cup {n}, {})
     \/ Changes(cloud \cup {n}, staged, {})
  /\ UNCHANGED <<cookie, renamed>>

(* A removal takes the inode of the file's path or of the placeholder's,   *)
(* whichever it finds first; other programs take none.                     *)
RemoveFile(n) ==
  /\ n \in FileNames
  /\ Changes(cloud \ {resolve_child(cloud, n)}, staged \ {n}, {n})
  /\ cookie' \in {cookie} \cup (IF RealName(cookie) = n THEN {NoName} ELSE {})
  /\ UNCHANGED renamed

(* A rename moves the inode it finds first; afterwards another inode may   *)
(* have the same path and be found before the cookie's.                    *)
RenameFile(n, m) ==
  /\ n \in FileNames
  /\ m # n /\ ~is_icloud_stub(m)
  /\ LET from == resolve_child(cloud, n)
     IN Changes(IF from = NoName THEN cloud ELSE (cloud \ {from}) \cup {m},
                IF n \in staged THEN (staged \ {n}) \cup {m} ELSE staged,
                {n, m})
  /\ renamed' = TRUE
  /\ cookie' \in {cookie} \cup (CASE RealName(cookie) = n -> {m, NoName}
                                  [] cookie = m          -> {NoName}
                                  [] OTHER               -> {})

(* ensure_staged copies a file up ...                                      *)
StageFile(n) ==
  /\ n \in cloud \ staged
  /\ ~is_icloud_stub(n)
  /\ Changes(cloud, staged \cup {n}, {})
  /\ UNCHANGED <<cookie, renamed>>

(* ... promote_file publishes it and removes the staged one.               *)
PublishFile(n) ==
  /\ n \in staged \ cloud
  /\ Changes(cloud \cup {n}, staged, {n})
  /\ UNCHANGED <<cookie, renamed>>

UnlinkStaged(n) ==
  /\ n \in staged \cap cloud
  /\ Changes(cloud, staged \ {n}, {})
  /\ UNCHANGED <<cookie, renamed>>

(* macOS evicts a file or downloads it.                                    *)
SyncFile(n) ==
  /\ n \in FileNames
  /\ {n, real_to_stub_name(n)} \subseteq FileName
  /\ LET from == resolve_child(cloud, n)
         to   == IF from = n THEN real_to_stub_name(n) ELSE n
     IN /\ from # NoName
        /\ to \notin cloud
        /\ Changes((cloud \ {from}) \cup {to}, staged, {n})
  /\ UNCHANGED <<cookie, renamed>>

ReaddirStep == ReadDir \/ StatEntries \/ Reply

ReaddirNext ==
  \/ ReaddirStep
  \/ \E n \in FileName : \/ NewFile(n) \/ RemoveFile(n) \/ SyncFile(n)
                        \/ StageFile(n) \/ PublishFile(n) \/ UnlinkStaged(n)
                        \/ \E m \in FileName : RenameFile(n, m)

(* The client asks on, and nfsserve runs the handler.                      *)
ReaddirSpec ==
  /\ ReaddirInit
  /\ [][ReaddirNext]_readdirVars
  /\ WF_readdirVars(ReaddirStep)

-----------------------------------------------------------------------------
(* A listing of a directory that stays as it is shows every file exactly   *)
(* once, whether it is staged, local, a placeholder or several of them.    *)
NfsListingExact ==
  ended /\ changed = 0 => shown = FileNames /\ ~repeated

(* No change to one file ever hides another.  A name that is there for     *)
(* every READDIR of a listing is in the listing, whatever is created,      *)
(* removed, evicted, downloaded, copied up or promoted around it and       *)
(* wherever the cookie's entry has gone.  Renames are exempt: the cookie's *)
(* inode takes its new name's place, and the names up to there are skipped.*)
OthersHideNothing ==
  ended /\ ~renamed => untouched \subseteq shown

(* A listing ends, wherever earlier changes have left its cookie.           *)
ListingsEnd == <>ended

-----------------------------------------------------------------------------
(* What the proofs rest on.                                                *)

DirectoriesOK ==
  /\ \A n \in staged : ~is_icloud_stub(n)
  /\ IsFiniteSet(cloud) /\ IsFiniteSet(staged) /\ IsFiniteSet(work.entries)

(* The READDIR at work knows the entries of the names nobody has touched.  *)
EntriesSeen ==
  \A n \in untouched, e \in FileName : RealName(e) = n =>
    /\ work.pc = "stat" => (e \in work.entries <=> e \in cloud)
    /\ work.pc = "reply" /\ e \in cloud =>
         \E f \in work.entries : RealName(f) = n

(* A listing that goes on after m leaves nothing out.                      *)
NothingBefore(m) == \A n \in untouched : n \in shown \/ m.base < n.base

CookieInv ==
  ~renamed => \A m \in work.marked \cup ({cookie} \ {NoName}) : NothingBefore(m)

(* While nothing changes, every READDIR gives the same listing.            *)
Listing == {e \in cloud : Listed(cloud, e)}

QuietInv ==
  changed = 0 =>
    /\ untouched = FileNames /\ shown \subseteq FileNames
    /\ ~renamed /\ ~repeated
    /\ cookie # NoName => cookie \in Overlaid(Listing)
    /\ \A n \in shown : cookie # NoName /\ n.base <= cookie.base
    /\ work.pc = "stat" => work.entries = cloud
    /\ work.pc = "reply" =>
         work.entries = Listing /\ work.marked = Listing \cap {cookie}

(* A listing through the NFS server has shown or has still to come to      *)
(* every name nobody has touched: the inductive invariant behind           *)
(* NfsListingExact and OthersHideNothing.                                  *)
ReaddirInv ==
  /\ NfsListingTypeOK /\ DirectoriesOK
  /\ EntriesSeen /\ CookieInv /\ QuietInv
  /\ OthersHideNothing

=============================================================================
