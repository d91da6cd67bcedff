------------------------------- MODULE IcloudNfs -------------------------------
(***************************************************************************)
(* The NFS server's request handlers (nfs-server/src/icloud_nfs.rs) for    *)
(* the files of one exported directory, over the two layers and the        *)
(* promoter of module StagingLayer.                                        *)
(*                                                                         *)
(* Every RPC is a task of its own on a multi-threaded runtime.  A handler  *)
(* holds a lock only around one access to the inode table, never across    *)
(* its file system calls, so a step here is one file system call or one    *)
(* critical section, and all other tasks run in between.                   *)
(*                                                                         *)
(* A placeholder ".name.icloud" in the iCloud directory is stub[name]: the *)
(* bytes that a download will bring, or None when there is no placeholder. *)
(***************************************************************************)
EXTENDS StagingLayer, FiniteSets

CONSTANTS
  Workers,     \* requests that may be in progress at the same time
  Ops,         \* Ops[w]: the operations that worker w is used for
  StubBytes,   \* what the placeholder file itself contains
  Evictions,   \* whether macOS evicts files of this directory
  MaxIno       \* bound on the inodes handed out in one server lifetime

NameOps   == {"lookup", "create", "exclusive", "remove", "rename"}
HandleOps == {"read", "write", "truncate"}

Payloads == Writes \ {StubBytes}

VARIABLES
  stub,      \* placeholders in the iCloud directory
  inodes,    \* the inode table: fileid -> InodeData, or None
  next_ino,  \* the next fileid
  req,       \* the request each worker is executing
  safe,      \* history: acknowledged writes that must not be lost
  due        \* history: those of them that a read in progress must return

nfs  == <<stub, inodes, next_ino, req, safe, due>>
hist == <<safe, due>>
vars == <<disk, nfs>>

Inos == 2..MaxIno

(* real_path (the placeholder's path if stub) and the name whose staging   *)
(* path is staged_path.                                                    *)
InodeData == [name: Names, stub: BOOLEAN, staged: Names \cup {None}]

(* MaxIno leaves room for the inodes of a restart with every file staged.  *)
ASSUME ServerAssumption ==
  /\ StubBytes \in Writes
  /\ Evictions \in BOOLEAN
  /\ Ops \in [Workers -> SUBSET (NameOps \cup HandleOps)]
  /\ IsFiniteSet(Names)
  /\ MaxIno \in Nat /\ Cardinality(Names) < MaxIno
  /\ None \notin Inos \cup InodeData

Pcs == {"idle", "resolve", "resolve_stub", "check_staged", "stat", "alloc",
        "set_staged", "handle", "path", "hydrate", "copy_up", "io", "create",
        "sattr", "remove_staged", "remove_cloud", "remove_inode", "drop_inode",
        "rename_check", "rename_staged", "rename_cloud", "rename_inode", "reply"}

Statuses == {"ok", "noent", "stale", "io", "exist"}
Paths    == {"none", "real", "stub"}

(* found is what resolve_child saw, up whether the staged copy is used.    *)
(* clobber is history: an exclusive create hit an existing file.           *)
Request ==
  [pc: Pcs, op: NameOps \cup HandleOps \cup {None}, name: Names \cup {None},
   to: Names \cup {None}, ino: Inos \cup {None}, data: Writes \cup {None},
   found: Paths, up: BOOLEAN, bytes: File, status: Statuses, clobber: BOOLEAN]

Idle == [pc |-> "idle", op |-> None, name |-> None, to |-> None, ino |-> None,
         data |-> None, found |-> "none", up |-> FALSE, bytes |-> None,
         status |-> "ok", clobber |-> FALSE]

NfsTypeOK ==
  /\ TypeOK
  /\ stub \in [Names -> File]
  /\ inodes \in [Inos -> {None} \cup InodeData]
  /\ next_ino \in 2..(MaxIno + 1)
  /\ req \in [Workers -> Request]
  /\ safe \in [Names -> SUBSET Writes]
  /\ due \in [Workers -> SUBSET Writes]

(* The server starts.  Whatever its last life left in the staging directory*)
(* has been acknowledged.                                                  *)
NfsInit ==
  /\ Init
  /\ staged \in [Names -> {None, Payloads}]
  /\ tmp = [n \in Names |-> None]
  /\ cloud \in [Names -> {None, {}}]
  /\ stub \in [Names -> {None, {}}]
  /\ Evictions \/ stub = [n \in Names |-> None]
  /\ \A n \in Names : cloud[n] = None \/ stub[n] = None
  /\ inodes = [i \in Inos |-> None]
  /\ next_ino = 2
  /\ req = [w \in Workers |-> Idle]
  /\ safe = [n \in Names |-> IF staged[n] = None THEN {} ELSE staged[n]]
  /\ due = [w \in Workers |-> {}]

(* The bytes a name stands for, wherever they are.                         *)
Stored(n) == IF Visible(n) # None THEN Visible(n) ELSE stub[n]

At(w, p) == req[w].pc = p

Become(w, r) == req' = [req EXCEPT ![w] = r]
Goto(w, p)   == Become(w, [req[w] EXCEPT !.pc = p])
Reply(w, s)  == Become(w, [req[w] EXCEPT !.pc = "reply", !.status = s])

(* The inodes whose real_path is the name's, as a file or a placeholder.   *)
InodesAt(n, isStub) ==
  {i \in Inos : inodes[i] # None /\ inodes[i].name = n /\ inodes[i].stub = isStub}
InodesOf(n) == InodesAt(n, TRUE) \cup InodesAt(n, FALSE)

Table == <<inodes, next_ino>>

(* The files in S are replaced, removed or renamed.                        *)
Replaced(S) ==
  /\ safe' = [n \in Names |-> IF n \in S THEN {} ELSE safe[n]]
  /\ due' = [w \in Workers |-> IF req[w].name \in S THEN {} ELSE due[w]]

-----------------------------------------------------------------------------
(* A request arrives and its reply leaves.                                 *)

(* Slip: create_exclusive looks at iCloud only.                            *)
FirstPc_NoStagedCheck ==
  [lookup |-> "resolve", create |-> "create", exclusive |-> "resolve",
   remove |-> "remove_staged", rename |-> "rename_check", read |-> "handle",
   write |-> "handle", truncate |-> "handle"]

FirstPc == [lookup |-> "resolve", create |-> "create",
            exclusive |-> "check_staged", remove |-> "remove_staged",
            rename |-> "rename_check", read |-> "handle", write |-> "handle",
            truncate |-> "handle"]

(* MaxIno bounds the model: no request starts that might not get an inode. *)
Allocators == {"lookup", "create", "exclusive"}

InodeLeftFor(op) ==
  op \in Allocators =>
    next_ino + Cardinality({w \in Workers : /\ req[w].op \in Allocators
                                            /\ req[w].ino = None}) <= MaxIno

Arrive(w) ==
  /\ Serving
  /\ At(w, "idle")
  /\ \E op \in {o \in Ops[w] : InodeLeftFor(o)} :
       \/ /\ op \in NameOps \ {"rename"}
          /\ \E n \in Names :
               Become(w, [Idle EXCEPT !.pc = FirstPc[op], !.op = op, !.name = n])
       \/ /\ op = "rename"
          /\ \E a, b \in Names :
               Become(w, [Idle EXCEPT !.pc = FirstPc[op], !.op = op,
                                      !.name = a, !.to = b])
       \/ /\ op \in HandleOps
          /\ \E i \in 2..(next_ino - 1), d \in IF op = "write" THEN Payloads ELSE {None} :
               Become(w, [Idle EXCEPT !.pc = FirstPc[op], !.op = op, !.ino = i,
                                      !.data = d])
  /\ UNCHANGED <<disk, stub, Table, hist>>

Respond(w) ==
  /\ At(w, "reply")
  /\ Become(w, Idle)
  /\ due' = [due EXCEPT ![w] = {}]
  /\ UNCHANGED <<disk, stub, Table, safe>>

-----------------------------------------------------------------------------
(* resolve_child: the literal name first, then the placeholder's name;     *)
(* then what the operation does with the path it found or did not find.    *)

IfFound == [lookup |-> "check_staged", exclusive |-> "reply",
            remove |-> "remove_cloud", rename |-> "rename_cloud"]
IfMissing == [lookup |-> "check_staged", exclusive |-> "create",
              remove |-> "remove_inode", rename |-> "rename_inode"]

Resolved(w, found) ==
  LET op == req[w].op IN
  Become(w, [req[w] EXCEPT
    !.found = found,
    !.pc = IF found = "none" THEN IfMissing[op] ELSE IfFound[op],
    !.status = IF op = "exclusive" /\ found # "none" THEN "exist" ELSE @])

Resolve(w) ==
  /\ At(w, "resolve")
  /\ IF cloud[req[w].name] # None THEN Resolved(w, "real")
                                  ELSE Goto(w, "resolve_stub")
  /\ UNCHANGED <<disk, stub, Table, hist>>

ResolveStub(w) ==
  /\ At(w, "resolve_stub")
  /\ Resolved(w, IF stub[req[w].name] # None THEN "stub" ELSE "none")
  /\ UNCHANGED <<disk, stub, Table, hist>>

(* The path that resolve_child found is gone when the handler uses it.     *)
ResolvedGone(w) ==
  IF req[w].found = "real" THEN cloud[req[w].name] = None
                           ELSE stub[req[w].name] = None

(* StagingLayer::is_staged: after resolve_child in lookup, before it in    *)
(* create_exclusive.                                                       *)
CheckStaged(w) ==
  /\ At(w, "check_staged")
  /\ LET up == staged[req[w].name] # None
         r  == [req[w] EXCEPT !.up = up]
     IN IF r.op = "exclusive"
        THEN IF up THEN Reply(w, "exist") ELSE Goto(w, "resolve")
        ELSE IF up \/ r.found # "none"
             THEN Become(w, [r EXCEPT !.pc = "stat"])
             ELSE Reply(w, "noent")
  /\ UNCHANGED <<disk, stub, Table, hist>>

(* lookup's symlink_metadata of the staged or the resolved path.           *)
Stat(w) ==
  /\ At(w, "stat")
  /\ LET r == req[w]
         target == IF r.up THEN staged[r.name]
                   ELSE IF r.found = "real" THEN cloud[r.name] ELSE stub[r.name]
     IN IF target = None THEN Reply(w, "noent") ELSE Goto(w, "alloc")
  /\ UNCHANGED <<disk, stub, Table, hist>>

(* get_or_alloc_inode, under the write lock.                               *)
Alloc(w) ==
  /\ At(w, "alloc")
  /\ LET r      == req[w]
         isStub == r.op = "lookup" /\ r.found = "stub"
         next   == IF r.op = "lookup" /\ ~r.up THEN "reply" ELSE "set_staged"
     IN \/ \E i \in InodesAt(r.name, isStub) :
             /\ Become(w, [r EXCEPT !.pc = next, !.ino = i])
             /\ UNCHANGED Table
        \/ /\ InodesAt(r.name, isStub) = {}
           /\ next_ino \in Inos
           /\ inodes' = [inodes EXCEPT ![next_ino] =
                [name |-> r.name, stub |-> isStub, staged |-> None]]
           /\ next_ino' = next_ino + 1
           /\ Become(w, [r EXCEPT !.pc = next, !.ino = next_ino])
  /\ UNCHANGED <<disk, stub, hist>>

(* set_staged_path, a critical section of its own.  create then reads the  *)
(* staged file's metadata for its reply.                                   *)
SetStagedPath(w) ==
  /\ At(w, "set_staged")
  /\ LET r == req[w] IN
     /\ inodes' = IF inodes[r.ino] = None THEN inodes
                  ELSE [inodes EXCEPT ![r.ino].staged = r.name]
     /\ IF r.op \in HandleOps
        THEN Become(w, [r EXCEPT !.pc = "io", !.up = TRUE])
        ELSE IF r.op = "create" /\ staged[r.name] = None
        THEN Reply(w, "io")
        ELSE Reply(w, "ok")
  /\ UNCHANGED <<disk, stub, next_ino, hist>>

-----------------------------------------------------------------------------
(* read, write and setattr(size) work on a handle: ensure_staged and       *)
(* ensure_hydrated, then the I/O on the path they return.                  *)

(* Slip: a staged file is copied up again for every write.                 *)
UsesStaged_CopyUpAgain(r, d) == d.staged # None /\ r.op = "read"

(* Slip: read goes to iCloud although the file is staged.                  *)
UsesStaged_ReadsLower(r, d) == d.staged # None /\ r.op # "read"

UsesStaged(r, d) == d.staged # None

UseHandle(w) ==
  /\ At(w, "handle")
  /\ LET r == req[w]
         d == inodes[r.ino]
     IN IF d = None THEN Goto(w, "path") /\ UNCHANGED due
        ELSE /\ IF UsesStaged(r, d)
                THEN Become(w, [r EXCEPT !.pc = "io", !.name = d.staged, !.up = TRUE])
                ELSE Become(w, [r EXCEPT !.pc = "path", !.name = d.name])
             /\ due' = [due EXCEPT ![w] = IF r.op = "read" THEN safe[d.name]
                                                           ELSE {}]
  /\ UNCHANGED <<disk, stub, Table, safe>>

(* ensure_hydrated reads the table again.                                  *)
UsePath(w) ==
  /\ At(w, "path")
  /\ LET r == req[w]
         d == inodes[r.ino]
     IN IF d = None THEN Reply(w, "stale")
        ELSE Become(w, [r EXCEPT !.name = d.name,
                                 !.pc = IF d.stub THEN "hydrate"
                                        ELSE IF r.op = "read" THEN "io"
                                        ELSE "copy_up"])
  /\ UNCHANGED <<disk, stub, Table, hist>>

(* Slip: the inode is inserted, even if it was removed meanwhile.          *)
SetRealPath_Inserts(i, n) ==
  [inodes EXCEPT ![i] = [name |-> n, stub |-> FALSE, staged |-> None]]

SetRealPath(i, n) ==
  IF inodes[i] = None THEN inodes
  ELSE [inodes EXCEPT ![i].name = n, ![i].stub = FALSE]

(* The daemon answers the hydrate message: the file is local and the inode *)
(* now means the real path, or it failed or the 300 s timeout expired.     *)
Hydrated(w) ==
  /\ At(w, "hydrate")
  /\ stub[req[w].name] = None
  /\ inodes' = SetRealPath(req[w].ino, req[w].name)
  /\ Goto(w, IF req[w].op = "read" THEN "io" ELSE "copy_up")
  /\ UNCHANGED <<disk, stub, next_ino, hist>>

(* Slip: the client waits for the daemon without a timeout.                *)
HydrateFails_NoTimeout(w) ==
  /\ At(w, "hydrate")
  /\ stub[req[w].name] = None
  /\ Reply(w, "io")
  /\ UNCHANGED <<disk, stub, Table, hist>>

HydrateFails(w) ==
  /\ At(w, "hydrate")
  /\ Reply(w, "io")
  /\ UNCHANGED <<disk, stub, Table, hist>>

CopyUpHandle(w) ==
  /\ At(w, "copy_up")
  /\ LET n == req[w].name IN
     \/ CopyUp(n) /\ Goto(w, "set_staged") /\ UNCHANGED hist
     \/ CopyUpFails(n) /\ Reply(w, "io") /\ Replaced({n})
     \/ cloud[n] = None /\ Reply(w, "io") /\ UNCHANGED <<disk, hist>>
  /\ UNCHANGED <<stub, Table>>

(* A write is safe from its acknowledgement on, unless it hit the file     *)
(* between the promoter's copy and its removal.                            *)
WriteIo(w) ==
  /\ At(w, "io")
  /\ LET r == req[w]
         n == r.name
         promoting == prom.pc \in {"publish", "unlink"} /\ prom.name = n
     IN
     \/ /\ r.op = "write"
        /\ WriteStaged(n, r.data)
        /\ Reply(w, "ok")
        /\ safe' = IF promoting \/ staged[n] = Torn THEN safe
                   ELSE [safe EXCEPT ![n] = @ \cup {r.data}]
        /\ UNCHANGED due
     \/ /\ r.op = "truncate"
        /\ TruncateStaged(n)
        /\ Reply(w, "ok")
        /\ Replaced({n})
     \/ /\ r.op # "read"
        /\ staged[n] = None
        /\ Reply(w, "io")
        /\ UNCHANGED <<disk, hist>>
  /\ UNCHANGED <<stub, Table>>

(* Slip: read opens whatever resolve_child finds now.                      *)
OpenPath_Resolves(r) ==
  IF r.up THEN staged[r.name]
  ELSE IF cloud[r.name] = None /\ stub[r.name] # None THEN {StubBytes}
  ELSE cloud[r.name]

OpenPath(r) == IF r.up THEN staged[r.name] ELSE cloud[r.name]

ReadIo(w) ==
  /\ At(w, "io")
  /\ req[w].op = "read"
  /\ LET r   == req[w]
         src == OpenPath(r)
     IN IF src = None THEN Reply(w, "io")
        ELSE Become(w, [r EXCEPT !.pc = "reply", !.status = "ok", !.bytes = src])
  /\ UNCHANGED <<disk, stub, Table, hist>>

-----------------------------------------------------------------------------
(* create and create_exclusive: StagingLayer::create_file, then the inode. *)
(* In between, create applies the client's attributes to the staged path.  *)

Create(w) ==
  /\ At(w, "create")
  /\ LET r == req[w] IN
     /\ CreateFile(r.name)
     /\ Become(w, [r EXCEPT !.pc = IF r.op = "create" THEN "sattr" ELSE "alloc",
                            !.clobber = r.op = "exclusive" /\ Stored(r.name) # None])
     /\ Replaced({r.name})
  /\ UNCHANGED <<stub, Table>>

(* apply_sattr: no attributes, a size, or the file is no longer staged.    *)
SetAttr(w) ==
  /\ At(w, "sattr")
  /\ LET n == req[w].name IN
     \/ Goto(w, "alloc") /\ UNCHANGED <<disk, hist>>
     \/ TruncateStaged(n) /\ Goto(w, "alloc") /\ Replaced({n})
     \/ staged[n] = None /\ Reply(w, "io") /\ UNCHANGED <<disk, hist>>
  /\ UNCHANGED <<stub, Table>>

(* remove: the staged copy, then iCloud's file or placeholder, then one    *)
(* inode of that name, found under the read lock and removed under another.*)
RemoveUpper(w) ==
  /\ At(w, "remove_staged")
  /\ IF staged[req[w].name] # None THEN RemoveStaged(req[w].name)
                                   ELSE UNCHANGED disk
  /\ Goto(w, "resolve")
  /\ Replaced({req[w].name})
  /\ UNCHANGED <<stub, Table>>

RemoveLower(w) ==
  /\ At(w, "remove_cloud")
  /\ LET n == req[w].name IN
     \/ /\ req[w].found = "real"
        /\ RemoveCloud(n)
        /\ Goto(w, "remove_inode")
        /\ UNCHANGED stub
     \/ /\ req[w].found = "stub"
        /\ stub[n] # None
        /\ stub' = [stub EXCEPT ![n] = None]
        /\ Goto(w, "remove_inode")
        /\ UNCHANGED disk
     \/ ResolvedGone(w) /\ Reply(w, "io") /\ UNCHANGED <<disk, stub>>
  /\ UNCHANGED <<Table, hist>>

FindInode(w) ==
  /\ At(w, "remove_inode")
  /\ LET r == req[w] IN
     IF InodesOf(r.name) = {} THEN Reply(w, "ok")
     ELSE \E i \in InodesOf(r.name) :
            Become(w, [r EXCEPT !.pc = "drop_inode", !.ino = i])
  /\ UNCHANGED <<disk, stub, Table, hist>>

RemoveInode(w) ==
  /\ At(w, "drop_inode")
  /\ inodes' = [inodes EXCEPT ![req[w].ino] = None]
  /\ Reply(w, "ok")
  /\ UNCHANGED <<disk, stub, next_ino, hist>>

(* rename: is_staged, the staged copy, iCloud's file or placeholder (which *)
(* gets the plain new name), then one inode of the old name.               *)
RenameCheck(w) ==
  /\ At(w, "rename_check")
  /\ LET up == staged[req[w].name] # None IN
     Become(w, [req[w] EXCEPT !.up = up,
                  !.pc = IF up THEN "rename_staged" ELSE "resolve"])
  /\ Replaced({req[w].name, req[w].to})
  /\ UNCHANGED <<disk, stub, Table>>

(* Slip: the staged copy gets a second name instead of a new one.          *)
RenameUpper_Links(w) ==
  /\ At(w, "rename_staged")
  /\ LET r == req[w] IN
     \/ /\ staged[r.name] # None
        /\ staged' = [staged EXCEPT ![r.to] = staged[r.name]]
        /\ aged' = IF r.name \in aged THEN aged \cup {r.to} ELSE aged \ {r.to}
        /\ Touch({r.name, r.to})
        /\ Goto(w, "resolve")
        /\ UNCHANGED <<cloud, tmp, faults>>
     \/ staged[r.name] = None /\ Reply(w, "io") /\ UNCHANGED disk
  /\ UNCHANGED <<stub, Table, hist>>

RenameUpper(w) ==
  /\ At(w, "rename_staged")
  /\ LET r == req[w] IN
     \/ RenameStaged(r.name, r.to) /\ Goto(w, "resolve")
     \/ staged[r.name] = None /\ Reply(w, "io") /\ UNCHANGED disk
  /\ UNCHANGED <<stub, Table, hist>>

RenameLower(w) ==
  /\ At(w, "rename_cloud")
  /\ LET r == req[w] IN
     \/ /\ r.found = "real"
        /\ RenameCloud(r.name, r.to)
        /\ Goto(w, "rename_inode")
        /\ UNCHANGED stub
     \/ /\ r.found = "stub"
        /\ stub[r.name] # None
        /\ SyncCloud(r.to, {StubBytes})
        /\ stub' = [stub EXCEPT ![r.name] = None]
        /\ Goto(w, "rename_inode")
     \/ ResolvedGone(w) /\ Reply(w, "io") /\ UNCHANGED <<disk, stub>>
  /\ UNCHANGED <<Table, hist>>

RenameInode(w) ==
  /\ At(w, "rename_inode")
  /\ LET r == req[w] IN
     IF InodesOf(r.name) = {} THEN UNCHANGED inodes
     ELSE \E i \in InodesOf(r.name) :
            inodes' = [inodes EXCEPT ![i] =
              [name |-> r.to, stub |-> FALSE,
               staged |-> IF r.up THEN r.to ELSE inodes[i].staged]]
  /\ Reply(w, "ok")
  /\ UNCHANGED <<disk, stub, next_ino, hist>>

(* Any file system call of a handler may fail: the contents stay and the   *)
(* client gets an error.  A write that fails may have extended the file    *)
(* (set_len) before, and write_at's count is not looked at: a short write  *)
(* is acknowledged like a whole one.                                       *)
Fallible == {"stat", "io", "create", "sattr", "remove_cloud", "rename_staged",
             "rename_cloud"}

CallFails(w) ==
  /\ req[w].pc \in Fallible
  /\ OperationFails(req[w].name)
  /\ IF At(w, "io") /\ req[w].op = "write"
     THEN Reply(w, "io") \/ Reply(w, "ok")
     ELSE UNCHANGED aged /\ Reply(w, IF At(w, "stat") THEN "noent" ELSE "io")
  /\ UNCHANGED <<stub, Table, hist>>

-----------------------------------------------------------------------------
(* iCloud: a file is replaced by a placeholder, or downloaded again.       *)

Evict(n) ==
  /\ Evictions
  /\ cloud[n] \notin {None, Torn}
  /\ stub[n] = None
  /\ SyncCloud(n, None)
  /\ stub' = [stub EXCEPT ![n] = cloud[n]]
  /\ UNCHANGED <<Table, req, hist>>

Download(n) ==
  /\ stub[n] # None
  /\ cloud[n] = None
  /\ SyncCloud(n, stub[n])
  /\ stub' = [stub EXCEPT ![n] = None]
  /\ UNCHANGED <<Table, req, hist>>

(* Slip: the restart counts from 2 again.                                  *)
NextIno_Fresh(left) == 2

NextIno(left) == 2 + Cardinality(left)

(* When promote_all is done, IcloudNfs::new gives an inode to every file   *)
(* that is still staged, in directory order.                               *)
NewServer ==
  /\ EndWalk
  /\ prom.boot
  /\ LET left  == {n \in Names : staged[n] # None}
         order == {f \in [left -> 2..(Cardinality(left) + 1)] :
                     \A a, b \in left : f[a] = f[b] => a = b}
     IN \E f \in order :
          /\ inodes' = [i \in Inos |->
               IF \E n \in left : f[n] = i
               THEN LET n == CHOOSE m \in left : f[m] = i IN
                    [name |-> n, stub |-> FALSE, staged |-> n]
               ELSE None]
          /\ next_ino' = NextIno(left)
  /\ UNCHANGED <<stub, req, hist>>

Background ==
  \/ PromoterStep /\ ~(EndWalk /\ prom.boot) /\ UNCHANGED nfs
  \/ NewServer

TimePasses(n) == Age(n) /\ UNCHANGED nfs

(* Slip: the staging directory starts out empty after a restart.           *)
ServerCrash_ClearsStaging ==
  /\ Fault
  /\ prom' = Starting
  /\ staged' = [n \in Names |-> None]
  /\ safe' = safe
  /\ due' = [w \in Workers |-> {}]
  /\ inodes' = [i \in Inos |-> None]
  /\ next_ino' = 2
  /\ req' = [w \in Workers |-> Idle]
  /\ UNCHANGED <<stub, cloud, tmp, aged>>

(* The server dies: requests and the inode table are lost, and so is the   *)
(* rest of each copy-up in progress.                                       *)
ServerCrash ==
  /\ Crash
  /\ LET cut == {n \in Names : staged'[n] # staged[n]} IN
     /\ \A n \in cut : \E w \in Workers : At(w, "copy_up") /\ req[w].name = n
     /\ safe' = [n \in Names |-> IF n \in cut THEN {} ELSE safe[n]]
  /\ due' = [w \in Workers |-> {}]
  /\ inodes' = [i \in Inos |-> None]
  /\ next_ino' = 2
  /\ req' = [w \in Workers |-> Idle]
  /\ UNCHANGED stub

HandlerStep(w) ==
  \/ Resolve(w) \/ ResolveStub(w) \/ CheckStaged(w) \/ Stat(w) \/ Alloc(w)
  \/ SetStagedPath(w) \/ UseHandle(w) \/ UsePath(w) \/ Hydrated(w) \/ HydrateFails(w)
  \/ CopyUpHandle(w) \/ WriteIo(w) \/ ReadIo(w) \/ Create(w) \/ SetAttr(w)
  \/ RemoveUpper(w) \/ RemoveLower(w) \/ FindInode(w) \/ RemoveInode(w)
  \/ RenameCheck(w) \/ RenameUpper(w) \/ RenameLower(w) \/ RenameInode(w)
  \/ Respond(w)

WorkerStep(w) == HandlerStep(w) \/ CallFails(w)

NfsNext ==
  \/ \E w \in Workers : Arrive(w) \/ WorkerStep(w)
  \/ \E n \in Names : Evict(n) \/ Download(n) \/ TimePasses(n)
  \/ Background
  \/ ServerCrash

NfsFairness == /\ \A w \in Workers : WF_vars(HandlerStep(w))
               /\ WF_vars(Background)
               /\ \A n \in Names : SF_vars(TimePasses(n))

NfsSpec == NfsInit /\ [][NfsNext]_vars /\ NfsFairness

-----------------------------------------------------------------------------
(* An acknowledged write stays readable under its name until a client      *)
(* replaces or removes the file, through promotions, failures, crashes and *)
(* restarts; only a write during the promotion of that very file and a     *)
(* file whose copy-up was cut short are exempt (see Replaced and WriteIo).  *)
SafeWritesKept ==
  \A n \in Names : safe[n] # {} =>
    Stored(n) \notin {None, Torn} /\ safe[n] \subseteq Stored(n)

(* A read that succeeds returns every safe write acknowledged before it    *)
(* began, whichever of the layers it was directed to.                      *)
ReadsFresh ==
  \A w \in Workers :
    At(w, "reply") /\ req[w].status = "ok" /\ due[w] # {} =>
      req[w].bytes # Torn /\ due[w] \subseteq req[w].bytes

(* create_exclusive never empties a file that exists, even one that the    *)
(* promoter is moving from staging to iCloud between its two checks.       *)
ExclusiveCreatesNew == \A w \in Workers : ~req[w].clobber

Renames == \E w \in Workers : "rename" \in Ops[w]

(* While the server runs, a fileid that it has given out means the same    *)
(* name until the file is removed, and nothing from then on, however late  *)
(* a lookup, a create or a hydration finishes and whatever was staged when *)
(* the server started.  (A rename gives its fileid another name, and a     *)
(* hydration that began before the rename turns it back: with renames only *)
(* the second half holds.)                                                 *)
FileidStep ==
  Serving /\ Serving' =>
    \A i \in Inos :
      /\ inodes[i] # None =>
           inodes'[i] = None \/ Renames \/ inodes'[i].name = inodes[i].name
      /\ inodes[i] = None /\ i < next_ino => inodes'[i] = None
FileidsNotReused == [][FileidStep]_vars

(* Clients never read a placeholder's bytes, and the server never copies   *)
(* them into either layer.                                                 *)
NoPlaceholderServed ==
  /\ \A n \in Names, c \in {staged, cloud} :
       c[n] \in {None, Torn} \/ StubBytes \notin c[n]
  /\ \A w \in Workers :
       req[w].bytes \in {None, Torn} \/ StubBytes \notin req[w].bytes

(* Every request is answered.                                              *)
RequestsAnswered == \A w \in Workers : ~At(w, "idle") ~> At(w, "idle")

(* The handlers, the crash and the restart use the two layers only as      *)
(* StagingLayer allows, so what is proved there holds of the server.       *)
ImplementsLayer == Spec

-----------------------------------------------------------------------------
(* What the proofs rest on.                                                *)

ByName   == {"lookup", "exclusive", "remove", "rename"}
ByHandle == {"handle", "path", "hydrate", "copy_up", "io"}

(* A handler is where its operation can be, with what it needs there.      *)
RequestOK(w, r) ==
  /\ r.pc = "idle" => r = Idle
  /\ r.pc # "idle" => r.op \in Ops[w]
  /\ r.pc # "idle" /\ r.op \in NameOps => r.name \in Names
  /\ r.pc # "idle" /\ r.op = "rename" => r.to \in Names
  /\ r.pc # "idle" /\ r.op = "write" => r.data \in Payloads
  /\ r.pc \in {"resolve", "resolve_stub"} => r.op \in ByName
  /\ r.pc = "check_staged" => r.op \in {"lookup", "exclusive"}
  /\ r.pc = "stat" => r.op = "lookup"
  /\ r.pc = "alloc" => r.op \in Allocators
  /\ r.pc = "create" => r.op \in {"create", "exclusive"}
  /\ r.pc = "sattr" => r.op = "create"
  /\ r.pc \in {"remove_staged", "remove_cloud", "remove_inode", "drop_inode"} =>
       r.op = "remove"
  /\ r.pc \in {"rename_check", "rename_staged", "rename_cloud", "rename_inode"} =>
       r.op = "rename"
  /\ r.pc \in ByHandle => r.op \in HandleOps
  /\ r.pc = "copy_up" => r.op # "read"
  /\ r.pc = "set_staged" => r.op \in Allocators \cup {"write", "truncate"}
  /\ r.pc \in {"hydrate", "copy_up", "io", "set_staged"} => r.name \in Names
  /\ r.pc \in ByHandle \cup {"set_staged", "drop_inode"} => r.ino \in Inos

(* Requests run while the server does, on fileids it has given out; what   *)
(* it has not given out means nothing; placeholders come from evictions.   *)
ServerInv ==
  /\ NfsTypeOK
  /\ \A w \in Workers : RequestOK(w, req[w])
  /\ \A w \in Workers : ~At(w, "idle") => Serving
  /\ \A w \in Workers : req[w].ino \in Inos => req[w].ino < next_ino
  /\ \A i \in Inos : i >= next_ino => inodes[i] = None
  /\ \A n \in Names : stub[n] # Torn /\ (stub[n] # None => Evictions)

-----------------------------------------------------------------------------
(* What the documentation says and the code does not always do.            *)

(* The promoter only removes a staged file that is, byte for byte, in      *)
(* iCloud: no write is dropped on its way from staging to iCloud.          *)
PromotedWhole == [][Unlink => staged[prom.name] = cloud[prom.name]]_vars

(* While nothing is going on, an inode that says "staged" has its staged   *)
(* file, so its handle can be read and written.                            *)
StagedPathsPresent ==
  Serving /\ prom.pc = "sleep" /\ (\A w \in Workers : At(w, "idle")) =>
    \A i \in Inos :
      inodes[i] # None /\ inodes[i].staged # None => staged[inodes[i].staged] # None

(* A lookup that finds the file in neither of the layers is right.         *)
LookupsFind ==
  \A w \in Workers :
    LET r == req[w] IN
    /\ At(w, "reply") /\ r.op = "lookup" /\ r.status = "noent"
    /\ r.found = "none" /\ ~r.up
    => Stored(r.name) = None

=============================================================================
