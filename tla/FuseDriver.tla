------------------------------ MODULE FuseDriver ------------------------------
(***************************************************************************)
(* The FUSE driver (fuse-driver/src/passthrough.rs): the inode table with  *)
(* its lookup counts, and the open files, for one directory of files.      *)
(*                                                                         *)
(* Every method takes &self and the tables have locks of their own, so the *)
(* driver may run several requests at once.  A step is one file system     *)
(* call, one IPC call or one critical section of the inode table; a reply  *)
(* that hands out an inode is sent inside the critical section.            *)
(*                                                                         *)
(* The kernel is the caller.  It counts the replies that named an inode,   *)
(* gives the count back with FORGET when it drops the inode, and does not  *)
(* drop one that it is opening or holds open.                              *)
(***************************************************************************)
EXTENDS Naturals, FiniteSets

CONSTANTS
  Names,     \* file names, as a client knows them
  Threads,   \* requests that may be in progress at the same time
  MaxIno,    \* bound on the inode numbers handed out
  MaxFh,     \* bound on the file handles handed out
  MaxRefs,   \* bound on the references the kernel takes on one inode
  None

ASSUME DriverAssumption ==
  /\ MaxIno \in Nat /\ MaxFh \in Nat /\ MaxRefs \in Nat
  /\ None \notin Names /\ None \notin Nat
  /\ None \notin [name: Names, stub: BOOLEAN, lookup_count: Nat]
  /\ None \notin [ino: Nat, stub: BOOLEAN]

VARIABLES
  disk,      \* which of the file and its placeholder the directory holds
  inodes,    \* the inode table: inode -> InodeData, or None
  next_ino,  \* the next inode number
  handles,   \* the open files: file handle -> HandleData, or None
  next_fh,   \* the next file handle
  task,      \* the request each thread is executing
  refs,      \* the kernel's references to each inode
  forgets    \* references it gave back in FORGETs that are on their way

table  == <<inodes, next_ino>>
files  == <<handles, next_fh>>
kernel == <<refs, forgets>>
vars   == <<disk, table, files, task, kernel>>

Inos == 2..MaxIno
Fhs  == 1..MaxFh

(* real_path is the file's or its placeholder's.                           *)
InodeData  == [name: Names, stub: BOOLEAN, lookup_count: Nat \ {0}]
(* The file that is open, and the inode it was opened for.                 *)
HandleData == [ino: Inos, stub: BOOLEAN]

(* name and stub are the path the handler works on.                        *)
Task == [pc: {"idle", "resolve", "resolve_stub", "stat", "entry",
              "path", "hydrate", "open"},
         name: Names \cup {None}, stub: BOOLEAN, ino: Inos \cup {None}]

Idle == [pc |-> "idle", name |-> None, stub |-> FALSE, ino |-> None]

DriverTypeOK ==
  /\ disk \in [Names -> SUBSET {"real", "stub"}]
  /\ inodes \in [Inos -> InodeData \cup {None}]
  /\ next_ino \in Nat
  /\ handles \in [Fhs -> HandleData \cup {None}]
  /\ next_fh \in Nat
  /\ task \in [Threads -> Task]
  /\ refs \in [Inos -> Nat]
  /\ forgets \in [Inos -> Nat]

Init ==
  /\ disk \in [Names -> SUBSET {"real", "stub"}]
  /\ inodes = [i \in Inos |-> None]
  /\ next_ino = 2
  /\ handles = [f \in Fhs |-> None]
  /\ next_fh = 1
  /\ task = [t \in Threads |-> Idle]
  /\ refs = [i \in Inos |-> 0]
  /\ forgets = [i \in Inos |-> 0]

At(t, p) == task[t].pc = p

Become(t, r) == task' = [task EXCEPT ![t] = r]
Goto(t, p)   == Become(t, [task[t] EXCEPT !.pc = p])
Answer(t)    == Become(t, Idle)

OnDisk(n, isStub) == (IF isStub THEN "stub" ELSE "real") \in disk[n]

InodesAt(n, isStub) ==
  {i \in Inos : inodes[i] # None /\ inodes[i].name = n /\ inodes[i].stub = isStub}

-----------------------------------------------------------------------------
(* lookup: resolve_child, symlink_metadata, then the inode table.          *)

(* The bounds limit the requests that arrive, never a handler.             *)
Looking == {t \in Threads : ~At(t, "idle") /\ task[t].ino = None}
Opening == {t \in Threads : task[t].ino # None}

LookupFits ==
  /\ next_ino + Cardinality(Looking) <= MaxIno
  /\ \A i \in Inos : refs[i] + forgets[i] + Cardinality(Looking) < MaxRefs
OpenFits == next_fh + Cardinality(Opening) <= MaxFh

Lookup(t, n) ==
  /\ LookupFits
  /\ At(t, "idle")
  /\ Become(t, [Idle EXCEPT !.pc = "resolve", !.name = n])
  /\ UNCHANGED <<disk, table, files, kernel>>

Resolve(t) ==
  /\ At(t, "resolve")
  /\ Become(t, IF OnDisk(task[t].name, FALSE)
               THEN [task[t] EXCEPT !.pc = "stat", !.stub = FALSE]
               ELSE [task[t] EXCEPT !.pc = "resolve_stub", !.stub = TRUE])
  /\ UNCHANGED <<disk, table, files, kernel>>

ResolveStub(t) ==
  /\ At(t, "resolve_stub")
  /\ IF OnDisk(task[t].name, TRUE) THEN Goto(t, "stat") ELSE Answer(t)
  /\ UNCHANGED <<disk, table, files, kernel>>

Stat(t) ==
  /\ At(t, "stat")
  /\ IF OnDisk(task[t].name, task[t].stub) THEN Goto(t, "entry") ELSE Answer(t)
  /\ UNCHANGED <<disk, table, files, kernel>>

(* The kernel has one reference more as soon as the reply is written.      *)
Referred(i) == refs' = [refs EXCEPT ![i] = @ + 1]

(* Slip: an inode that is known is handed out without being counted.       *)
Counted_NotAgain(d) == d.lookup_count

Counted(d) == d.lookup_count + 1

EntryKnown(t, i) ==
  /\ inodes' = [inodes EXCEPT ![i].lookup_count = Counted(inodes[i])]
  /\ Referred(i)
  /\ UNCHANGED next_ino

(* Slip: next_ino is read but not advanced.                                *)
NextIno_Load(k) == k

NextIno(k) == k + 1

EntryNew(t) ==
  /\ next_ino \in Inos
  /\ inodes' = [inodes EXCEPT ![next_ino] =
       [name |-> task[t].name, stub |-> task[t].stub, lookup_count |-> 1]]
  /\ next_ino' = NextIno(next_ino)
  /\ Referred(next_ino)

Entry(t) ==
  /\ At(t, "entry")
  /\ LET known == InodesAt(task[t].name, task[t].stub) IN
     \/ \E i \in known : EntryKnown(t, i)
     \/ known = {} /\ EntryNew(t)
  /\ Answer(t)
  /\ UNCHANGED <<disk, files, forgets>>

-----------------------------------------------------------------------------
(* forget.                                                                 *)

InUse(i) ==
  \/ \E t \in Threads : task[t].ino = i
  \/ \E f \in Fhs : handles[f] # None /\ handles[f].ino = i

KernelForgets(i, n) ==
  /\ n \in 1..refs[i]
  /\ n = refs[i] => ~InUse(i)
  /\ refs' = [refs EXCEPT ![i] = @ - n]
  /\ forgets' = [forgets EXCEPT ![i] = @ + n]
  /\ UNCHANGED <<disk, table, files, task>>

(* Slip: a forget drops the inode whatever its count.                      *)
Forgotten_Always(d, n) == None

(* saturating_sub, and removal at 0.                                       *)
Forgotten(d, n) ==
  IF d.lookup_count <= n THEN None
  ELSE [d EXCEPT !.lookup_count = @ - n]

Forget(i, n) ==
  /\ n \in 1..forgets[i]
  /\ forgets' = [forgets EXCEPT ![i] = @ - n]
  /\ inodes' = IF inodes[i] = None THEN inodes
               ELSE [inodes EXCEPT ![i] = Forgotten(inodes[i], n)]
  /\ UNCHANGED <<disk, next_ino, files, task, refs>>

-----------------------------------------------------------------------------
(* open: the path from the table, hydration if it is a placeholder's, the  *)
(* table again, File::open.  A request to write is refused beforehand.     *)

Open(t, i) ==
  /\ OpenFits
  /\ At(t, "idle")
  /\ refs[i] > 0
  /\ Become(t, [Idle EXCEPT !.pc = "path", !.ino = i])
  /\ UNCHANGED <<disk, table, files, kernel>>

OpenPath(t) ==
  /\ At(t, "path")
  /\ LET d == inodes[task[t].ino] IN
     IF d = None THEN Answer(t)
     ELSE Become(t, [task[t] EXCEPT !.pc = IF d.stub THEN "hydrate" ELSE "open",
                                    !.name = d.name, !.stub = d.stub])
  /\ UNCHANGED <<disk, table, files, kernel>>

(* Slip: the path that was read before the hydration is opened.            *)
HydratedPath_Stale(r) == [r EXCEPT !.pc = "open"]

HydratedPath(r) == [r EXCEPT !.pc = "open", !.stub = FALSE]

(* The daemon says that the file is local.                                 *)
Hydrated(t) ==
  /\ At(t, "hydrate")
  /\ OnDisk(task[t].name, FALSE)
  /\ inodes' = IF inodes[task[t].ino] = None THEN inodes
               ELSE [inodes EXCEPT ![task[t].ino].stub = FALSE]
  /\ Become(t, HydratedPath(task[t]))
  /\ UNCHANGED <<disk, next_ino, files, kernel>>

(* Slip: the driver waits for the daemon without a timeout.                *)
HydrationFails_NoTimeout(t) ==
  /\ At(t, "hydrate")
  /\ ~OnDisk(task[t].name, TRUE)
  /\ Answer(t)
  /\ UNCHANGED <<disk, table, files, kernel>>

(* The daemon says no, cannot be reached, or the 300 s are over.           *)
HydrationFails(t) ==
  /\ At(t, "hydrate")
  /\ Answer(t)
  /\ UNCHANGED <<disk, table, files, kernel>>

OpenFile(t) ==
  /\ At(t, "open")
  /\ IF ~OnDisk(task[t].name, task[t].stub) THEN UNCHANGED files
     ELSE /\ next_fh \in Fhs
          /\ handles' = [handles EXCEPT ![next_fh] =
                           [ino |-> task[t].ino, stub |-> task[t].stub]]
          /\ next_fh' = next_fh + 1
  /\ Answer(t)
  /\ UNCHANGED <<disk, table, kernel>>

Release(f) ==
  /\ handles[f] # None
  /\ handles' = [handles EXCEPT ![f] = None]
  /\ UNCHANGED <<disk, table, next_fh, task, kernel>>

-----------------------------------------------------------------------------
(* macOS evicts, downloads, creates or removes a file.                     *)
DiskChanges(n, s) ==
  /\ disk[n] # s
  /\ disk' = [disk EXCEPT ![n] = s]
  /\ UNCHANGED <<table, files, task, kernel>>

TaskStep(t) ==
  \/ Resolve(t) \/ ResolveStub(t) \/ Stat(t) \/ Entry(t)
  \/ OpenPath(t) \/ Hydrated(t) \/ HydrationFails(t) \/ OpenFile(t)

Next ==
  \/ \E t \in Threads :
       \/ \E n \in Names : Lookup(t, n)
       \/ \E i \in Inos : Open(t, i)
       \/ TaskStep(t)
  \/ \E i \in Inos :
       \/ \E n \in 1..refs[i] : KernelForgets(i, n)
       \/ \E n \in 1..forgets[i] : Forget(i, n)
  \/ \E f \in Fhs : Release(f)
  \/ \E n \in Names, s \in SUBSET {"real", "stub"} : DiskChanges(n, s)

Fairness == \A t \in Threads : WF_vars(TaskStep(t))

Spec == Init /\ [][Next]_vars /\ Fairness

-----------------------------------------------------------------------------
LookupCount(i) == IF inodes[i] = None THEN 0 ELSE inodes[i].lookup_count

(* The driver's lookup count of an inode is what the kernel holds and what *)
(* it has given back on the way: no inode goes while the kernel may still  *)
(* use it, and none stays for ever, however lookups, forgets and           *)
(* hydrations of it overtake each other.                                   *)
RefsCounted == \A i \in Inos : LookupCount(i) = refs[i] + forgets[i]

(* What a client has open is the file, never its placeholder, although the *)
(* file may be evicted again at any moment between the hydration, the      *)
(* update of the table and the open.                                       *)
OpenFilesReal == \A f \in Fhs : handles[f] # None => ~handles[f].stub

(* A request that is executing an open finds its inode, at the start and   *)
(* again after the hydration.                                              *)
OpensFindInode == \A t \in Threads : task[t].ino # None => inodes[task[t].ino] # None

(* Every request is answered: the only call that may take long has a       *)
(* timeout.                                                                *)
TasksEnd == \A t \in Threads : ~At(t, "idle") ~> At(t, "idle")

(* What a handler has read so far, and what nobody has been given yet.     *)
TasksOK ==
  \A t \in Threads : LET r == task[t] IN
    /\ r.pc \in {"resolve", "resolve_stub", "stat", "entry", "hydrate", "open"} =>
         r.name \in Names
    /\ r.pc \in {"path", "hydrate", "open"} => r.ino \in Inos
    /\ r.pc = "open" => ~r.stub
    /\ r.ino # None => refs[r.ino] > 0
FreshInos ==
  next_ino >= 2 /\ \A i \in Inos : i >= next_ino => inodes[i] = None

(* The inductive invariant of module FuseDriverProofs: the counts are      *)
(* right, and so are the facts about numbers and requests they rest on.    *)
DriverInv ==
  DriverTypeOK /\ TasksOK /\ FreshInos /\ RefsCounted /\ OpenFilesReal

=============================================================================
