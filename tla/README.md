# TLA+ models of icloud-nfs-exporter

icloud-nfs-exporter serves iCloud Drive folders over NFS from a Mac.  macOS may
replace a file by a placeholder `.name.icloud` ("evict" it) at any time; the
exporter has it downloaded again ("hydrated") when a client wants it, and keeps
clients' writes in a staging directory until they can go to iCloud in one piece.
This directory holds TLA+ models of that program, the TLC configurations that
check them and TLAPS proofs about them.  Paths below are relative to the
repository.

## 1. The system

| Component | Source | State | Operations | Talks to |
|---|---|---|---|---|
| NFS request handlers | `src/nfs/nfs-server/src/icloud_nfs.rs` | inode table (`fileid -> real_path, staged_path`), `next_ino` | lookup, getattr, read, readdir, readlink, setattr, write, create, create_exclusive, mkdir, remove, rename | staging layer, both directories, hydration daemon over IPC |
| Staging layer | `src/nfs/nfs-server/src/staging.rs` | the staging directory, temporary files in iCloud | copy_up, create_file, create_dir, remove_staged, rename_staged, list_staged_names, promote_file, walk_and_promote | called by the handlers and by the promotion task |
| Promotion task | `src/nfs/nfs-server/src/main.rs` | where its walk is | promote_all at start-up, promote_if_quiesced every 2 s | staging layer |
| Hydration manager | `src/hydration/Sources/HydrationCore/HydrationManager.swift`, `FileState.swift`, `FileStateDetector.swift` | map path -> FileState | hydrate, refreshState, handleEvent, stopTracking | iCloud, IPC server, FSEvents |
| IPC server | `IPCServer.swift` | listening socket, one task per connection | start, stop, accept, handleClient | IPC clients, hydration manager |
| IPC clients | `src/fuse/fuse-core/src/ipc_client.rs`, `IPCClient.swift`, `scripts/icne_lib/ipc.py` | a socket per request | ping, query_state, hydrate with a 300 s timeout | IPC server |
| Wire protocol | `ipc_protocol.rs`, `IPCProtocol.swift` | none | 4-byte length and JSON, 1 MiB limit | |
| FSEvents watcher | `FSEventsWatcher.swift`, `HydrationDaemon/main.swift` | the event stream | start, stop, callback | hydration manager |
| Placeholder names | `path_utils.rs` | none | is_icloud_stub, stub_to_real_name, real_to_stub_name | |
| FUSE driver | `src/fuse/fuse-driver/src/passthrough.rs` | inode table with lookup counts, open handles | lookup, forget, open, read, release, readdir | hydration daemon over IPC |
| Configuration | `scripts/icne_lib/config.py`, `ConfigReader.swift` | `config.toml` | load, save, add_folder, remove_folder | CLI, wizard, menu bar application |
| NFS exports | `scripts/icne_lib/nfs.py` | `/etc/exports` | update_exports, apply_exports, start and stop the server | macOS nfsd |
| Wizard, diagnostics, application, packaging | `wizard.py`, `diagnose.py`, `icloud.py`, `src/app`, `launchd` | none of their own | | configuration |

What makes it hard:

* Every NFS request is a task of its own on a multi-threaded runtime.  A lock
  protects a single access to the inode table and nothing else; file system calls
  of different requests interleave freely with each other and with the promoter.
* The promoter copies, renames and removes in three system calls, while clients
  write to the same file, and while macOS changes the iCloud directory.
* The server may die anywhere.  The two directories stay; the inode table and the
  fileids do not.
* Hydration suspends a request for up to 300 s, and the path it read before the
  suspension may be renamed, removed or evicted again when it resumes.
* HydrationManager is a reentrant actor: while one call sleeps between two polls,
  other calls, FSEvents and queries change the map it will look at.
* A client and the daemon each give a hydration 300 s.  A client that gives up
  closes its socket, and the daemon finds out when it writes the answer.
* A listing is read page by page, and every page reads two changing directories
  anew; the promoter removes staging directories that a handler has just made.

What makes each component correct:

* *Staging layer*: a promotion is invisible to clients; iCloud receives whole
  snapshots; every quiet file is promoted; nothing acknowledged is dropped.
* *Handlers*: acknowledged writes are kept through promotions, crashes and
  restarts and are read back; exclusive create never empties a file; placeholders
  are never served; fileids are never reused; every request is answered.
* *Staging directories*: the promoter's clean-up takes no file away; every walk
  that is cut short is made good by a later one.
* *Listings*: a quiet directory is shown exactly; a change to one file hides no
  other; a listing ends.
* *Hydration*: concurrent calls never trip over the state machine, failures are
  recorded, every call returns, and the map converges to the file system.
* *IPC session*: who is told that a file is local can rely on it; nobody waits for
  ever; one call does not depend on another.
* *Placeholder names*: a name and its placeholder's lead to each other.
* *FUSE driver*: an inode lives as long as the kernel refers to it; a listing that
  is read page by page shows each name once.
* *Configuration, exports*: concurrent edits do not lose folders; the user's own
  lines in `/etc/exports` survive.

## 2. Modules

### StagingLayer

The two directories and the promoter.  `staged`, `cloud` and `tmp` give, for each
name of one directory, the bytes in the staging directory, in iCloud and in the
promoter's temporary file `.name.icne-tmp`.  Bytes are the set of writes they
contain (a truncation or a creation is `{}`), so that "contains this write" and
"is the same snapshot" can be said; `None` is no file and `Torn` a copy cut short.
`aged` says whose mtime is older than the quiescence; `prom` is where the promoter
is.  `prom.pc` goes through the system calls of `walk_and_promote` and
`promote_file`:

| Action | Code |
|---|---|
| `StartWalk`, `SkipFresh`, `SkipVanished`, `Select`, `EndWalk` | `walk_and_promote`, staging.rs:179-213, and the loop of main.rs:120-134 |
| `Copy`, `CopyMissing`, `CopyFails` | `fs::copy`, staging.rs:145 |
| `Publish`, `Unlink`, `PromotionFails` | `fs::rename` and `fs::remove_file`, staging.rs:146-147 |
| `CopyUp`, `CreateFile`, `RemoveStaged`, `RenameStaged`, ... | the methods the handlers call, one action each |
| `OperationFails` | a system call of a handler fails and changes no contents |
| `Crash` | the process dies, with any copy-ups it is in the middle of; `promote_all` runs again |

The handlers' operations are enabled at any time in this module: it is at the same
time a model of the layer and the abstract specification that the server
implements.

### StagingTree

The directories of the staging layer.  `upper` and `lower` are the paths that exist
in the staging and in the iCloud directory; `Parent` and `Above` say where a path is.
`walk` is the promoter: its stack holds the calls of `walk_and_promote`, each with
the entries it has still to look at, and `walk.pc` the next system call.  `request[c]`
is a handler: it has computed its path and has system calls to make.

| Code | Actions |
|---|---|
| `walk_and_promote` | `PromoteIfQuiesced`, `NextEntryOf`, `WalkInto`, `Return`, `LookIfEmpty`, `RemoveEmpty` |
| `promote_file` | `PublishOld`, `UnlinkOld` |
| create, copy-up | `CreateParents` (`create_dir_all`), `CreateStaged` |
| mkdir | `MkdirStaged`, `MkdirCloud` |
| remove | `RemoveBegins`, `RemoveOne` (an entry at a time), `RemoveStagedEnds`, `RemoveFromCloud` |

`kept` is history: the files that were created and that nobody has asked to remove
since.  `MCStaging` puts StagingLayer and StagingTree into one run: `part` says which
of the two a behaviour is about, and the variables of the other stay empty.

### IcloudNfs

Extends StagingLayer with the placeholders, the inode table and the requests.
`Workers` are the requests in progress; `req[w].pc` is the handler's position, and
each action is one file system call or one critical section of the inode lock:

| Handler | Actions |
|---|---|
| lookup | `Resolve`, `ResolveStub`, `CheckStaged`, `Stat`, `Alloc`, `SetStagedPath` |
| read | `UseHandle`, `UsePath`, `Hydrated`/`HydrateFails`, `ReadIo` |
| write, setattr(size) | `UseHandle`, `UsePath`, `Hydrated`/`HydrateFails`, `CopyUpHandle`, `SetStagedPath`, `WriteIo` |
| create | `Create`, `SetAttr`, `Alloc`, `SetStagedPath` |
| create_exclusive | `CheckStaged`, `Resolve`, `ResolveStub`, `Create`, `Alloc`, `SetStagedPath` |
| remove | `RemoveUpper`, `Resolve`, `ResolveStub`, `RemoveLower`, `FindInode`, `RemoveInode` |
| rename | `RenameCheck`, `RenameUpper`, `Resolve`, `ResolveStub`, `RenameLower`, `RenameInode` |

`CallFails` is an error of the file system in any of the calls that a handler reports
(`Fallible`).  `Arrive` and `Respond` are the NFS library.  An inode holds the name of its
`real_path`, whether that is the placeholder's, and the name whose staging path is
`staged_path`.  `NewServer` is `IcloudNfs::new` after the start-up promotion: it
numbers what is still staged from 2.  `NfsInit` is the start of a server that finds any
files in the staging directory.  `Evict` and `Download` are macOS.
`safe` and `due` are history: the acknowledged writes that nobody has replaced
since, and those of them that a read in progress must return.  What the first server finds staged
was acknowledged by an earlier one and counts as safe.

`ServerInv` is what the proofs rest on: which operation a handler can be doing at
which of its system calls and what it needs there (`RequestOK`), requests only while
the server serves, fileids below `next_ino`.

### SingleWriter

Extends IcloudNfs with no state and no step.  It says when acknowledged writes are
safe: `SerialSpec` has the steps of `NfsSpec` in behaviours in which no two requests
change the same file at the same time (`OnePerFile`); different files may be changed
at once, by any clients, and everybody may read.  `NoEvictionsOrRenames`, and
`NoRemovals` for exclusive creation, are conditions on the workload.  `OneWriterOnly`
is the special case of one client process that changes files: waiting for each answer
it keeps to `OnePerFile` by itself.  The module states the inductive invariants:
`WriterInv` (where the acknowledged writes are at every point of a promotion, what
each handler still knows of the layers and the inode table when it comes to use it)
and `ExclusiveInv`.  `MCIcloudNfs` extends it with the workloads for TLC.

### HydrationManager

The actor, its callers and the events.  `calls[c].pc` follows one `hydrate`;
`actor` is the call that has the actor.  The only suspension point is
`Task.sleep`, so a call keeps the actor from `Enter` to its first sleep and
through every round of the loop, while `DiskChanges` goes on.  A path in
`StubPaths` has a placeholder's name, which `detectState` calls evicted whatever
became of the file.  `pending` are the paths with an event on its way.  A change of a
file may also be reported for a directory only (a directory above it was moved, or the
kernel coalesced events); the daemon drops such events (`main.swift:66`), and
`unreported`, a history variable, notes the paths whose entry it leaves stale.

### HydrationService and IpcSession

`HydrationService` is the abstract specification of the daemon: clients ask, files
change, and an answer that says "local" may only be given if the file has been local
since the client asked (`sawLocal`).

`IpcSession` extends HydrationManager with the clients, the sockets and the life of
the process.  `conn[c]` is the request of a connection, `client[c]` the client's end,
`daemonUp` the process.  It implements HydrationService: `ImplementsService` is
`Service!Spec` with `ServiceCall` as the refinement mapping.

| Code | Actions |
|---|---|
| `IpcClient::send`, `ping`, `query_state`, `hydrate` | `Send`, `ReadTimeout`, `Used`; `Interpreted` is what the client makes of a response |
| `handleClient` | `ServePing`, `ServeQuery`, `ServeHydrate`, `AnswerHydrate` |
| `writeAll` to a closed socket | `BrokenPipe`: SIGPIPE ends the process |
| SIGTERM, a crash; launchd | `Stops`, `Restarts` |
| the actor | the actions of HydrationManager, while the daemon runs |

### PathUtils

`is_icloud_stub`, `stub_to_real_name` and `real_to_stub_name` over names that are a
base and a number of layers of `.` and `.icloud`, with the length test of
`path_utils.rs:46`.  `Listed` and `RealName` are what both servers' listings do with
an entry, `resolve_child` how a name leads back to one.

### FuseDriver

The FUSE driver's inode table and open files for one directory, and the kernel as
its caller.  `refs` and `forgets` are the references the kernel holds and those it
has given back in FORGETs that the driver has not handled yet; the kernel does not
give up an inode that it is opening or holds open.  `task[t]` is the request of one
thread:

| Method | Actions |
|---|---|
| lookup | `Lookup`, `Resolve`, `ResolveStub`, `Stat`, `Entry` |
| forget | `KernelForgets` (the message), `Forget` (the handler) |
| open | `Open`, `OpenPath`, `Hydrated`/`HydrationFails`, `OpenFile` |
| release | `Release` |

The methods take `&self` and the tables have locks, so `Threads` is a parameter
although fuser runs one loop unless it is told otherwise.  `DiskChanges` is macOS.

### FuseReaddir

`readdir` of the same driver: `dir` gives each file or placeholder its place in the
order of the file system, `Displayed` are the entries that get into the driver's
`all_entries`, `OffsetOf` their positions there (after `.` and `..`), and `Page` is
what one reply has of them.  A client fetches `PageSize` names at a time while other
programs change the directory; a new entry may take any place.
`steady` and `changes` are history: what was there all the time, and how the
directory has changed since the listing began.  `ListingInv` is what the proofs rest
on.

### NfsReaddir

`readdir` of the NFS server.  A READDIR has three phases (`ReadDir`, `StatEntries`,
`Reply`): it reads the iCloud directory, looks at each entry, lays the staged files
over them, sorts, and answers with what follows the entry whose fileid is the cookie,
or from the start when it finds none.  Between the phases and the pages, files are
created, removed, renamed, copied up, promoted, evicted and downloaded.  Of the inode
table only the path of the cookie's inode matters (`cookie`, `work.marked`).
`MCListings` puts FuseReaddir and NfsReaddir into one run, as `MCStaging` does.

### Slips

A definition named `X_Something` in front of `X` is a wrong variant of `X`: a bug
somebody could plausibly write there.  Nothing uses it.  Put in the place of `X`
it makes a property of a run fail, which shows that the property depends on that
piece of the code.  `PROJECT.json` names the pairs.

## 3. Runs

| Run | Instance | Checks |
|---|---|---|
| `staging_layer` | 2 names, 1 write, 1 fault; a tree of 2 directories and 2 files, 2 handlers | promotions are invisible and publish snapshots; quiet files and trees are promoted; clean-up keeps files |
| `nfs_single_writer` | 2 names, any of them staged at the start, 1 write, a client that looks up and writes and one that creates exclusively, writes and reads, one change per file at a time, 1 fault | the three inductive invariants of the proofs; acknowledged writes are kept and read; exclusive create; fileids |
| `nfs_evictions` | 1 name, a client that writes and removes, one that looks up and reads, evictions | placeholders are not served, fileids do not come back, requests end |
| `nfs_renaming` | 2 names, 1 client that creates with attributes, truncates and renames, evictions | the handlers refine StagingLayer |
| `ipc_sessions` | 1 file, 2 clients, a daemon that stops and restarts | the session's inductive invariant, refinement of HydrationService, every connection ends, the map converges on what file events report |
| `fuse_driver` | 1 name, 2 threads, 3 inodes with 3 references each, 2 handles | lookup counts, opens, and the inductive invariant of the proofs |
| `listings` | FUSE: every directory of 3 names in any order, pages of 2; NFS: every pair of directories, pages of 1, 3 changes | quiet listings are exact; what hides nothing; listings end; both listings' inductive invariants |
| `lost_write` | 1 client | **fails**: a write during a promotion is deleted |
| `stale_handle` | 1 client | **fails**: a handle points at a promoted staged file |
| `missed_lookup` | 1 client | **fails**: lookup misses a file that is being promoted |
| `stub_hydration` | 1 placeholder path | **fails**: hydrating a placeholder path times out although the file came |
| `daemon_killed` | 1 file, 2 clients, a daemon that nobody stops | **fails**: the answer to a client that has given up kills the daemon |

What holds:

* `PromotionInvisible`, `SnapshotPublished`: promoting a file never changes what
  anyone finds under any name, and iCloud gets complete snapshots, also when torn
  temporary files and half-done promotions are left behind by a crash, unless
  somebody touches that very file between the copy and the removal.
* `QuietFilesPromoted`: although one vanished entry aborts a whole walk
  (staging.rs:201), every staged file reaches iCloud once clients are quiet.
* `SafeWritesKept`, `ReadsFresh`: while one request at a time changes a file, an
  acknowledged write stays visible through promotions, crashes and restarts, and
  reads that succeed return it.  Exempt are a write during the promotion of the same file
  (`lost_write`), a file whose copy-up was cut short (staging.rs:57), which the code
  loses, and the rest of a write of which only a part was written (icloud_nfs.rs:561).
* `ExclusiveCreatesNew`: the order of the two checks (staging, then iCloud) makes
  exclusive creation safe against the promoter, the opposite direction of its move.
  This is about the promoter only: with `Evictions` a download between the two tests
  of `resolve_child` makes the file look absent and the new empty file shadows it.
* `CreatedFilesKept`, `QuietTreesPromoted`: `remove_dir` refuses a directory that is
  not empty any more, so the race between the look at line 197 and the removal costs
  no file; a create whose directory was removed under it fails.  Once clients are
  quiet the staging directory gets empty, its directories included.
* `ImplementsService`: through caching, events out of order, timeouts and restarts, a
  client is only told that a file is local if it has been so since it asked.
* `ConnectionsEnd`: every connection ends although nothing obliges the client's timer
  to fire.
* `CacheConverges`: whatever the order of events and of the calls, the map ends up with
  what the detector says of each file whose changes were reported for the file itself.
  Exempt are those reported for a directory only (`unreported`): the code leaves their
  entries stale until somebody asks for them.  `FailureRecorded`, `NoInvalidTransition`:
  no rejected transition is ever hidden by a `try?`, nor met by a call.
* `NfsListingExact`, `OthersHideNothing`, `ListingsEnd`: an NFS listing of a quiet
  directory is exact, and changes to some files hide no others.  A rename is exempt:
  the cookie's inode takes its new name's place and the names before it are skipped.
* `FileidsNotReused`: a fileid means one name until its file is removed and nothing
  afterwards, however late an allocation or a hydration finishes, from the first one that
  a restart hands out to a file it finds staged.  With renames (`Renames`) only the second
  half holds: a hydration that began before a rename writes the old name back
  (icloud_nfs.rs:184).
* `NoPlaceholderServed`, `RequestsAnswered`, `ImplementsLayer`: see the comments above them.
* `RefsCounted`, `OpensFindInode`: an inode of the FUSE driver lives exactly as long
  as the kernel may use it, so an open finds it again after a download of minutes.
* `OpenFilesReal`, `TasksEnd`, `QuietListingExact`, `CreationsHideNothing`: as above.

What fails, in the code as in the model:

1. `lost_write`: copy, client write, rename, remove.  The write was acknowledged
   and is nowhere.  `promote_file` would have to compare the file with its copy.
2. `stale_handle`: `staged_path` is never reset.  A client that keeps its handle
   gets errors once the file has been promoted, until it looks the name up again
   while the file is staged.
3. `missed_lookup`: `lookup` tests iCloud (line 341: the file, then its placeholder) and
   then staging (line 344), the wrong order against a promoter that moves files from
   staging to iCloud.  In the trace the file is not in iCloud at the first test; the
   promoter publishes it and removes it from staging before the last one.
4. `stub_hydration`: the NFS server and the FUSE driver ask for the placeholder's
   path, and the daemon polls that path.
5. `daemon_killed`: both ends wait 300 s, the client from an earlier moment.  It
   closes its socket, `writeAll` writes into it, and nothing in the daemon ignores
   SIGPIPE: every other client's connection ends with the process.

### Bounds

* One directory.  Names are only compared, so one name shows what concerns one
  file; two are used where files interact (the walk, renames, two clients that write
  to different files).  `nfs_single_writer` and `nfs_renaming` are symmetric in their two
  (`Files`).
* One payload and the placeholder's bytes: the properties tell apart "contains the
  write" and "does not".
* `MaxFaults` bounds crashes and failing system calls.  One is enough in
  `nfs_single_writer` to hit a recovery, because the server there starts with whatever an
  earlier life left staged: the fault can be the failing start-up promotion of such a
  file, which the server then numbers, or a crash of the new server.  `nfs_renaming`
  and `nfs_evictions` have none; that the refinement of StagingLayer, which
  `nfs_renaming` checks, survives crashes too is left to its proof, and so are the
  handlers it has no client for (copy-ups, hydrations, removals).
* `MaxIno` bounds the fileids of one server lifetime, and leaves room for those that a
  restart gives to whatever is still staged (`ServerAssumption`).  A lookup or a create, which
  might need one, is not started when none is left, so no handler is cut off; the
  other requests are always possible.  3 is one inode for each of two files (number 1
  is the directory): without evictions and renames a name has one inode only
  (`TableInv`).
* Two workers: every pair of handlers interleaves with each other and with the
  promoter.  The failing runs need one client only.
* One path in `ipc_sessions`: paths share nothing but the actor, which the second
  client contends for.
* The tree is a directory with a file and a directory with a file in it: the walk goes
  down two levels and comes back, a directory is emptied from inside, and the handlers
  work above and below where the walk is.  Two handlers, so that one can remove what
  another creates while the promoter walks.
* `MaxIno`, `MaxFh` and `MaxRefs` of `FuseDriver` limit the requests that arrive; one
  name can have two inodes (its placeholder's and its own), a third shows what
  becomes of a number that was forgotten.
* `Bases` {0, 1, 2}: two names and their placeholders, and the stub of nothing
  (`.` and `.icloud` around the empty string), where is_icloud_stub's length test
  decides.  Names wrapped twice, the stub of a stub, are left to the proofs.  `PageSize` 2 and `MaxEntries` 1 put page
  boundaries between any two of them; `MaxChanges` 3 lets a file be copied up,
  published and unlinked within one listing.

### Fairness

* The promoter (`WF` on its steps): the task loops for ever and its system calls
  return.  Ageing (`SF`): two seconds pass between walks, so every untouched file
  gets older than the quiescence.
* Each handler (`WF` of `HandlerStep`; a call need not fail): tokio runs every ready
  task.  A hydration ends at the latest with the client's read timeout
  (ipc_client.rs:165).
* Each hydrate call and each event (`SF`): an actor serves all its callers, and
  they find it busy now and then.  `TimeoutExpires` (`SF`): the clock runs while
  the call sleeps.
* Each FUSE request (`WF`): a thread goes on with the request it has taken.
* The daemon's tasks (`SF`): the actor serves all callers.  Its restart (`WF`):
  launchd keeps it alive.  The client's own timeout has no fairness.
* A listing client asks for the next page, and the handler runs (`WF` of
  `ReaddirStep`).
* The walk (`WF` on `WalkStep`) and the ageing of a file (`SF`) in StagingTree are
  those of StagingLayer.
* Nothing is assumed of clients, of iCloud or of faults.

## 4. Proofs

`StagingLayerProofs` proves for every set of names and writes and any number of
faults:

* `LayerTypeOK`: `Spec => []TypeOK`, which the others need.
* `LayerPromotionInv`: `Spec => []PromotionInv`.  The invariant is inductive given
  the types: it says that between the copy and the removal `tmp` holds the bytes
  that were read (`prom.buf`), and that both layers agree with them while nobody
  has touched the file.  The lemma `ClientStepsTouch` covers all handler
  operations at once: whichever changes the promoter's file also marks it touched.
* `LayerPromotionInvisible`, `LayerSnapshotPublished`: the action properties,
  from the invariant and `PromoterChanges` (only the rename changes iCloud, only
  the removal changes staging, and only under the promoter's name).

`FuseDriverProofs` proves for any files, threads and bounds:

* `DriverInvariant`: `Spec => []DriverInv`.  `RefsCounted` alone is not inductive:
  a new inode must not meet a number in use (`FreshInos`), and a request must hold
  a reference to the inode it works on (`TasksOK`), which a concurrent FORGET
  respects because the kernel pins it.  `TaskChanges` covers the steps that change
  only a request; `EntryInv`, `HydratedInv`, `ForgetInv`, `KernelForgetsInv` and
  `FilesInv` the others.
* `DriverRefsCounted`, `DriverOpenFilesReal`, `DriverOpensFindInode` follow from it.
  They rest on `DriverAssumption`: the bounds are numbers, `None` is neither a name,
  a number nor a record.

`StagingTreeProofs` proves for any tree of directories and any number of handlers:

* `TreeInvariant`: `TreeSpec => []TreeInv`, and `TreeCreatedFilesKept` from it.  That
  files are kept is not inductive: one has to know that what the promoter cleans up is
  a directory (`WalkOK`, which follows its calls along the stack), that it unlinks only
  what it has published, and that a handler that removes has taken its files out of
  `kept` first (`RemovalsAnnounced`).  `HandlerInv` and `WalkStepInv` have a step for
  each action; `Outer` is what remains of the stack when a call returns.
* They rest on `TreeAssumption`: files are not directories, and `Above` are the
  directories on the way up.

`IpcSessionProofs` proves for any files and clients, and a daemon that may stop:

* `SessionInvariant`: `SessionSpec => []SessionInv`.  `NoInvalidTransition` alone is not
  inductive: it needs that the actor belongs to the call that is between its detection
  and its sleep (`ActorExclusive`).  `CallsServed` ties a call to its connection and
  `LocalSeen` the states a call relies on to what its client could have seen.
* `SessionNoInvalidTransition`, `SessionFailureRecorded` follow.
* `SessionImplementsService`: the initial states map to initial states (`MappedInit`)
  and every step to a step of HydrationService or a stutter (`MappedStep`), with a lemma
  for each kind of step.
* They rest on `SessionAssumption`: `None` is no request, error or result.

`PathUtilsProofs` proves for names with any number of affixes that a name and its
placeholder's name lead to each other (`StubOfName`, `NameOfStub`), and that
`resolve_child` finds every entry a listing shows (`ListedResolves`).  The lemmas on names
that the listings need are here too: which entries show one name (`ListedOnce`), and
that every visible name has an entry that is shown (`ListedThere`).

`IcloudNfsProofs` proves for any clients, operations, names, writes, bounds and faults,
with evictions and renames:

* `ServerInvariant`: `NfsSpec => []ServerInv`.  The types alone are
  not inductive: a system call needs the name, the inode or the payload of its operation
  (`RequestOK`), a request must not outlive its server, and a restart that numbers the
  staged files must find room for them (more inodes than names).
* `ServerImplementsLayer`: NfsSpec refines the specification of StagingLayer.  The
  refinement mapping is the identity on the layer's variables; `InitRefines` is the
  initial states, and `StepRefines` with `WorkerRefines` goes through the steps
  of the handlers, macOS, the promoter and a restart.  What is proved
  of the layer so holds of the server: `ServerPromotionInvisible` and
  `ServerSnapshotPublished` are its corollaries.
* `ServerFileidsNotReused`: the action property, from `WorkerTable`, which says of every
  handler step what it may do to the inode table.  That a fileid keeps its name needs one
  invariant more: a request that waits for a hydration still carries the name of its
  inode, so that the answer writes back what was there (`HydrateInv`, `WorkerNames`).
  Only a rename can break it, hence `Renames` in the property.
* `ServerNeverServesPlaceholders`, for workloads without evictions or without renames
  (`NoStubRenames`): both layers, the temporary file and every request's buffer are free
  of placeholder bytes (`PlaceholderInv`).  The hypothesis is needed: renaming an evicted
  file gives the placeholder the plain name (icloud_nfs.rs:703).

They rest on `ServerAssumption`: the placeholder's bytes are bytes, directories have
finitely many names, there are more inode numbers than names, and `None` is neither
an inode nor its number.

`SingleWriterProofs` proves, without evictions and renames (`NoEvictionsOrRenames`),
for behaviours in which one request at a time changes a file (`SerialSpec`), but any
number of writing and reading clients, files, faults and restarts:

* `WriterInvariant`: `SerialSpec => []WriterInv`; `WritesKept` and `ReadsReturnWrites`
  follow.  That safe writes are visible is not inductive: between the promoter's copy
  and its removal its copy has to hold them too (`SafeInv`); a handle must lead to the
  staged file where there is one, or else the next write copies an older one over it
  (`StagedInv`, with handlers that have staged a file and not yet noted it as the only
  exception, and files that hold nothing safe, `Overwritable`); and what a handler has read of the table must still hold when it acts
  (`HandlerInv`, `ReadInv`), which is where a second writer of the file would break in.
  `ChangeEffect` and `TableEffect` say of every handler step at once which file and
  which inode it may change, and `HandlerOthers` and `ReadOthers` that it so leaves the
  requests on other files alone.
* `ExclusiveInvariant`, if in addition nobody removes (`NoRemovals`): a name found
  free in staging and then in iCloud stays free, because the promoter only fills names
  that are staged (`PromotedStaged`).  `ExclusiveNeverClobbers` follows.
* `OneWriterIsSerial`: with one client process that changes files (`OneWriterOnly`),
  `NfsSpec` implies `SerialSpec`, so that nothing has to be assumed of its behaviours.

Each hypothesis excludes something the code does.  Two writers of one file lose a
write (icloud_nfs.rs:209).  With evictions, a file looked up first as a placeholder and
then again has two inodes (line 124), of which one does not know what the other has
staged, and a download between two tests hides a file from create_exclusive (line 290).
A renamed inode may get its old path back (line 184), and a file renamed onto a staged
name is shadowed by it (line 693).  A removed file comes back with a promotion that was
on its way (line 652), which only matters to exclusive creation.

`ListingProofs` proves for any names, directories and page sizes and any number of
changes, of the FUSE driver's listings (`Spec` of FuseReaddir):

* `ListingInvariant`: `Spec => []ListingInv`.  `CreationsHideNothing` is not inductive:
  before the end, a name that was there all the time must be in the listing or have an
  entry ahead of the offset.  `CreationMoves` is the argument for creations: a new
  entry takes a place somewhere, and every other entry's offset stays or grows
  (`OffsetOf` counts the entries up to it, and the new set includes the old one); the
  new entry cannot make a placeholder disappear from the list either, because its name
  was not visible.  In a quiet directory the listing is the set of names up to the
  offset, and no two displayed entries have one name (`ListedOnce`).
* `FuseListingExact` and `FuseCreationsHideNothing` follow.

Of the NFS server's (`ReaddirSpec`):

* `ReaddirInvariant`: `ReaddirSpec => []ReaddirInv`.  `OthersHideNothing` is not
  inductive: one needs that a READDIR at work still knows an entry for every name that
  nobody has touched since it began (`EntriesSeen`), and that no such name is left out by
  going on after the cookie (`CookieInv`).  For a quiet directory every READDIR gives the
  same listing, and what has been shown lies up to the cookie (`QuietInv`).
* `ListingExact` and `ListingHidesNothing` follow.
* `PageFacts` is the lemma on pages: the first entries of a finite set by name come before
  its others, there are some unless it is empty, and they are all if they fit.
  `ChangeKeepsInv` covers every change to the directory at once; a lemma for each action
  shows that it is one (`DirectoryChange`).

The one assumption of `StagingLayerProofs` is `LayerAssumption`: `MaxFaults` is a natural
number and `None` and `Torn` are neither names nor bytes.

Model-checked only:

* Liveness (`QuietFilesPromoted`, `QuietTreesPromoted`, `RequestsAnswered`,
  `ConnectionsEnd`, `CacheConverges`, `TasksEnd`, `ListingsEnd`): TLAPS does not handle
  fairness.
* The failing runs, which are counterexamples.

## 5. Modelling choices

* `fs::copy` is one step.  The other tasks could see it half done; that is left
  out, except that an error or a crash leaves `Torn`.
* `write` opens the file, extends it and writes in one step.  A file descriptor
  that outlives the removal of its file is therefore not modelled: such a write is
  lost like the one in `lost_write`.
* `CallFails` leaves the contents as they were and answers with an error (`stat` of a
  lookup with NOENT, as the code does).  A write that fails may have extended the file
  before (`set_len`), which only its mtime shows here; `write_at`'s count is ignored
  (icloud_nfs.rs:561), so a write of which nothing, or a part, was written may be
  acknowledged too.  `create` may fail after the file was made, in `SetAttr`.  An error
  of `remove_staged` is not modelled apart: the handler ignores it (`let _ =`).
* One crash may cut any number of copy-ups short.
* Attributes other than the size are left out, and so are getattr, readlink
  and symlink (always NOTSUPP).
* `remove`, `rename` and `create_exclusive` are whole handlers, including the
  window between `resolve_child` and the system call on what it found.
* `IcloudNfs` and `FuseDriver` take the daemon at its word: a hydration succeeds when
  the file has come.  For the placeholder paths they send, today's daemon never says
  so (`stub_hydration`), and every hydration ends in `HydrateFails`.
* The FUSE model leaves out the parent's inode (the directory is the root), getattr,
  readlink, read and statfs, which change nothing, and takes `read_dir` as one step.
* The server model has no remote edits: clients of the properties there expect
  their own writes back.  StagingLayer has them.
* In StagingTree the contents of files are left out, and so are crashes: a copy with
  its rename, a `create_dir_all` and a `read_dir` are one step each, and a
  `remove_dir_all` removes an entry at a time.  `create_file` and `copy_up` have the
  same steps there.  A file that somebody is about to remove when it is created
  (`Doomed`) is not among those to be kept: with the promoter it is the lost write of
  `lost_write`, with a client it is what the client asked for.
* In IpcSession an answer is written and read in one step: what is in a socket's buffer
  can be read whatever happens to the writer.  The client's timeout only falls while
  its call sleeps, since nothing else in the daemon takes 300 s.  The daemon starts in
  one step.  The 1 MiB limits and the 10 s write timeout are left out: requests are
  shorter than a path can be.
* In NfsReaddir the inode table is reduced to the path of the cookie's inode; two
  inodes with one path after a rename are a choice between finding the cookie's and
  another.  `read_dir` is one step, and so is the `symlink_metadata` of all entries.
  The promoter's temporary file, which a listing can show between write and rename, is
  no entry there.
* In HydrationManager several paths of an event batch are separate steps, in any order.
* A client's errors are three (`IpcError`): the daemon was not there or went away, no
  useful answer came, or one of another type.
* The temporary file's name is not offered to clients, although a lookup of
  `.name.icne-tmp` would find it.

## 6. Not modelled, and what is left

* Configuration and exports: sequential programs that read a file, change it and write
  it back, without a lock.  That two of them at once lose an update needs no model, and
  nothing in the documentation promises otherwise.
* Wizard, diagnostics, menu bar application, packaging, argument parsing: no state of
  their own, or only its display.
* JSON and length prefix: encoding without a property about it.
* Threads that `readExact` blocks for silent clients: how many the runtime has is not in
  the code.
* Violations of the same kind as those shown above have no run of their own:
  `create_exclusive` against a download, two writers of one handle, a placeholder that is
  renamed, a directory whose staged subtree goes with a `remove` that fails, an
  open of an evicted inode.  `PROJECT.json` lists them as hazards with the actions that
  model the step.

Every safety property that a passing run checks is stated by a theorem.  What remains to
TLC is liveness.
