------------------------- MODULE SingleWriterProofs --------------------------
(***************************************************************************)
(* With one change per file at a time, no renames and no evictions, for    *)
(* any files, clients and faults: acknowledged writes are kept, reads      *)
(* return them, and an exclusive create never empties a file.              *)
(***************************************************************************)
EXTENDS SingleWriter, IcloudNfsProofs

-----------------------------------------------------------------------------
(* Who acts: the requests that change one file do so one after the other.  *)
LEMMA OneChanges ==
  ASSUME OnePerFile, NEW w \in Workers, NEW v \in Workers \ {w},
         req[w].op \in Writing, req[v].op \in Writing, req[w].name \in Names
  PROVE  req[v].name # req[w].name
BY LayerAssumption DEF OnePerFile

(* Nobody renames and nobody hydrates.                                     *)
LEMMA NoRenames ==
  ASSUME ServerInv, NoEvictionsOrRenames, NEW w \in Workers, HandlerInv(w)
  PROVE  /\ ~RenameCheck(w) /\ ~RenameUpper(w) /\ ~RenameLower(w)
         /\ ~RenameInode(w) /\ ~Hydrated(w) /\ ~HydrateFails(w)
BY DEF ServerInv, RequestOK, NoEvictionsOrRenames, HandlerInv, RenameCheck, RenameUpper,
       RenameLower, RenameInode, Hydrated, HydrateFails, At

(* The steps that change a layer or the history of a file.                 *)
Changes(w) == \/ CopyUpHandle(w) \/ WriteIo(w) \/ Create(w) \/ SetAttr(w)
              \/ RemoveUpper(w) \/ RemoveLower(w)

Unseen(w) == /\ UNCHANGED <<staged, cloud, tmp, prom, safe>>
             /\ \A v \in Workers \ {w} : due'[v] = due[v]

LEMMA WorkerKinds ==
  ASSUME ServerInv, NoEvictionsOrRenames, NEW w \in Workers, HandlerInv(w),
         Arrive(w) \/ WorkerStep(w)
  PROVE  Changes(w) \/ Unseen(w)
<1>1. due \in [Workers -> SUBSET Writes]
  BY DEF ServerInv, NfsTypeOK
<1>2. CASE UseHandle(w)
  <2>1. UNCHANGED due \/ \E S : due' = [due EXCEPT ![w] = S]
    <3> DEFINE S == IF req[w].op = "read" THEN safe[inodes[req[w].ino].name] ELSE {}
    <3>1. UNCHANGED due \/ due' = [due EXCEPT ![w] = S]
      BY <1>2 DEF UseHandle
    <3> HIDE DEF S
    <3>2. QED
      BY <3>1
  <2>2. UNCHANGED <<disk, safe>>
    BY <1>2 DEF UseHandle
  <2>3. QED
    BY <1>1, <2>1, <2>2 DEF Unseen, disk
<1>3. CASE Respond(w)
  BY <1>1, <1>3 DEF Respond, Unseen, disk
<1>4. CASE CallFails(w)
  BY <1>4 DEF CallFails, OperationFails, Unseen, hist
<1>5. CASE \/ Arrive(w) \/ Resolve(w) \/ ResolveStub(w) \/ CheckStaged(w) \/ Stat(w)
           \/ Alloc(w) \/ SetStagedPath(w) \/ UsePath(w) \/ ReadIo(w) \/ FindInode(w)
           \/ RemoveInode(w)
  BY <1>5
     DEF Arrive, Resolve, ResolveStub, CheckStaged, Stat, Alloc,
         SetStagedPath, UsePath, ReadIo, FindInode, RemoveInode, Unseen, hist, disk
<1>6. QED
  BY <1>2, <1>3, <1>4, <1>5, NoRenames DEF WorkerStep, HandlerStep, Changes

(* What a change does, to the file of the handler's name only.             *)
Elsewhere(n) ==
  /\ \A m \in Names \ {n} :
       staged'[m] = staged[m] /\ cloud'[m] = cloud[m] /\ safe'[m] = safe[m]
  /\ tmp' = tmp
  /\ prom'.pc = prom.pc /\ prom'.name = prom.name /\ prom'.boot = prom.boot

Same(f, n) == f'[n] = f[n]

(* The bytes are replaced or gone, and no read is owed the old ones.       *)
Dropped(n) ==
  /\ safe'[n] = {}
  /\ \A v \in Workers : due'[v] = IF req[v].name = n THEN {} ELSE due[v]

ChangeOf(w, n) ==
  \/ /\ At(w, "copy_up") /\ cloud[n] # None
     /\ staged'[n] = cloud[n] /\ cloud'[n] = cloud[n] /\ safe'[n] = safe[n]
     /\ due' = due /\ req'[w].pc = "set_staged"
  \/ /\ At(w, "copy_up")
     /\ staged'[n] = Torn /\ cloud'[n] = cloud[n] /\ Dropped(n)
     /\ req'[w].pc = "reply"
  \/ /\ At(w, "io") /\ req[w].op = "write" /\ staged[n] # None
     /\ staged'[n] = Written(staged[n], req[w].data) /\ cloud'[n] = cloud[n]
     /\ \/ safe'[n] = safe[n]
        \/ /\ safe'[n] = safe[n] \cup {req[w].data} /\ staged[n] # Torn
           /\ ~(prom.pc \in {"publish", "unlink"} /\ prom.name = n)
     /\ due' = due /\ req'[w].pc = "reply"
  \/ /\ At(w, "io") /\ staged[n] # None
     /\ staged'[n] = {} /\ cloud'[n] = cloud[n] /\ Dropped(n)
     /\ req'[w].pc = "reply"
  \/ /\ At(w, "create") \/ At(w, "sattr")
     /\ staged'[n] = {} /\ cloud'[n] = cloud[n] /\ Dropped(n)
     /\ req'[w].pc \in {"sattr", "alloc"}
  \/ /\ At(w, "remove_staged")
     /\ staged'[n] = None /\ cloud'[n] = cloud[n] /\ Dropped(n)
     /\ req'[w].pc = "resolve"
  \/ /\ At(w, "remove_cloud")
     /\ staged'[n] = staged[n] /\ cloud'[n] = None /\ safe'[n] = safe[n]
     /\ due' = due /\ req'[w].pc = "remove_inode"
  \/ /\ UNCHANGED <<staged, cloud, safe, due>>
     /\ req'[w].pc = "reply" \/ (At(w, "sattr") /\ req'[w].pc = "alloc")

LEMMA ChangeEffect ==
  ASSUME ServerInv, NoEvictionsOrRenames, NEW w \in Workers, HandlerInv(w), Changes(w)
  PROVE  /\ req[w].op \in Writing /\ ~At(w, "idle") /\ req[w].name \in Names
         /\ Keeps(w) /\ SameTask(w) /\ SameFile(w) /\ SameView(w)
         /\ UNCHANGED Table
         /\ Elsewhere(req[w].name)
         /\ ChangeOf(w, req[w].name)
<1> DEFINE n == req[w].name
<1>1. /\ req \in [Workers -> Request] /\ RequestOK(w, req[w])
      /\ staged \in [Names -> File] /\ cloud \in [Names -> File]
      /\ safe \in [Names -> SUBSET Writes] /\ due \in [Workers -> SUBSET Writes]
      /\ TypeOK /\ prom \in Promoter
      /\ WorkerStep(w)
  BY DEF ServerInv, NfsTypeOK, TypeOK, Changes, WorkerStep, HandlerStep
<1>2. /\ "alloc" \in Pcs /\ "set_staged" \in Pcs /\ "resolve" \in Pcs
      /\ "remove_inode" \in Pcs /\ "io" \in Statuses /\ "ok" \in Statuses
  BY DEF Pcs, Statuses
<1>3. req[w].op \in Writing /\ ~At(w, "idle") /\ n \in Names
  BY <1>1 DEF Changes, CopyUpHandle, WriteIo, Create, SetAttr, RemoveUpper,
              RemoveLower, At, RequestOK, Writing, NameOps, HandleOps, ByHandle
<1>4. Keeps(w) /\ SameTask(w) /\ SameFile(w) /\ SameView(w) /\ UNCHANGED Table
  BY <1>1, <1>2, GotoEffect, ReplyEffect, CreateEffect
     DEF Changes, CopyUpHandle, WriteIo, Create, SetAttr, RemoveUpper, RemoveLower
<1>5. ASSUME NEW S, Touch(S)
      PROVE  prom'.pc = prom.pc /\ prom'.name = prom.name /\ prom'.boot = prom.boot
  BY <1>1, <1>5, TouchKeepsPromoter
<1>6. ASSUME NEW c, SetStaged(n, c)
      PROVE  /\ staged'[n] = c /\ cloud' = cloud /\ tmp' = tmp
             /\ \A m \in Names \ {n} : staged'[m] = staged[m]
             /\ prom'.pc = prom.pc /\ prom'.name = prom.name
             /\ prom'.boot = prom.boot
  BY <1>1, <1>3, <1>5, <1>6 DEF SetStaged
<1>7. ASSUME Replaced({n})
      PROVE  Dropped(n) /\ \A m \in Names \ {n} : safe'[m] = safe[m]
  BY <1>3, <1>7 DEF Replaced, Dropped
<1> HIDE DEF n
<1>8. ASSUME UNCHANGED <<disk, safe, due>>,
             req'[w].pc = "reply" \/ (At(w, "sattr") /\ req'[w].pc = "alloc")
      PROVE  Elsewhere(n) /\ ChangeOf(w, n)
  BY <1>8 DEF disk, Elsewhere, ChangeOf
<1> SUFFICES Elsewhere(n) /\ ChangeOf(w, n)
  BY <1>3, <1>4 DEF n
<1>9. CASE CopyUpHandle(w)
  <2>1. CASE CopyUp(n) /\ Goto(w, "set_staged") /\ UNCHANGED hist
    <3>1. req'[w].pc = "set_staged" /\ UNCHANGED <<safe, due>> /\ At(w, "copy_up")
      BY <1>1, <1>2, <1>9, <2>1, GotoEffect DEF hist, CopyUpHandle
    <3>2. /\ Elsewhere(n) /\ cloud[n] # None /\ staged'[n] = cloud[n]
          /\ cloud'[n] = cloud[n]
      BY <1>1, <1>3, <1>5, <2>1, <3>1 DEF CopyUp, Elsewhere
    <3>3. QED
      BY <3>1, <3>2 DEF ChangeOf
  <2>2. CASE CopyUpFails(n) /\ Reply(w, "io") /\ Replaced({n})
    <3>1. req'[w].pc = "reply" /\ At(w, "copy_up") /\ Dropped(n)
          /\ \A m \in Names \ {n} : safe'[m] = safe[m]
      BY <1>1, <1>2, <1>7, <1>9, <2>2, ReplyEffect DEF CopyUpHandle
    <3>2. Elsewhere(n) /\ staged'[n] = Torn /\ cloud'[n] = cloud[n]
      BY <1>1, <1>3, <1>5, <2>2, <3>1 DEF CopyUpFails, Elsewhere
    <3>3. QED
      BY <3>1, <3>2 DEF ChangeOf
  <2>3. CASE Reply(w, "io") /\ UNCHANGED <<disk, hist>>
    BY <1>1, <1>2, <1>8, <2>3, ReplyEffect DEF hist
  <2>4. QED
    BY <1>9, <2>1, <2>2, <2>3 DEF CopyUpHandle, n
<1>10. CASE WriteIo(w)
  <2>1. CASE /\ req[w].op = "write" /\ WriteStaged(n, req[w].data)
             /\ Reply(w, "ok") /\ UNCHANGED due
             /\ safe' = IF \/ prom.pc \in {"publish", "unlink"} /\ prom.name = n
                           \/ staged[n] = Torn
                        THEN safe
                        ELSE [safe EXCEPT ![n] = @ \cup {req[w].data}]
    <3>1. /\ req'[w].pc = "reply" /\ At(w, "io") /\ staged[n] # None
          /\ SetStaged(n, Written(staged[n], req[w].data))
      BY <1>1, <1>2, <1>10, <2>1, ReplyEffect DEF WriteIo, WriteStaged
    <3>2. /\ staged'[n] = Written(staged[n], req[w].data) /\ cloud'[n] = cloud[n]
          /\ Elsewhere(n)
      BY <1>1, <1>3, <1>6, <2>1, <3>1 DEF Elsewhere
    <3>3. \/ safe'[n] = safe[n]
          \/ /\ safe'[n] = safe[n] \cup {req[w].data} /\ staged[n] # Torn
             /\ ~(prom.pc \in {"publish", "unlink"} /\ prom.name = n)
      BY <1>1, <1>3, <2>1
    <3>4. QED
      BY <2>1, <3>1, <3>2, <3>3 DEF ChangeOf
  <2>2. CASE TruncateStaged(n) /\ Reply(w, "ok") /\ Replaced({n})
    <3>1. /\ req'[w].pc = "reply" /\ At(w, "io") /\ staged[n] # None
          /\ SetStaged(n, {}) /\ Dropped(n)
          /\ \A m \in Names \ {n} : safe'[m] = safe[m]
      BY <1>1, <1>2, <1>7, <1>10, <2>2, ReplyEffect DEF WriteIo, TruncateStaged
    <3>2. Elsewhere(n) /\ staged'[n] = {} /\ cloud'[n] = cloud[n]
      BY <1>6, <3>1 DEF Elsewhere
    <3>3. QED
      BY <3>1, <3>2 DEF ChangeOf
  <2>3. CASE Reply(w, "io") /\ UNCHANGED <<disk, hist>>
    BY <1>1, <1>2, <1>8, <2>3, ReplyEffect DEF hist
  <2>4. QED
    BY <1>10, <2>1, <2>2, <2>3 DEF WriteIo, n
<1>11. CASE Create(w)
  <2>1. /\ At(w, "create") /\ SetStaged(n, {}) /\ Replaced({n})
        /\ req'[w].pc \in {"sattr", "alloc"}
    BY <1>1, <1>11, CreateEffect DEF Create, CreateFile, n
  <2>2. Elsewhere(n) /\ staged'[n] = {} /\ cloud'[n] = cloud[n] /\ Dropped(n)
    BY <2>1, <1>6, <1>7 DEF Elsewhere
  <2>3. QED
    BY <2>1, <2>2 DEF ChangeOf
<1>12. CASE RemoveUpper(w)
  <2>1. /\ At(w, "remove_staged") /\ Replaced({n}) /\ req'[w].pc = "resolve"
        /\ SetStaged(n, None) \/ (UNCHANGED disk /\ staged[n] = None)
    BY <1>1, <1>2, <1>12, GotoEffect DEF RemoveUpper, RemoveStaged, n
  <2>2. Elsewhere(n) /\ staged'[n] = None /\ cloud'[n] = cloud[n] /\ Dropped(n)
    BY <2>1, <1>6, <1>7 DEF Elsewhere, disk
  <2>3. QED
    BY <2>1, <2>2 DEF ChangeOf
<1>13. CASE RemoveLower(w)
  <2>1. CASE RemoveCloud(n) /\ Goto(w, "remove_inode") /\ UNCHANGED hist
    <3>1. req'[w].pc = "remove_inode" /\ UNCHANGED <<safe, due>>
          /\ At(w, "remove_cloud")
      BY <1>1, <1>2, <1>13, <2>1, GotoEffect DEF hist, RemoveLower
    <3>2. Elsewhere(n) /\ staged'[n] = staged[n] /\ cloud'[n] = None
      BY <1>1, <1>3, <1>5, <2>1, <3>1 DEF RemoveCloud, Elsewhere
    <3>3. QED
      BY <3>1, <3>2 DEF ChangeOf
  <2>2. CASE Reply(w, "io") /\ UNCHANGED <<disk, hist>>
    BY <1>1, <1>2, <1>8, <2>2, ReplyEffect DEF hist
  <2>3. req[w].found # "stub"
    BY DEF HandlerInv
  <2>4. QED
    BY <1>13, <2>1, <2>2, <2>3 DEF RemoveLower, n
<1>14. CASE SetAttr(w)
  <2>1. CASE UNCHANGED <<disk, hist>>
    <3>1. At(w, "sattr") /\ (req'[w].pc = "reply" \/ req'[w].pc = "alloc")
      BY <1>1, <1>2, <1>14, GotoEffect, ReplyEffect DEF SetAttr
    <3>2. QED
      BY <1>8, <2>1, <3>1 DEF hist
  <2>2. CASE TruncateStaged(n) /\ Goto(w, "alloc") /\ Replaced({n})
    <3>1. /\ req'[w].pc = "alloc" /\ At(w, "sattr")
          /\ SetStaged(n, {}) /\ Dropped(n)
          /\ \A m \in Names \ {n} : safe'[m] = safe[m]
      BY <1>1, <1>2, <1>7, <1>14, <2>2, GotoEffect DEF SetAttr, TruncateStaged
    <3>2. Elsewhere(n) /\ staged'[n] = {} /\ cloud'[n] = cloud[n]
      BY <1>6, <3>1 DEF Elsewhere
    <3>3. QED
      BY <3>1, <3>2 DEF ChangeOf
  <2>3. QED
    BY <1>14, <2>1, <2>2 DEF SetAttr, n
<1>15. QED
  BY <1>9, <1>10, <1>11, <1>12, <1>13, <1>14 DEF Changes

-----------------------------------------------------------------------------
(* What a handler does to the inode table when nobody renames.             *)
EntryBecomes(i, n, t) ==
  /\ i \in Inos
  /\ inodes'[i] # None /\ inodes'[i].name = n /\ inodes'[i].staged = t
  /\ ~inodes'[i].stub
  /\ \A j \in Inos \ {i} : inodes'[j] = inodes[j]

TableChange(w) ==
  LET n == req[w].name
      i == req'[w].ino
  IN
  \/ UNCHANGED inodes
  \/ /\ At(w, "alloc") /\ n \in Names /\ i \in Inos /\ i = next_ino
     /\ next_ino' = next_ino + 1
     /\ inodes[i] = None /\ InodesAt(n, FALSE) = {}
     /\ EntryBecomes(i, n, None)
  \/ /\ At(w, "set_staged") /\ n \in Names /\ i \in Inos /\ i = req[w].ino
     /\ inodes[i] # None /\ inodes[i].name = n
     /\ EntryBecomes(i, n, n)
  \/ /\ At(w, "drop_inode") /\ req[w].op = "remove" /\ n \in Names
     /\ \E j \in Inos : /\ inodes[j] = None \/ inodes[j].name = n
                       /\ inodes' = [inodes EXCEPT ![j] = None]

LEMMA TableEffect ==
  ASSUME ServerInv, NoEvictionsOrRenames, TableInv, NEW w \in Workers, HandlerInv(w),
         Arrive(w) \/ WorkerStep(w)
  PROVE  TableChange(w)
<1>1. /\ req \in [Workers -> Request] /\ RequestOK(w, req[w])
      /\ next_ino \in 2..(MaxIno + 1) /\ next_ino \in Nat
      /\ inodes \in [Inos -> {None} \cup InodeData]
      /\ \A i \in Inos : i >= next_ino => inodes[i] = None
  BY DEF ServerInv, NfsTypeOK
<1>2. None \notin InodeData
  BY ServerAssumption
<1>3. CASE Alloc(w)
  <2>1. At(w, "alloc") /\ req[w].name \in Names /\ req[w].found # "stub"
    BY <1>1, <1>3 DEF Alloc, At, RequestOK, Allocators, NameOps, HandlerInv
  <2>2. (req[w].op = "lookup" /\ req[w].found = "stub") = FALSE
    BY <2>1
  <2>3. \/ UNCHANGED Table
        \/ /\ InodesAt(req[w].name, FALSE) = {}
           /\ req'[w].ino = next_ino /\ req'[w].ino \in Inos
           /\ next_ino' = next_ino + 1
           /\ inodes' = [inodes EXCEPT ![req'[w].ino] =
                [name |-> req[w].name, stub |-> FALSE, staged |-> None]]
    BY <1>1, <1>3, <2>2, AllocEffect
  <2>4. req'[w].ino = next_ino /\ req'[w].ino \in Inos => inodes[req'[w].ino] = None
    BY <1>1
  <2>5. CASE UNCHANGED Table
    BY <2>5 DEF TableChange, Table
  <2>6. CASE ~UNCHANGED Table
    <3> DEFINE i == req'[w].ino
               d == [name |-> req[w].name, stub |-> FALSE, staged |-> None]
    <3>1. d \in InodeData /\ d.name = req[w].name /\ ~d.stub /\ d.staged = None
      BY <2>1 DEF InodeData
    <3>2. i \in Inos /\ inodes' = [inodes EXCEPT ![i] = d]
      BY <2>3, <2>6
    <3> HIDE DEF d, i
    <3>3. EntryBecomes(i, req[w].name, None)
      BY <1>1, <1>2, <3>1, <3>2 DEF EntryBecomes
    <3>4. QED
      BY <2>1, <2>3, <2>4, <2>6, <3>3 DEF TableChange, i
  <2>7. QED
    BY <2>5, <2>6
<1>4. CASE SetStagedPath(w)
  <2>1. /\ req[w].ino \in Inos /\ req[w].name \in Names /\ At(w, "set_staged")
        /\ inodes[req[w].ino] = None \/ inodes[req[w].ino].name = req[w].name
        /\ req'[w].ino = req[w].ino
    BY <1>1, <1>4, SetStagedEffect
       DEF SetStagedPath, At, RequestOK, HandlerInv, SameFile
  <2>2. CASE inodes[req[w].ino] = None
    BY <1>4, <2>2 DEF SetStagedPath, TableChange
  <2>3. CASE inodes[req[w].ino] # None
    <3> DEFINE i == req[w].ino
               d == inodes[i]
    <3>1. d \in InodeData /\ ~d.stub /\ d.name = req[w].name
      BY <1>1, <2>1, <2>3 DEF TableInv
    <3>2. inodes' = [inodes EXCEPT ![i] = [d EXCEPT !.staged = req[w].name]]
      BY <1>1, <1>4, <2>1, <2>3 DEF SetStagedPath
    <3> DEFINE e == [d EXCEPT !.staged = req[w].name]
    <3>3. e \in InodeData /\ e.name = req[w].name /\ ~e.stub /\ e.staged = req[w].name
      BY <2>1, <3>1 DEF InodeData
    <3> HIDE DEF e
    <3>4. EntryBecomes(i, req[w].name, req[w].name)
      BY <1>1, <1>2, <2>1, <3>2, <3>3 DEF EntryBecomes, e
    <3>5. QED
      BY <2>1, <2>3, <3>1, <3>4 DEF TableChange
  <2>4. QED
    BY <2>2, <2>3
<1>5. CASE RemoveInode(w)
  <2>1. /\ At(w, "drop_inode") /\ req[w].op = "remove" /\ req[w].name \in Names
        /\ req[w].ino \in Inos
    BY <1>1, <1>5 DEF RemoveInode, At, RequestOK, NameOps
  <2>2. /\ inodes[req[w].ino] = None \/ inodes[req[w].ino].name = req[w].name
        /\ inodes' = [inodes EXCEPT ![req[w].ino] = None]
    BY <1>5, <2>1 DEF RemoveInode, HandlerInv, At
  <2>3. QED
    BY <2>1, <2>2 DEF TableChange
<1>6. QED
  BY <1>3, <1>4, <1>5, NoRenames
     DEF WorkerStep, HandlerStep,
         Arrive, Resolve, ResolveStub, CheckStaged, Stat, UseHandle,
         UsePath, CopyUpHandle, WriteIo, ReadIo, Create, SetAttr, RemoveUpper,
         RemoveLower, FindInode, CallFails, Respond, Table, TableChange

(* Entries keep their name and stay staged; only remove drops one.         *)
EntriesKept(w) ==
  \A i \in Inos :
    /\ inodes[i] # None /\ inodes'[i] # None =>
         /\ inodes'[i].name = inodes[i].name
         /\ inodes[i].staged # None => inodes'[i].staged # None
    /\ inodes[i] # None /\ inodes'[i] = None =>
         /\ At(w, "drop_inode") /\ req[w].op = "remove"
         /\ inodes[i].name = req[w].name
    /\ i < next_ino /\ inodes[i] = None => inodes'[i] = None

LEMMA EntriesStep ==
  ASSUME ServerInv, NoEvictionsOrRenames, TableInv, NEW w \in Workers, HandlerInv(w),
         Arrive(w) \/ WorkerStep(w)
  PROVE  EntriesKept(w) /\ TableInv'
<1>1. /\ inodes \in [Inos -> {None} \cup InodeData] /\ TableChange(w) /\ TableKept
  BY TableEffect, WorkerTable DEF ServerInv, NfsTypeOK
<1>2. None \notin Names
  BY LayerAssumption
<1> DEFINE n == req[w].name
           i == req'[w].ino
<1>3. CASE UNCHANGED inodes
  BY <1>3 DEF EntriesKept, TableInv
<1>4. CASE /\ At(w, "alloc") /\ n \in Names /\ i \in Inos /\ i = next_ino
           /\ next_ino' = next_ino + 1
           /\ inodes[i] = None /\ InodesAt(n, FALSE) = {}
           /\ EntryBecomes(i, n, None)
  <2> HIDE DEF n, i
  <2>2. \A j \in Inos : inodes[j] # None => inodes[j].name # n
    BY <1>4 DEF InodesAt, TableInv
  <2>3. TableInv'
    BY <1>4, <2>2 DEF TableInv, EntryBecomes
  <2>4. EntriesKept(w)
    BY <1>1, <1>4 DEF EntriesKept, TableKept, EntryBecomes
  <2>5. QED
    BY <2>3, <2>4
<1>5. CASE /\ At(w, "set_staged") /\ n \in Names /\ i \in Inos /\ i = req[w].ino
           /\ inodes[i] # None /\ inodes[i].name = n
           /\ EntryBecomes(i, n, n)
  <2> HIDE DEF n, i
  <2>3. TableInv'
    BY <1>5 DEF TableInv, EntryBecomes
  <2>4. EntriesKept(w)
    BY <1>1, <1>2, <1>5 DEF EntriesKept, TableKept, EntryBecomes
  <2>5. QED
    BY <2>3, <2>4
<1>6. CASE /\ At(w, "drop_inode") /\ req[w].op = "remove" /\ n \in Names
           /\ \E j \in Inos : /\ inodes[j] = None \/ inodes[j].name = n
                             /\ inodes' = [inodes EXCEPT ![j] = None]
  BY <1>1, <1>6 DEF EntriesKept, TableInv, TableKept
<1>7. QED
  BY <1>1, <1>3, <1>4, <1>5, <1>6 DEF TableChange

-----------------------------------------------------------------------------
(* The safe writes stay under their name, whatever a handler does.         *)
LEMMA SafeWorker ==
  ASSUME ServerInv, NoEvictionsOrRenames, SafeInv, NEW w \in Workers, HandlerInv(w),
         Arrive(w) \/ WorkerStep(w)
  PROVE  SafeInv'
<1>1. CASE Unseen(w)
  BY <1>1 DEF Unseen, SafeInv, Visible
<1>2. CASE Changes(w)
  <2>1. PICK n \in Names : n = req[w].name /\ Elsewhere(n) /\ ChangeOf(w, n)
    BY <1>2, ChangeEffect
  <2>2. /\ staged \in [Names -> File] /\ cloud \in [Names -> File]
        /\ tmp' = tmp /\ prom'.pc = prom.pc /\ prom'.name = prom.name
        /\ RequestOK(w, req[w])
    BY <2>1 DEF Elsewhere, ServerInv, NfsTypeOK, TypeOK
  <2> DEFINE Kept(m) ==
        /\ Holds(Visible(m)', safe'[m])
        /\ prom.pc = "publish" /\ prom.name = m => Holds(tmp[m], safe'[m])
        /\ prom.pc = "unlink" /\ prom.name = m => Holds(cloud'[m], safe'[m])
  <2>3. ASSUME NEW m \in Names \ {n}
        PROVE  Kept(m)
    BY <2>1, <2>3 DEF Elsewhere, SafeInv, Visible
  <2>4. Kept(n)
    <3>1. CASE safe'[n] = {}
      BY <3>1 DEF Holds
    <3>2. CASE /\ At(w, "copy_up") /\ cloud[n] # None
               /\ staged'[n] = cloud[n] /\ cloud'[n] = cloud[n] /\ safe'[n] = safe[n]
      <4>1. Overwritable(n)
        BY <2>1, <3>2 DEF HandlerInv, At
      <4>2. Holds(cloud[n], safe[n])
        BY <2>1, <4>1 DEF Overwritable, SafeInv, Visible, Holds
      <4>3. QED
        BY <2>1, <3>2, <4>2 DEF SafeInv, Visible
    <3>3. CASE /\ At(w, "io") /\ req[w].op = "write" /\ staged[n] # None
               /\ staged'[n] = Written(staged[n], req[w].data)
               /\ cloud'[n] = cloud[n]
               /\ \/ safe'[n] = safe[n]
                  \/ /\ safe'[n] = safe[n] \cup {req[w].data} /\ staged[n] # Torn
                     /\ ~(prom.pc \in {"publish", "unlink"} /\ prom.name = n)
      <4>1. Holds(staged[n], safe[n]) /\ req[w].data \in Writes
        BY <2>1, <2>2, <3>3 DEF SafeInv, Visible, RequestOK, At, Payloads
      <4>2. CASE staged[n] = Torn
        <5>1. safe'[n] = {}
          BY <3>3, <4>1, <4>2 DEF Holds
        <5>2. QED
          BY <5>1 DEF Holds
      <4>3. CASE staged[n] # Torn
        <5>1. staged[n] \in SUBSET Writes
          BY <2>1, <2>2, <3>3, <4>3 DEF File
        <5>2. staged'[n] = staged[n] \cup {req[w].data}
          BY <3>3, <4>3 DEF Written
        <5>3. staged'[n] \in SUBSET Writes
          BY <4>1, <5>1, <5>2
        <5>4. Holds(staged'[n], safe'[n])
          BY <3>3, <4>1, <5>2, <5>3, LayerAssumption DEF Holds
        <5>5. Visible(n)' = staged'[n]
          BY <5>3, LayerAssumption DEF Visible
        <5>6. QED
          BY <2>1, <3>3, <5>4, <5>5 DEF SafeInv
      <4>4. QED
        BY <4>2, <4>3
    <3>4. CASE /\ At(w, "remove_cloud") /\ safe'[n] = safe[n]
      <4>1. req[w].op = "remove"
        BY <2>2, <3>4 DEF RequestOK, At
      <4>2. safe[n] = {}
        BY <2>1, <3>4, <4>1 DEF HandlerInv, At, Removing
      <4>3. QED
        BY <3>1, <3>4, <4>2
    <3>5. CASE UNCHANGED <<staged, cloud, safe, due>>
      BY <2>1, <3>5 DEF SafeInv, Visible
    <3>6. QED
      BY <2>1, <3>1, <3>2, <3>3, <3>4, <3>5 DEF ChangeOf, Dropped
  <2>5. QED
    BY <2>2, <2>3, <2>4 DEF SafeInv
<1>3. QED
  BY <1>1, <1>2, WorkerKinds

-----------------------------------------------------------------------------
(* A file that is staged whole stays known to the table as staged.         *)
LEMMA NotedStaged ==
  ASSUME ServerInv, NoEvictionsOrRenames, TableInv, NEW w \in Workers, HandlerInv(w),
         SetStagedPath(w), NEW n \in Names, req[w].name = n,
         inodes[req[w].ino] # None
  PROVE  StagedKnown(n)'
<1>1. /\ RequestOK(w, req[w]) /\ inodes \in [Inos -> {None} \cup InodeData]
      /\ None \notin InodeData \cup Names
  BY ServerAssumption, LayerAssumption DEF ServerInv, NfsTypeOK
<1>2. PICK i \in Inos : i = req[w].ino
  BY <1>1 DEF SetStagedPath, At, RequestOK
<1>3. inodes[i] \in InodeData /\ inodes[i].name = n
  BY <1>1, <1>2 DEF SetStagedPath, At, HandlerInv
<1>4. inodes' = [inodes EXCEPT ![i].staged = n]
  BY <1>2 DEF SetStagedPath
<1> DEFINE d == [inodes[i] EXCEPT !.staged = n]
<1>5. d \in InodeData /\ d.name = n /\ d.staged = n
  BY <1>3 DEF InodeData
<1>6. inodes'[i] = d
  BY <1>1, <1>4
<1> HIDE DEF d
<1>7. QED
  BY <1>1, <1>5, <1>6 DEF StagedKnown

LEMMA StagingSteps ==
  ASSUME ServerInv, NoEvictionsOrRenames, TableInv, NEW w \in Workers, HandlerInv(w),
         Arrive(w) \/ WorkerStep(w), NEW n \in Names, Staging(w, n)
  PROVE  StagedKnown(n)'
<1>1. /\ req \in [Workers -> Request] /\ RequestOK(w, req[w])
      /\ next_ino \in Nat /\ req[w].name = n
  BY DEF ServerInv, NfsTypeOK, Staging
<1>2. At(w, "set_staged") /\ req[w].op # "lookup"
  BY DEF Staging
<1>3. SetStagedPath(w)
  BY <1>2
     DEF WorkerStep, HandlerStep,
         Arrive, Resolve, ResolveStub, CheckStaged, Stat, Alloc,
       UseHandle, UsePath, Hydrated, HydrateFails, CopyUpHandle, WriteIo, ReadIo,
       Create, SetAttr, RemoveUpper, RemoveLower, FindInode, RemoveInode,
       RenameCheck, RenameUpper, RenameLower, RenameInode, CallFails, Fallible,
       Respond, At
<1>4. inodes[req[w].ino] # None
  BY <1>2 DEF HandlerInv, At
<1>5. QED
  BY <1>1, <1>3, <1>4, NotedStaged

LEMMA KnownKept ==
  ASSUME ServerInv, NoEvictionsOrRenames, TableInv, NEW w \in Workers, HandlerInv(w),
         Arrive(w) \/ WorkerStep(w), NEW n \in Names, StagedKnown(n)
  PROVE  \/ StagedKnown(n)'
         \/ /\ At(w, "drop_inode") /\ req[w].op = "remove" /\ req[w].name = n
            /\ staged[n] = None /\ safe[n] = {} /\ Unseen(w)
<1>1. PICK i \in Inos : inodes[i] # None /\ inodes[i].name = n /\ inodes[i].staged # None
  BY DEF StagedKnown
<1>2. EntriesKept(w)
  BY EntriesStep
<1>3. CASE inodes'[i] # None
  BY <1>1, <1>2, <1>3 DEF EntriesKept, StagedKnown
<1>4. CASE inodes'[i] = None
  <2>1. At(w, "drop_inode") /\ req[w].op = "remove" /\ req[w].name = n
    BY <1>1, <1>2, <1>4 DEF EntriesKept
  <2>2. staged[n] = None /\ safe[n] = {}
    BY <2>1 DEF HandlerInv, Removing, At
  <2>3. Unseen(w)
    BY <2>1, WorkerKinds DEF Changes, CopyUpHandle, WriteIo, Create, SetAttr,
                             RemoveUpper, RemoveLower, At
  <2>4. QED
    BY <2>1, <2>2, <2>3
<1>5. QED
  BY <1>3, <1>4

LEMMA StagedWorker ==
  ASSUME ServerInv, NoEvictionsOrRenames, TableInv, StagedInv,
         \A v \in Workers : HandlerInv(v),
         NEW w \in Workers, Arrive(w) \/ WorkerStep(w)
  PROVE  StagedInv'
<1>1. /\ RequestOK(w, req[w]) /\ HandlerInv(w) /\ Keeps(w)
      /\ prom'.boot = prom.boot
  BY WorkerProgress, WorkerServing DEF ServerInv, Progress
<1>2. SUFFICES ASSUME Serving, NEW n \in Names, ~Overwritable(n)'
               PROVE  StagedKnown(n)' \/ \E v \in Workers : Staging(v, n)'
  BY <1>1 DEF StagedInv, Serving
<1>3. ASSUME NEW v \in Workers, Staging(v, n)
      PROVE  StagedKnown(n)' \/ \E u \in Workers : Staging(u, n)'
  <2>1. CASE v = w
    BY <1>1, <1>3, <2>1, StagingSteps
  <2>2. CASE v # w
    BY <1>1, <1>3, <2>2 DEF Keeps, Staging, At
  <2>3. QED
    BY <2>1, <2>2
<1>4. CASE StagedKnown(n)
  BY <1>1, <1>2, <1>4, KnownKept DEF Unseen, Overwritable
<1>5. CASE ~Overwritable(n)
  BY <1>2, <1>3, <1>4, <1>5 DEF StagedInv
<1>6. CASE Overwritable(n) /\ ~StagedKnown(n)
  <2>1. Changes(w)
    BY <1>1, <1>2, <1>6, WorkerKinds DEF Unseen, Overwritable
  <2>2. /\ Elsewhere(req[w].name) /\ ChangeOf(w, req[w].name)
        /\ req[w].op \in Writing /\ SameTask(w) /\ SameFile(w)
    BY <1>1, <2>1, ChangeEffect
  <2>3. req[w].name = n
    BY <1>2, <1>6, <2>2 DEF Elsewhere, Overwritable
  <2>4. ~At(w, "io")
    BY <1>1, <1>6, <2>2, <2>3 DEF HandlerInv, At, Writing
  <2>5. req'[w].pc = "set_staged"
    BY <1>2, <1>6, <2>2, <2>3, <2>4 DEF ChangeOf, Dropped, Overwritable
  <2>6. req[w].op # "lookup"
    BY <2>2 DEF Writing
  <2>7. QED
    BY <2>2, <2>3, <2>5, <2>6 DEF Staging, At, SameTask, SameFile
<1>7. QED
  BY <1>4, <1>5, <1>6

-----------------------------------------------------------------------------
(* What a handler knows when it has taken a step.                          *)
LEMMA NotStagedWhole ==
  ASSUME ServerInv, OnePerFile', TableInv, StagedInv, SafeInv,
         \A v \in Workers : HandlerInv(v), NEW w \in Workers, UseHandle(w),
         NEW i \in Inos, i = req[w].ino, inodes[i] # None, inodes[i].staged = None,
         NEW n \in Names, inodes[i].name = n
  PROVE  /\ Holds(cloud[n], safe[n])
         /\ req[w].op # "read" => Overwritable(n)
<1>1. /\ RequestOK(w, req[w]) /\ At(w, "handle") /\ Serving
      /\ req[w].op \in HandleOps /\ req \in [Workers -> Request]
      /\ req[w].ino \in Inos /\ inodes \in [Inos -> {None} \cup InodeData]
  BY DEF ServerInv, NfsTypeOK, RequestOK, At, ByHandle, UseHandle
<1>2. ~StagedKnown(n)
  BY DEF StagedKnown, TableInv
<1>3. CASE Overwritable(n)
  <2>1. Holds(Visible(n), safe[n])
    BY DEF SafeInv
  <2>2. QED
    BY <1>3, <2>1 DEF Overwritable, Holds, Visible
<1>4. ASSUME NEW v \in Workers, Staging(v, n)
      PROVE  Holds(cloud[n], safe[n]) /\ req[w].op = "read"
  <2>1. /\ req[v].op \in {"create", "exclusive"}
           \/ (At(v, "set_staged") /\ req[v].op \in HandleOps)
        /\ req[v].op \in Writing /\ req[v].name = n /\ v # w
    BY <1>1, <1>4 DEF Staging, At, ServerInv, RequestOK, Allocators, HandleOps,
                      Writing
  <2>2. Holds(cloud[n], safe[n])
    BY <1>4, <2>1 DEF Staging, HandlerInv, At, Holds
  <2>3. /\ req'[w].op = req[w].op /\ req'[w].name = n
        /\ req'[v] = req[v]
    BY <1>1, <2>1, UseHandleEffect DEF SameTask, Keeps
  <2>4. req[w].op \notin Writing
    BY <2>1, <2>3, LayerAssumption DEF OnePerFile
  <2>5. QED
    BY <1>1, <2>2, <2>4 DEF HandleOps, Writing
<1>5. QED
  BY <1>1, <1>2, <1>3, <1>4 DEF StagedInv

(* What a handler knows after its own step.                                *)
LEMMA HandlerOwn ==
  ASSUME ServerInv, NoEvictionsOrRenames, OnePerFile', TableInv, StagedInv, SafeInv,
         \A v \in Workers : HandlerInv(v),
         NEW w \in Workers, Arrive(w) \/ WorkerStep(w)
  PROVE  HandlerInv(w)'
<1>1. /\ req \in [Workers -> Request] /\ RequestOK(w, req[w])
      /\ next_ino \in 2..(MaxIno + 1) /\ next_ino \in Nat
      /\ inodes \in [Inos -> {None} \cup InodeData]
      /\ staged \in [Names -> File] /\ cloud \in [Names -> File]
      /\ HandlerInv(w) /\ \A n \in Names : stub[n] = None
  BY DEF ServerInv, NfsTypeOK, TypeOK, NoEvictionsOrRenames
<1> USE <1>1 DEF Removing
<1>2. CASE Arrive(w)
  <2>1. /\ req'[w].found = "none" /\ req'[w].pc = FirstPc[req'[w].op]
        /\ req'[w].op \in NameOps \cup HandleOps
    BY <1>2, ArriveEffect, ServerAssumption
  <2>2. /\ req'[w].pc \in {"resolve", "create", "check_staged", "remove_staged",
                           "rename_check", "handle"}
        /\ req'[w].pc = "resolve" => req'[w].op = "lookup"
    BY <2>1 DEF FirstPc, NameOps, HandleOps
  <2>3. QED
    BY <2>1, <2>2 DEF HandlerInv, Removing
<1>3. CASE Resolve(w) \/ ResolveStub(w)
  <2>1. /\ req[w].op \in ByName /\ req[w].pc \in Removing /\ req[w].name \in Names
        /\ UNCHANGED <<staged, cloud, safe, inodes>>
    BY <1>3 DEF Resolve, ResolveStub, At, RequestOK, ByName, Removing, NameOps, disk,
                hist, Table
  <2>2. Goto(w, "resolve_stub") \/ \E f \in {"real", "none"} : Resolved(w, f)
    BY <1>3, <2>1 DEF Resolve, ResolveStub
  <2>3. CASE Goto(w, "resolve_stub")
    <3>1. req'[w].pc = "resolve_stub" /\ SameTask(w) /\ SameFile(w) /\ SameView(w)
      BY <2>3, GotoEffect DEF Pcs
    <3>2. QED
      BY <2>1, <3>1 DEF HandlerInv, SameTask, SameFile, SameView, Removing
  <2>4. ASSUME NEW f \in {"real", "none"}, Resolved(w, f)
        PROVE  HandlerInv(w)'
    <3>1. /\ SameTask(w) /\ SameFile(w) /\ req'[w].found = f
          /\ req'[w].pc \in {"check_staged", "reply", "remove_cloud", "rename_cloud",
                             "create", "remove_inode", "rename_inode"}
      BY <2>1, <2>4, ResolvedEffect DEF Paths, IfFound, IfMissing, ByName
    <3>2. QED
      BY <2>1, <2>4, <3>1 DEF HandlerInv, SameTask, SameFile, Removing
  <2>5. QED
    BY <2>2, <2>3, <2>4
<1>4. CASE CheckStaged(w)
  <2>1. req[w].op \in {"lookup", "exclusive"}
    BY <1>4 DEF CheckStaged, At, RequestOK
  <2>2. /\ req'[w].op \in {"lookup", "exclusive"} /\ req'[w].found = req[w].found
        /\ req'[w].pc \in {"reply", "resolve", "stat"}
    BY <1>4, <2>1, CheckStagedEffect DEF SameTask
  <2>3. QED
    BY <2>2 DEF HandlerInv
<1>5. CASE Stat(w)
  <2>1. Reply(w, "noent") \/ Goto(w, "alloc")
    BY <1>5 DEF Stat
  <2>2. req[w].op = "lookup"
    BY <1>5 DEF Stat, At, RequestOK
  <2>3. /\ req'[w].pc \in {"reply", "alloc"} /\ req'[w].op = "lookup"
        /\ req'[w].found = req[w].found
    BY <2>1, <2>2, ReplyEffect, GotoEffect DEF Pcs, Statuses, SameTask, SameView
  <2>4. QED
    BY <2>3 DEF HandlerInv
<1>6. CASE Alloc(w)
  <2>1. /\ req'[w].pc \in {"reply", "set_staged"} /\ SameTask(w) /\ SameView(w)
        /\ req'[w].name = req[w].name
    BY <1>6, AllocEffect
  <2>2. /\ req[w].op \in Allocators /\ req[w].name \in Names /\ At(w, "alloc")
        /\ UNCHANGED safe
    BY <1>6 DEF Alloc, At, RequestOK, Allocators, NameOps, hist
  <2>3. inodes'[req'[w].ino] # None /\ inodes'[req'[w].ino].name = req[w].name
    <3>1. (req[w].op = "lookup" /\ req[w].found = "stub") = FALSE
      BY DEF HandlerInv
    <3>2. \/ req'[w].ino \in InodesAt(req[w].name, FALSE) /\ UNCHANGED inodes
          \/ /\ req'[w].ino \in Inos
             /\ inodes' = [inodes EXCEPT ![req'[w].ino] =
                  [name |-> req[w].name, stub |-> FALSE, staged |-> None]]
      BY <1>6, <3>1, AllocEffect DEF Table
    <3>3. CASE req'[w].ino \in InodesAt(req[w].name, FALSE) /\ UNCHANGED inodes
      BY <3>3 DEF InodesAt
    <3>4. CASE /\ req'[w].ino \in Inos
               /\ inodes' = [inodes EXCEPT ![req'[w].ino] =
                    [name |-> req[w].name, stub |-> FALSE, staged |-> None]]
      <4> DEFINE d == [name |-> req[w].name, stub |-> FALSE, staged |-> None]
      <4>1. d \in InodeData /\ d.name = req[w].name
        BY <2>2 DEF InodeData
      <4>2. inodes'[req'[w].ino] = d
        BY <3>4
      <4> HIDE DEF d
      <4>3. QED
        BY <4>1, <4>2, ServerAssumption
    <3>5. QED
      BY <3>2, <3>3, <3>4
  <2>4. req[w].op \notin HandleOps
    BY <2>2 DEF Allocators, HandleOps
  <2>5. QED
    BY <2>1, <2>2, <2>3, <2>4 DEF HandlerInv, SameTask, SameView, At
<1>7. CASE SetStagedPath(w)
  <2>1. /\ SameTask(w) /\ SameFile(w) /\ req'[w].found = req[w].found
        /\ \/ req'[w].pc = "io" /\ req[w].op \in HandleOps
           \/ req'[w].pc = "reply"
    BY <1>7, SetStagedEffect
  <2>2. req[w].name \in Names /\ req[w].ino \in Inos /\ At(w, "set_staged")
    BY <1>7 DEF SetStagedPath, At, RequestOK
  <2>3. CASE req'[w].pc = "io" /\ req[w].op \in HandleOps
    <3>1. inodes[req[w].ino] # None
      BY <2>2, <2>3 DEF HandlerInv, At, HandleOps
    <3>2. PICK n \in Names : n = req[w].name
      BY <2>2
    <3>3. StagedKnown(n)'
      BY <1>7, <3>1, <3>2, NotedStaged
    <3>4. QED
      BY <2>1, <2>3, <3>2, <3>3 DEF HandlerInv, SameTask, SameFile, StagedKnown
  <2>4. CASE req'[w].pc = "reply"
    BY <2>1, <2>4 DEF HandlerInv, SameTask
  <2>5. QED
    BY <2>1, <2>3, <2>4
<1>8. CASE UseHandle(w)
  <2>1. /\ req[w].ino \in Inos /\ req[w].op \in HandleOps /\ At(w, "handle")
        /\ UNCHANGED <<staged, cloud, safe, inodes>>
    BY <1>8 DEF UseHandle, At, RequestOK, ByHandle, disk, Table
  <2>2. PICK i \in Inos : i = req[w].ino
    BY <2>1
  <2>3. /\ SameTask(w) /\ req'[w].ino = i /\ req'[w].found = req[w].found
        /\ \/ inodes[i] = None /\ req'[w].pc = "path"
           \/ /\ inodes[i] # None /\ inodes[i].staged # None
              /\ req'[w].pc = "io" /\ req'[w].name = inodes[i].staged
           \/ /\ inodes[i] # None /\ inodes[i].staged = None
              /\ req'[w].pc = "path" /\ req'[w].name = inodes[i].name
    BY <1>8, <2>1, <2>2, UseHandleEffect
  <2>4. CASE inodes[i] = None /\ req'[w].pc = "path"
    BY <2>1, <2>3, <2>4 DEF HandlerInv, SameTask
  <2>5. CASE /\ inodes[i] # None /\ inodes[i].staged # None
             /\ req'[w].pc = "io" /\ req'[w].name = inodes[i].staged
    <3>1. req'[w].name = inodes[i].name
      BY <2>5 DEF TableInv
    <3>2. QED
      BY <2>1, <2>3, <2>5, <3>1 DEF HandlerInv, SameTask, StagedKnown
  <2>6. CASE /\ inodes[i] # None /\ inodes[i].staged = None
             /\ req'[w].pc = "path" /\ req'[w].name = inodes[i].name
    <3>1. PICK n \in Names : n = inodes[i].name
      BY <2>6 DEF InodeData
    <3>2. req[w].op # "read" => Overwritable(n)
      BY <1>8, <2>2, <2>6, <3>1, NotStagedWhole
    <3>3. QED
      BY <2>1, <2>3, <2>6, <3>1, <3>2 DEF HandlerInv, SameTask, Overwritable
  <2>7. QED
    BY <2>3, <2>4, <2>5, <2>6
<1>9. CASE UsePath(w)
  <2>1. /\ req[w].ino \in Inos /\ req[w].op \in HandleOps /\ At(w, "path")
        /\ UNCHANGED <<staged, cloud, safe, inodes>>
    BY <1>9 DEF UsePath, At, RequestOK, ByHandle, disk, Table, hist
  <2>2. /\ SameTask(w) /\ req'[w].ino = req[w].ino /\ SameView(w)
        /\ \/ req'[w].pc = "reply"
           \/ /\ inodes[req[w].ino] # None
              /\ req'[w].name = inodes[req[w].ino].name
              /\ req'[w].pc = IF inodes[req[w].ino].stub THEN "hydrate"
                              ELSE IF req[w].op = "read" THEN "io" ELSE "copy_up"
    BY <1>9, <2>1, UsePathEffect
  <2>3. CASE req'[w].pc = "reply"
    BY <2>2, <2>3 DEF HandlerInv, SameTask, SameView
  <2>4. CASE /\ inodes[req[w].ino] # None
             /\ req'[w].name = inodes[req[w].ino].name
             /\ req'[w].pc = IF inodes[req[w].ino].stub THEN "hydrate"
                             ELSE IF req[w].op = "read" THEN "io" ELSE "copy_up"
    <3>1. ~inodes[req[w].ino].stub /\ req'[w].name = req[w].name
      BY <2>1, <2>4 DEF TableInv, HandlerInv, At
    <3>2. \/ req'[w].pc = "io" /\ req[w].op = "read"
          \/ req'[w].pc = "copy_up" /\ req[w].op # "read"
      BY <2>4, <3>1
    <3>3. req[w].op # "read" => Overwritable(req[w].name)
      BY <2>1, <2>4 DEF HandlerInv, At
    <3>4. QED
      BY <2>1, <2>2, <2>4, <3>1, <3>2, <3>3
         DEF HandlerInv, SameTask, SameView, Overwritable
  <2>5. QED
    BY <2>2, <2>3, <2>4
<1>10. CASE Changes(w)
  <2>1. PICK n \in Names : n = req[w].name /\ ChangeOf(w, n)
    BY <1>10, ChangeEffect
  <2>2. SameTask(w) /\ SameFile(w) /\ SameView(w) /\ UNCHANGED inodes
    BY <1>10, ChangeEffect DEF Table
  <2>3. req'[w].found # "stub" /\ req'[w].name = n /\ req'[w].op = req[w].op
    BY <2>1, <2>2 DEF SameTask, SameFile, SameView, HandlerInv
  <2>4. CASE req'[w].pc = "reply"
    BY <2>3, <2>4 DEF HandlerInv
  <2>5. CASE /\ At(w, "copy_up") /\ req'[w].pc = "set_staged"
             /\ cloud'[n] = cloud[n] /\ safe'[n] = safe[n]
    <3>1. /\ inodes[req[w].ino] # None /\ inodes[req[w].ino].name = n
          /\ Overwritable(n)
      BY <2>1, <2>5 DEF HandlerInv, At
    <3>2. Holds(cloud[n], safe[n])
      BY <3>1 DEF Overwritable, SafeInv, Visible, Holds
    <3>3. req[w].op \in HandleOps
      BY <2>5 DEF At, RequestOK, ByHandle
    <3>4. QED
      BY <2>2, <2>3, <2>5, <3>1, <3>2, <3>3 DEF HandlerInv, SameFile, HandleOps
  <2>6. CASE req'[w].pc \in {"sattr", "alloc"} /\ Dropped(n)
    BY <2>3, <2>6 DEF HandlerInv, Dropped
  <2>7. CASE /\ At(w, "remove_staged") /\ req'[w].pc = "resolve"
             /\ staged'[n] = None /\ Dropped(n)
    BY <2>3, <2>7 DEF HandlerInv, Dropped
  <2>8. CASE /\ At(w, "remove_cloud") /\ req'[w].pc = "remove_inode"
             /\ staged'[n] = staged[n] /\ safe'[n] = safe[n]
    BY <2>1, <2>3, <2>8 DEF HandlerInv, At
  <2>9. CASE /\ At(w, "sattr") /\ req'[w].pc = "alloc"
             /\ UNCHANGED <<staged, cloud, safe, due>>
    BY <2>1, <2>3, <2>9 DEF HandlerInv, At
  <2>10. QED
    BY <2>1, <2>4, <2>5, <2>6, <2>7, <2>8, <2>9 DEF ChangeOf
<1>11. CASE \/ FindInode(w) \/ RemoveInode(w) \/ ReadIo(w) \/ CallFails(w)
  <2>1. CASE RemoveInode(w) \/ CallFails(w)
    <3>1. req'[w].pc = "reply" /\ req'[w].found = req[w].found
      BY <2>1, ReplyEffect, CallFailsEffect DEF RemoveInode, SameView, Statuses
    <3>2. QED
      BY <3>1 DEF HandlerInv
  <2>4. CASE FindInode(w)
    <3>1. /\ req[w].op = "remove" /\ req[w].name \in Names /\ At(w, "remove_inode")
          /\ UNCHANGED <<staged, safe, inodes>>
      BY <2>4 DEF FindInode, At, RequestOK, NameOps, disk, hist, Table
    <3>2. /\ SameTask(w) /\ SameView(w) /\ req'[w].name = req[w].name
          /\ \/ req'[w].pc = "reply"
             \/ req'[w].pc = "drop_inode" /\ req'[w].ino \in InodesOf(req[w].name)
      BY <2>4, FindInodeEffect
    <3>3. staged[req[w].name] = None /\ safe[req[w].name] = {}
      BY <3>1 DEF HandlerInv, At
    <3>4. QED
      BY <3>1, <3>2, <3>3
         DEF HandlerInv, SameTask, SameView, InodesOf, InodesAt, HandleOps
  <2>2. CASE ReadIo(w)
    <3>1. req[w].name \in Names
      BY <2>2 DEF ReadIo, At, RequestOK
    <3>2. QED
      BY <2>2, <3>1, ReadIoEffect DEF SameView, HandlerInv
  <2>3. QED
    BY <1>11, <2>1, <2>2, <2>4
<1>12. CASE Respond(w)
  BY <1>12, IdleRequest, BecomeEffect DEF Respond, Idle, HandlerInv
<1>13. QED
  BY <1>2, <1>3, <1>4, <1>5, <1>6, <1>7, <1>8, <1>9, <1>10, <1>11, <1>12, NoRenames
     DEF WorkerStep, HandlerStep, Changes

(* What the other handlers know stays true.                                *)
LEMMA HandlerOthers ==
  ASSUME ServerInv, NoEvictionsOrRenames, OnePerFile, TableInv,
         NEW w \in Workers, HandlerInv(w), Arrive(w) \/ WorkerStep(w),
         NEW v \in Workers \ {w}, HandlerInv(v)
  PROVE  HandlerInv(v)'
<1>1. /\ RequestOK(v, req[v]) /\ RequestOK(w, req[w]) /\ EntriesKept(w)
      /\ req'[v] = req[v]
      /\ req[v].ino \in Inos => req[v].ino < next_ino
      /\ inodes \in [Inos -> {None} \cup InodeData]
  BY WorkerProgress, EntriesStep DEF ServerInv, NfsTypeOK, Progress, Keeps
<1>2. req[v].pc \in {"path", "copy_up", "set_staged", "drop_inode"} =>
        inodes'[req[v].ino] = None \/ inodes'[req[v].ino].name = req[v].name
  BY <1>1 DEF RequestOK, HandlerInv, EntriesKept, ByHandle
<1>3. CASE req[v].op \notin Writing
  <2>1. /\ req[v].pc = "copy_up" => FALSE
        /\ req[v].pc = "set_staged" => req[v].op = "lookup"
        /\ req[v].pc = "path" => req[v].op = "read"
        /\ req[v].pc = "io" => req[v].op = "read"
        /\ req[v].pc \in {"sattr", "alloc"} => req[v].op = "lookup"
        /\ req[v].pc \in Removing => req[v].op # "remove"
    BY <1>1, <1>3 DEF At, RequestOK, Writing, ByHandle, HandleOps, Allocators, Removing
  <2>2. QED
    BY <1>1, <1>2, <2>1 DEF HandlerInv, HandleOps
<1>4. ASSUME req[v].op \in Writing, NEW n \in Names, n = req[v].name
      PROVE  HandlerInv(v)'
  <2>1. staged'[n] = staged[n] /\ cloud'[n] = cloud[n] /\ safe'[n] = safe[n]
    <3>1. CASE Unseen(w)
      BY <3>1 DEF Unseen
    <3>2. CASE Changes(w)
      <4>1. req[w].op \in Writing /\ req[w].name \in Names /\ Elsewhere(req[w].name)
        BY <3>2, ChangeEffect
      <4>2. QED
        BY <1>4, <4>1, OneChanges DEF Elsewhere
    <3>3. QED
      BY <3>1, <3>2, WorkerKinds
  <2>2. ~(At(w, "drop_inode") /\ req[w].op = "remove" /\ req[w].name = n)
    BY <1>4, OneChanges DEF Writing
  <2>3. StagedKnown(n) => StagedKnown(n)'
    BY <2>2, KnownKept
  <2>4. \A i \in Inos : /\ inodes[i] # None /\ inodes[i].name = n => inodes'[i] # None
                        /\ i < next_ino /\ inodes[i] = None => inodes'[i] = None
    BY <1>1, <2>2 DEF EntriesKept
  <2>5. req[v].pc \in {"path", "copy_up", "set_staged"} => req[v].ino \in Inos
    BY <1>1 DEF RequestOK, ByHandle
  <2>6. /\ req[v].pc = "copy_up" \/ (req[v].pc = "set_staged" /\ req[v].op # "lookup") =>
             inodes'[req[v].ino] # None
        /\ req[v].pc = "copy_up"
             \/ (req[v].pc = "path" /\ req[v].op # "read" /\ inodes'[req[v].ino] # None) =>
             Overwritable(n)'
    BY <1>1, <1>4, <2>1, <2>4, <2>5 DEF HandlerInv, Overwritable
  <2>7. req[v].pc = "io" /\ req[v].op # "read" =>
          \E i \in Inos : /\ inodes'[i] # None /\ inodes'[i].name = n
                          /\ inodes'[i].staged # None
    BY <1>4, <2>3 DEF HandlerInv, StagedKnown
  <2>8. QED
    BY <1>1, <1>2, <1>4, <2>1, <2>6, <2>7 DEF HandlerInv, StagedKnown, Overwritable
<1>5. ASSUME req[v].op \in Writing, req[v].name \notin Names
      PROVE  HandlerInv(v)'
  <2>1. req[v].pc \in {"handle", "path", "reply", "idle"}
    <3>1. req[v].pc \in Pcs
      BY DEF ServerInv, NfsTypeOK, Request
    <3>2. QED
      BY <1>1, <1>5, <3>1 DEF Pcs, RequestOK, NameOps, ByName, Allocators, Writing
  <2>2. req[v].pc = "path" => req[v].ino \in Inos /\ inodes[req[v].ino] = None
    <3>1. \A d \in InodeData : d.name \in Names
      BY DEF InodeData
    <3>2. QED
      BY <1>1, <1>5, <3>1 DEF RequestOK, HandlerInv, ByHandle
  <2>3. req[v].pc = "path" => inodes'[req[v].ino] = None
    BY <1>1, <2>2 DEF EntriesKept
  <2>4. QED
    BY <1>1, <2>1, <2>3 DEF HandlerInv, Removing
<1>6. QED
  BY <1>3, <1>4, <1>5

-----------------------------------------------------------------------------
(* What a read owes is where it looks, and in what it answers.             *)
LEMMA ReadOwn ==
  ASSUME ServerInv, NoEvictionsOrRenames, OnePerFile', TableInv, StagedInv, SafeInv,
         \A v \in Workers : HandlerInv(v),
         NEW w \in Workers, ReadInv(w), Arrive(w) \/ WorkerStep(w)
  PROVE  ReadInv(w)'
<1>1. /\ req \in [Workers -> Request] /\ RequestOK(w, req[w])
      /\ next_ino \in 2..(MaxIno + 1) /\ next_ino \in Nat
      /\ inodes \in [Inos -> {None} \cup InodeData]
      /\ staged \in [Names -> File] /\ cloud \in [Names -> File]
      /\ due \in [Workers -> SUBSET Writes] /\ safe \in [Names -> SUBSET Writes]
      /\ HandlerInv(w)
  BY DEF ServerInv, NfsTypeOK, TypeOK
<1> USE <1>1
<1>2. CASE UseHandle(w)
  <2>1. /\ req[w].ino \in Inos /\ req[w].op \in HandleOps /\ At(w, "handle")
        /\ UNCHANGED <<cloud, safe>>
    BY <1>2 DEF UseHandle, At, RequestOK, ByHandle, disk
  <2>2. PICK i \in Inos : i = req[w].ino
    BY <2>1
  <2>3. due[w] = {}
    BY <2>1 DEF ReadInv, At
  <2>4. CASE inodes[i] = None \/ req[w].op # "read"
    <3>1. due'[w] = {}
      BY <1>2, <2>1, <2>2, <2>3, <2>4, UseHandleEffect
    <3>2. QED
      BY <3>1 DEF ReadInv
  <2>5. CASE inodes[i] # None /\ req[w].op = "read"
    <3>1. PICK n \in Names : n = inodes[i].name
      BY <2>5 DEF InodeData
    <3>2. due'[w] = safe[n] /\ SameTask(w)
      BY <1>2, <2>1, <2>2, <2>5, <3>1, UseHandleEffect
    <3>3. \/ req'[w].pc = "io" /\ req'[w].name = n /\ req'[w].up
          \/ /\ req'[w].pc = "path" /\ req'[w].name = n /\ inodes[i].staged = None
      BY <1>2, <2>1, <2>2, <2>5, <3>1, UseHandleEffect DEF TableInv
    <3>4. inodes[i].staged = None => Holds(cloud[n], safe[n])
      BY <1>2, <2>2, <2>5, <3>1, NotStagedWhole
    <3>5. QED
      BY <2>1, <2>5, <3>1, <3>2, <3>3, <3>4 DEF ReadInv, SameTask
  <2>6. QED
    BY <2>4, <2>5
<1>3. CASE UsePath(w)
  <2>1. /\ req[w].ino \in Inos /\ At(w, "path") /\ UNCHANGED <<cloud, safe, due>>
    BY <1>3 DEF UsePath, At, RequestOK, ByHandle, disk, hist
  <2>2. /\ SameTask(w) /\ SameView(w)
        /\ \/ req'[w].pc = "reply" /\ req'[w].status = "stale"
           \/ /\ inodes[req[w].ino] # None
              /\ req'[w].name = inodes[req[w].ino].name
              /\ req'[w].pc = IF inodes[req[w].ino].stub THEN "hydrate"
                              ELSE IF req[w].op = "read" THEN "io" ELSE "copy_up"
    BY <1>3, <2>1, UsePathEffect
  <2>3. inodes[req[w].ino] # None =>
          ~inodes[req[w].ino].stub /\ inodes[req[w].ino].name = req[w].name
    BY <2>1 DEF TableInv, HandlerInv, At
  <2>4. QED
    BY <2>1, <2>2, <2>3 DEF ReadInv, SameTask, SameView, At
<1>4. CASE ReadIo(w)
  <2>1. PICK n \in Names : n = req[w].name
    BY <1>4 DEF ReadIo, At, RequestOK
  <2>2. At(w, "io") /\ UNCHANGED <<safe, due>>
    BY <1>4 DEF ReadIo, hist
  <2>3. /\ SameTask(w) /\ req'[w].pc = "reply"
        /\ req'[w].status = "io" \/ (req'[w].bytes = OpenPath(req[w])
                                     /\ req'[w].bytes # None)
    BY <1>4, <2>1, ReadIoEffect
  <2>4. ASSUME due[w] # {}, req'[w].bytes = OpenPath(req[w]), req'[w].bytes # None
        PROVE  Holds(req'[w].bytes, due[w])
    <3>1. due[w] \subseteq safe[n] /\ (~req[w].up => Holds(cloud[n], due[w]))
      BY <2>1, <2>2, <2>4 DEF ReadInv, At
    <3>2. CASE req[w].up
      <4>1. req'[w].bytes = staged[n] /\ staged[n] # None
        BY <2>1, <2>4, <3>2 DEF OpenPath
      <4>2. Holds(staged[n], safe[n])
        BY <4>1 DEF SafeInv, Visible
      <4>3. QED
        BY <3>1, <4>1, <4>2 DEF Holds
    <3>3. CASE ~req[w].up
      BY <2>1, <2>4, <3>1, <3>3 DEF OpenPath
    <3>4. QED
      BY <3>2, <3>3
  <2>5. QED
    BY <2>2, <2>3, <2>4 DEF ReadInv, SameTask
<1>5. CASE Changes(w)
  <2>1. req[w].op # "read"
    BY <1>5, ChangeEffect DEF Writing
  <2>2. due[w] = {}
    BY <2>1 DEF ReadInv
  <2>3. due'[w] = {}
    BY <1>5, <2>2, ChangeEffect DEF ChangeOf, Dropped
  <2>4. QED
    BY <2>3 DEF ReadInv
<1>6. CASE Respond(w)
  BY <1>6 DEF Respond, ReadInv
<1>7. CASE UNCHANGED due /\ req[w].pc \notin {"path", "io", "reply"}
  BY <1>7 DEF ReadInv
<1>8. CASE CallFails(w)
  <2>1. /\ UNCHANGED due /\ req'[w].pc = "reply" /\ req'[w].op = req[w].op
        /\ req'[w].status = "ok" => req[w].op = "write"
    BY <1>8, CallFailsEffect DEF hist, SameTask
  <2>2. QED
    BY <2>1 DEF ReadInv
<1>9. QED
  BY <1>2, <1>3, <1>4, <1>5, <1>6, <1>7, <1>8, NoRenames
     DEF WorkerStep, HandlerStep,
         Arrive, Resolve, ResolveStub, CheckStaged, Stat, Alloc,
         SetStagedPath, FindInode, RemoveInode, Changes, hist, At

(* No step of another handler takes away what a read is owed, except one   *)
(* that replaces or removes the file, and then nothing is owed.            *)
LEMMA ReadOthers ==
  ASSUME ServerInv, NoEvictionsOrRenames, NEW w \in Workers, HandlerInv(w),
         Arrive(w) \/ WorkerStep(w), NEW v \in Workers \ {w}, ReadInv(v)
  PROVE  ReadInv(v)'
<1>1. req'[v] = req[v]
  BY WorkerProgress DEF Progress, Keeps
<1>2. CASE Unseen(w)
  BY <1>1, <1>2 DEF Unseen, ReadInv
<1>3. CASE Changes(w)
  <2>1. PICK n \in Names : n = req[w].name /\ ChangeOf(w, n) /\ Elsewhere(n)
    BY <1>3, ChangeEffect
  <2>2. due'[v] = {} \/ due'[v] = due[v]
    BY <2>1 DEF ChangeOf, Dropped
  <2>3. SUFFICES ASSUME due'[v] # {}, due'[v] = due[v]
                 PROVE  ReadInv(v)'
    BY <2>2 DEF ReadInv
  <2>4. CASE req[v].pc \in {"path", "io"}
    <3>1. PICK m \in Names : m = req[v].name
      BY <2>3, <2>4 DEF ReadInv
    <3>2. due[v] \subseteq safe[m] /\ (~req[v].up => Holds(cloud[m], due[v]))
      BY <2>3, <2>4, <3>1 DEF ReadInv
    <3>3. safe[m] \subseteq safe'[m] /\ cloud'[m] = cloud[m]
      <4>1. CASE m # n
        BY <2>1, <4>1 DEF Elsewhere
      <4>2. CASE m = n
        <5>1. ~Dropped(n)
          BY <2>3, <3>1, <4>2 DEF Dropped
        <5>2. At(w, "remove_cloud") => safe[n] = {}
          BY <2>1 DEF HandlerInv, Removing, At, ServerInv, RequestOK
        <5>3. ~At(w, "remove_cloud")
          BY <2>3, <3>2, <4>2, <5>2
        <5>4. QED
          BY <2>1, <4>2, <5>1, <5>3 DEF ChangeOf
      <4>3. QED
        BY <4>1, <4>2
    <3>4. QED
      BY <1>1, <2>3, <2>4, <3>1, <3>2, <3>3 DEF ReadInv
  <2>5. CASE req[v].pc \notin {"path", "io"}
    BY <1>1, <2>3, <2>5 DEF ReadInv
  <2>6. QED
    BY <2>4, <2>5
<1>4. QED
  BY <1>2, <1>3, WorkerKinds

-----------------------------------------------------------------------------
(* The promoter.                                                           *)
LEMMA PromoterKeepsWrites ==
  ASSUME ServerInv, WriterInv, PromoterStep, ~(EndWalk /\ prom.boot), UNCHANGED nfs
  PROVE  WriterInv'
<1>1. /\ staged \in [Names -> File] /\ cloud \in [Names -> File]
      /\ tmp \in [Names -> File] /\ prom \in Promoter
      /\ (Promoting => prom.name \in Names) /\ TypeOK
  BY DEF ServerInv, NfsTypeOK, TypeOK
<1>2. UNCHANGED <<stub, inodes, next_ino, req, safe, due>>
  BY DEF nfs
<1>3. SafeInv'
  <2>1. CASE Copy
    <3>1. PICK p \in Names : p = prom.name
      BY <1>1, <2>1 DEF Copy, Promoting
    <3>2. /\ staged[p] # None /\ UNCHANGED <<staged, cloud>>
          /\ prom'.pc = "publish" /\ prom'.name = p /\ tmp'[p] = staged[p]
      BY <1>1, <2>1, <3>1 DEF Copy, Copied, Promoter
    <3>3. QED
      BY <1>2, <3>1, <3>2 DEF WriterInv, SafeInv, Visible
  <2>2. CASE Publish
    <3>1. PICK p \in Names : p = prom.name
      BY <1>1, <2>2 DEF Publish, Promoting
    <3>2. /\ prom.pc = "publish" /\ prom'.pc = "unlink" /\ prom'.name = p
          /\ cloud'[p] = tmp[p] /\ UNCHANGED staged
          /\ \A n \in Names \ {p} : cloud'[n] = cloud[n]
      BY <1>1, <2>2, <3>1 DEF Publish, Promoter
    <3>3. Holds(cloud'[p], safe[p])
      BY <3>1, <3>2 DEF WriterInv, SafeInv
    <3>4. ASSUME NEW n \in Names
          PROVE  Holds(Visible(n)', safe[n])
      <4>1. Holds(Visible(n), safe[n])
        BY DEF WriterInv, SafeInv
      <4>2. QED
        BY <3>2, <3>3, <4>1 DEF Visible
    <3>5. QED
      BY <1>2, <3>2, <3>3, <3>4 DEF SafeInv
  <2>3. CASE Unlink
    <3>1. PICK p \in Names : p = prom.name
      BY <1>1, <2>3 DEF Unlink, Promoting
    <3>2. /\ prom.pc = "unlink" /\ prom'.pc = "walk"
          /\ staged'[p] = None /\ UNCHANGED cloud
          /\ \A n \in Names \ {p} : staged'[n] = staged[n]
      BY <1>1, <2>3, <3>1 DEF Unlink, NextEntry, Promoter
    <3>3. ASSUME NEW n \in Names
          PROVE  Holds(Visible(n)', safe[n])
      <4>1. Holds(Visible(n), safe[n]) /\ (n = p => Holds(cloud[n], safe[n]))
        BY <3>1, <3>2 DEF WriterInv, SafeInv
      <4>2. QED
        BY <3>2, <4>1 DEF Visible
    <3>4. QED
      BY <1>2, <3>2, <3>3 DEF SafeInv
  <2>4. CASE UNCHANGED <<staged, cloud>> /\ prom'.pc \notin {"publish", "unlink"}
    BY <1>2, <2>4 DEF WriterInv, SafeInv, Visible
  <2>5. QED
    BY <1>1, <2>1, <2>2, <2>3, <2>4
       DEF PromoterStep, StartWalk, EndWalk, SkipFresh, SkipVanished, Select, Taken,
           CopyMissing, CopyFails, PromotionFails, OnError, NextEntry, Promoter
<1>4. ASSUME NEW n \in Names
      PROVE  /\ staged'[n] \in {staged[n], None}
             /\ cloud'[n] = cloud[n] \/ Holds(cloud'[n], safe[n])
  <2>1. CASE Publish /\ n = prom.name
    BY <1>1, <2>1 DEF Publish, WriterInv, SafeInv
  <2>2. CASE Unlink /\ n = prom.name
    BY <1>1, <2>2 DEF Unlink
  <2>3. QED
    BY <1>1, <2>1, <2>2, PromoterChanges
<1>5. TableInv'
  BY <1>2 DEF WriterInv, TableInv
<1>6. StagedInv'
  <2>. Serving' => Serving
    <3>1. CASE EndWalk
      BY <3>1 DEF Serving
    <3>2. CASE ~EndWalk
      BY <1>1, <3>2 DEF PromoterStep, StartWalk, SkipFresh, SkipVanished, Select,
           Taken, Copy, CopyMissing, CopyFails, OnError, NextEntry, Publish, Unlink,
           PromotionFails, Promoter, Serving
    <3>3. QED
      BY <3>1, <3>2
  <2>1. SUFFICES ASSUME Serving, NEW n \in Names, ~Overwritable(n)'
                 PROVE  StagedKnown(n)' \/ \E w \in Workers : Staging(w, n)'
    BY DEF StagedInv, Serving
  <2>2. ~Overwritable(n)
    BY <1>2, <1>4, <2>1 DEF Overwritable
  <2>3. QED
    BY <1>2, <2>1, <2>2 DEF WriterInv, StagedInv, StagedKnown, Staging, At
<1>7. ASSUME NEW w \in Workers
      PROVE  HandlerInv(w)' /\ ReadInv(w)'
  <2>1. RequestOK(w, req[w]) /\ HandlerInv(w) /\ ReadInv(w)
    BY DEF ServerInv, WriterInv
  <2>2. req[w].op = "remove" /\ req[w].pc \in Removing => req[w].name \in Names
    BY <2>1 DEF RequestOK, Removing, NameOps
  <2>3. HandlerInv(w)'
    <3>1. /\ req[w].pc = "copy_up" => Overwritable(req[w].name)'
          /\ req[w].pc = "path" /\ req[w].op # "read" /\ inodes[req[w].ino] # None =>
               Overwritable(req[w].name)'
      <4>1. req[w].pc = "copy_up" => req[w].name \in Names
        BY <2>1 DEF RequestOK
      <4>2. req[w].pc = "path" /\ inodes[req[w].ino] # None => req[w].name \in Names
        <5>1. \A d \in InodeData : d.name \in Names
          BY DEF InodeData
        <5>2. inodes \in [Inos -> {None} \cup InodeData]
          BY DEF ServerInv, NfsTypeOK
        <5>3. QED
          BY <2>1, <5>1, <5>2 DEF RequestOK, HandlerInv, ByHandle
      <4>3. QED
        BY <1>2, <1>4, <2>1, <4>1, <4>2 DEF HandlerInv, Overwritable
    <3>2. req[w].pc = "set_staged" /\ req[w].op \in HandleOps =>
            Holds(cloud'[req[w].name], safe[req[w].name])
      BY <1>4, <2>1 DEF HandlerInv, RequestOK
    <3>3. req[w].op = "remove" /\ req[w].pc \in Removing =>
            staged'[req[w].name] = None
      BY <1>4, <2>1, <2>2 DEF HandlerInv
    <3>4. QED
      BY <1>2, <2>1, <3>1, <3>2, <3>3 DEF HandlerInv, StagedKnown, Overwritable
  <2>4. ReadInv(w)'
    <3>1. \A n \in Names : due[w] \subseteq safe[n] /\ Holds(cloud[n], due[w]) =>
                           Holds(cloud'[n], due[w])
      BY <1>4 DEF Holds
    <3>2. QED
      BY <1>2, <2>1, <3>1 DEF ReadInv
  <2>5. QED
    BY <2>3, <2>4
<1>8. QED
  BY <1>3, <1>5, <1>6, <1>7 DEF WriterInv

(* The restart gives every file that is still staged an inode that says so.*)
LEMMA RestartKeepsWrites ==
  ASSUME ServerInv, WriterInv, NewServer
  PROVE  WriterInv'
<1> DEFINE left == {n \in Names : staged[n] # None}
           c == Cardinality(left)
<1>1. left \in SUBSET Names /\ c \in Nat /\ c < MaxIno
  BY FS_Subset, FS_CardinalityType, ServerAssumption
<1>2. PICK f \in [left -> 2..(c + 1)] :
        /\ \A a, b \in left : f[a] = f[b] => a = b
        /\ inodes' = [i \in Inos |->
             IF \E n \in left : f[n] = i
             THEN LET n == CHOOSE m \in left : f[m] = i IN
                  [name |-> n, stub |-> FALSE, staged |-> n]
             ELSE None]
  BY DEF NewServer
<1>3. \A n \in left : n \in Names
  OBVIOUS
<1>4. /\ UNCHANGED <<stub, req, safe, due, staged, cloud>>
      /\ prom'.pc = "sleep"
      /\ prom \in Promoter
  BY DEF NewServer, EndWalk, hist, ServerInv, NfsTypeOK, TypeOK, Promoter
<1>5. \A w \in Workers : req[w].pc = "idle" /\ req[w] = Idle
  BY DEF NewServer, ServerInv, Serving, At, RequestOK
<1> HIDE DEF c, left
<1>6. ASSUME NEW i \in Inos, inodes'[i] # None
      PROVE  \E n \in left : /\ f[n] = i /\ inodes'[i].name = n
                             /\ inodes'[i].staged = n /\ ~inodes'[i].stub
  <2>1. \E n \in left : f[n] = i
    BY <1>2, <1>6
  <2> DEFINE n == CHOOSE m \in left : f[m] = i
  <2>2. n \in left /\ f[n] = i
    BY <2>1
  <2>3. inodes'[i] = [name |-> n, stub |-> FALSE, staged |-> n]
    BY <1>2, <2>1
  <2> HIDE DEF n
  <2>4. QED
    BY <2>2, <2>3
<1>7. ASSUME NEW n \in left
      PROVE  StagedKnown(n)'
  <2>1. PICK i \in Inos : i = f[n]
    BY <1>1, <1>2, ServerAssumption DEF Inos
  <2>2. inodes'[i] # None
    <3> DEFINE k == CHOOSE m \in left : f[m] = i
    <3>1. k \in left
      BY <2>1
    <3>2. inodes'[i] = [name |-> k, stub |-> FALSE, staged |-> k]
      BY <1>2, <2>1
    <3> HIDE DEF k
    <3>3. inodes'[i] \in InodeData
      BY <1>3, <3>1, <3>2 DEF InodeData
    <3>4. QED
      BY <3>3, ServerAssumption
  <2>3. inodes'[i].name = n /\ inodes'[i].staged = n
    BY <1>2, <1>6, <2>1, <2>2
  <2>4. QED
    BY <1>3, <2>2, <2>3, LayerAssumption DEF StagedKnown
<1>8. TableInv'
  BY <1>6 DEF TableInv
<1>9. StagedInv'
  BY <1>4, <1>7 DEF StagedInv, Overwritable, left
<1>10. SafeInv'
  BY <1>4 DEF SafeInv, WriterInv, Visible
<1>11. \A w \in Workers : HandlerInv(w)' /\ ReadInv(w)'
  BY <1>4, <1>5 DEF WriterInv, HandlerInv, ReadInv, Removing, Idle
<1>12. QED
  BY <1>8, <1>9, <1>10, <1>11 DEF WriterInv

(* A crash leaves the layers as they are, but for the target of a copy-up. *)
LEMMA CrashKeepsWrites ==
  ASSUME ServerInv, WriterInv, ServerCrash
  PROVE  WriterInv'
<1>1. /\ req' = [w \in Workers |-> Idle] /\ due' = [w \in Workers |-> {}]
      /\ inodes' = [i \in Inos |-> None] /\ prom' = Starting /\ cloud' = cloud
  BY DEF ServerCrash, Crash
<1>2. Idle.pc = "idle" /\ Idle.found = "none"
  BY DEF Idle
<1>3. \A w \in Workers : HandlerInv(w)' /\ ReadInv(w)'
  BY <1>1, <1>2 DEF HandlerInv, ReadInv, Removing
<1>4. TableInv' /\ StagedInv'
  BY <1>1 DEF TableInv, StagedInv, Serving, Starting
<1>5. \A n \in Names : safe'[n] = {} \/ (safe'[n] = safe[n] /\ staged'[n] = staged[n])
  BY DEF ServerCrash
<1>6. SafeInv'
  BY <1>1, <1>5 DEF SafeInv, Starting, Visible, Holds, WriterInv
<1>7. QED
  BY <1>3, <1>4, <1>6 DEF WriterInv

(* WriterInv is inductive.                                                 *)
LEMMA WriterInvInit == NfsInit => WriterInv
<1> SUFFICES ASSUME NfsInit PROVE WriterInv
  OBVIOUS
<1>1. /\ inodes = [i \in Inos |-> None]
      /\ due = [w \in Workers |-> {}] /\ req = [w \in Workers |-> Idle]
      /\ prom = Starting
  BY DEF NfsInit, Init
<1>2. Idle.pc = "idle" /\ Idle.found = "none" /\ prom.boot /\ prom.pc = "sleep"
  BY <1>1 DEF Idle, Starting
<1>3. Payloads \notin {None, Torn}
  BY LayerAssumption DEF Payloads
<1>4. ASSUME NEW n \in Names
      PROVE  Holds(Visible(n), safe[n])
  <2>1. \/ staged[n] = None /\ safe[n] = {}
        \/ staged[n] = Payloads /\ safe[n] = Payloads
    BY <1>3 DEF NfsInit
  <2>2. QED
    BY <1>3, <2>1 DEF Holds, Visible
<1>5. SafeInv /\ TableInv /\ StagedInv
  BY <1>1, <1>2, <1>4 DEF SafeInv, TableInv, StagedInv, Serving
<1>6. \A w \in Workers : HandlerInv(w) /\ ReadInv(w)
  BY <1>1, <1>2 DEF HandlerInv, ReadInv, Removing
<1>7. QED
  BY <1>5, <1>6 DEF WriterInv

LEMMA WriterInvStep ==
  ASSUME ServerInv, WriterInv, NoEvictionsOrRenames, OnePerFile, OnePerFile',
         [NfsNext]_vars
  PROVE  WriterInv'
<1>1. ASSUME NEW w \in Workers, Arrive(w) \/ WorkerStep(w)
      PROVE  WriterInv'
  <2>1. SafeInv' /\ TableInv' /\ StagedInv'
    BY <1>1, SafeWorker, EntriesStep, StagedWorker DEF WriterInv
  <2>2. HandlerInv(w)' /\ ReadInv(w)'
    BY <1>1, HandlerOwn, ReadOwn DEF WriterInv
  <2>3. ASSUME NEW v \in Workers \ {w}
        PROVE  HandlerInv(v)' /\ ReadInv(v)'
    BY <1>1, HandlerOthers, ReadOthers DEF WriterInv
  <2>4. \A v \in Workers : HandlerInv(v)' /\ ReadInv(v)'
    BY <2>2, <2>3
  <2>5. QED
    BY <2>1, <2>4 DEF WriterInv
<1>2. ASSUME NEW n \in Names, Evict(n) \/ Download(n)
      PROVE  WriterInv'
  BY <1>2 DEF Evict, Download, NoEvictionsOrRenames, ServerInv
<1>3. CASE UNCHANGED <<staged, cloud, tmp, prom, nfs>>
  BY <1>3 DEF nfs, WriterInv, SafeInv, Visible, TableInv, StagedInv, Serving,
       StagedKnown, Overwritable, Staging, HandlerInv, ReadInv, At
<1>4. CASE Background
  BY <1>4, PromoterKeepsWrites, RestartKeepsWrites DEF Background
<1>5. CASE ServerCrash
  BY <1>5, CrashKeepsWrites
<1>6. QED
  BY <1>1, <1>2, <1>3, <1>4, <1>5 DEF NfsNext, TimePasses, Age, vars, disk

LEMMA SerialStep == [SerialNext]_vars => [NfsNext]_vars
BY DEF SerialNext, NfsNext, WorkerStep

(* The serialised server is the server, at one change per file at a time.  *)
LEMMA SerialInvariant == SerialSpec => []ServerInv /\ []OnePerFile
<1>1. NfsInit => OnePerFile
  BY DEF NfsInit, OnePerFile, Idle
<1>2. ServerInv /\ OnePerFile /\ [SerialNext]_vars => OnePerFile'
  <2>1. ASSUME OnePerFile, UNCHANGED req
        PROVE  OnePerFile'
    BY <2>1 DEF OnePerFile
  <2>2. ASSUME NEW n \in Names, Evict(n) \/ Download(n) \/ TimePasses(n)
        PROVE  UNCHANGED req
    BY <2>2 DEF Evict, Download, TimePasses, nfs
  <2>3. Background => UNCHANGED req
    BY DEF Background, NewServer, nfs
  <2>4. ServerCrash => OnePerFile'
    BY DEF ServerCrash, OnePerFile, Idle
  <2>5. ASSUME ServerInv, OnePerFile, NEW w \in Workers, CallFails(w)
        PROVE  OnePerFile'
    BY <2>5, CallFailsEffect
       DEF OnePerFile, ServerInv, NfsTypeOK, Keeps, SameTask, SameFile
  <2>6. QED
    BY <2>1, <2>2, <2>3, <2>4, <2>5 DEF SerialNext, vars, nfs
<1>3. [SerialNext]_vars => [NfsNext]_vars
  BY SerialStep
<1>4. QED
  BY <1>1, <1>2, <1>3, ServerInvInit, ServerInvStep, PTL DEF SerialSpec

(* One client process that changes files is serialised already: it waits   *)
(* for each answer.                                                        *)
THEOREM OneWriterIsSerial ==
  ASSUME OneWriterOnly PROVE NfsSpec => SerialSpec
<1>1. ServerInv => OnePerFile
  <2>1. SUFFICES ASSUME ServerInv, NEW v \in Workers, NEW w \in Workers, v # w,
                        req[v].op \in Writing, req[w].op \in Writing
                 PROVE  req[v].name = None \/ req[v].name # req[w].name
    BY DEF OnePerFile
  <2>2. /\ RequestOK(v, req[v]) /\ RequestOK(w, req[w])
        /\ ~(Ops[v] \cap Writing # {} /\ Ops[w] \cap Writing # {})
    BY <2>1 DEF ServerInv, OneWriterOnly
  <2>3. req[v] = Idle \/ req[w] = Idle
    BY <2>1, <2>2 DEF RequestOK
  <2>4. QED
    BY <2>1, <2>2, <2>3 DEF Idle
<1>2. OnePerFile' /\ [NfsNext]_vars => [SerialNext]_vars
  BY DEF SerialNext, NfsNext, WorkerStep
<1>3. QED
  BY <1>1, <1>2, ServerInvariant, PTL DEF NfsSpec, SerialSpec

(* With one change per file at a time, the safe writes are in every layer  *)
(* where a client may look for them, whatever the handlers, the promoter   *)
(* and crashes do.                                                         *)
THEOREM WriterInvariant ==
  ASSUME NoEvictionsOrRenames PROVE SerialSpec => []WriterInv
<1>1. NfsInit => WriterInv
  BY WriterInvInit
<1>2. ServerInv /\ WriterInv /\ OnePerFile /\ OnePerFile' /\ [NfsNext]_vars
        => WriterInv'
  BY WriterInvStep
<1>3. [SerialNext]_vars => [NfsNext]_vars
  BY SerialStep
<1>4. QED
  BY <1>1, <1>2, <1>3, SerialInvariant, PTL DEF SerialSpec

(* No acknowledged write is lost: every file that clients have written and *)
(* nobody has replaced or removed since is found whole under its name.     *)
THEOREM WritesKept ==
  ASSUME NoEvictionsOrRenames PROVE SerialSpec => []SafeWritesKept
<1>1. WriterInv => SafeWritesKept
  BY DEF WriterInv, SafeInv, Holds, SafeWritesKept, Stored
<1>2. QED
  BY <1>1, WriterInvariant, PTL

(* A read returns every write acknowledged before it began, in whichever   *)
(* layer it looks and however far the promoter has got meanwhile.          *)
THEOREM ReadsReturnWrites ==
  ASSUME NoEvictionsOrRenames PROVE SerialSpec => []ReadsFresh
<1>1. WriterInv => ReadsFresh
  BY DEF WriterInv, ReadInv, Holds, ReadsFresh, At
<1>2. QED
  BY <1>1, WriterInvariant, PTL

-----------------------------------------------------------------------------
(* create_exclusive.  Without removals a staged file that is being promoted*)
(* stays staged, so the promoter cannot fill a name found free.            *)
LEMMA NobodyRemoves ==
  ASSUME ServerInv, NoRemovals, NEW w \in Workers, ~At(w, "idle")
  PROVE  req[w].op # "remove"
BY DEF ServerInv, RequestOK, NoRemovals, At

LEMMA PromotedStays ==
  ASSUME ServerInv, NoEvictionsOrRenames, NoRemovals, PromotedStaged, NEW w \in Workers,
         HandlerInv(w), Arrive(w) \/ WorkerStep(w)
  PROVE  PromotedStaged'
<1>1. CASE Unseen(w)
  BY <1>1 DEF Unseen, PromotedStaged
<1>2. CASE Changes(w)
  <2>1. PICK n \in Names : n = req[w].name /\ Elsewhere(n) /\ ChangeOf(w, n)
    BY <1>2, ChangeEffect
  <2>2. /\ staged \in [Names -> File] /\ RequestOK(w, req[w])
        /\ req \in [Workers -> Request]
        /\ prom.pc \in {"publish", "unlink"} => prom.name \in Names
        /\ prom'.pc = prom.pc /\ prom'.name = prom.name
    BY <2>1 DEF Elsewhere, ServerInv, NfsTypeOK, TypeOK, Promoting
  <2>3. staged[n] # None => staged'[n] # None
    <3>. SUFFICES ASSUME staged[n] # None PROVE staged'[n] # None
      OBVIOUS
    <3>1. ~At(w, "remove_staged") /\ ~At(w, "remove_cloud")
      BY <2>2, NobodyRemoves DEF RequestOK, At
    <3>2. {} # None /\ Torn # None
      BY LayerAssumption
    <3>3. At(w, "io") /\ req[w].op = "write" => Written(staged[n], req[w].data) # None
      <4>1. At(w, "io") /\ req[w].op = "write" => req[w].data \in Writes
        BY <2>2 DEF At, RequestOK, NameOps, HandleOps, Payloads
      <4>2. At(w, "io") /\ req[w].op = "write" /\ staged[n] \notin {None, Torn} =>
              staged[n] \cup {req[w].data} \in SUBSET Writes
        BY <2>2, <4>1 DEF File
      <4>3. QED
        BY <2>1, <3>2, <4>2, LayerAssumption DEF Written
    <3>4. QED
      BY <2>1, <3>1, <3>2, <3>3 DEF ChangeOf
  <2>4. QED
    BY <2>1, <2>2, <2>3 DEF PromotedStaged, Elsewhere
<1>3. QED
  BY <1>1, <1>2, WorkerKinds

LEMMA FreeOwn ==
  ASSUME ServerInv, NoEvictionsOrRenames, NoRemovals, NEW w \in Workers, HandlerInv(w),
         NameFree(w), ~req[w].clobber, Arrive(w) \/ WorkerStep(w)
  PROVE  NameFree(w)' /\ ~req'[w].clobber
<1>1. /\ req \in [Workers -> Request] /\ RequestOK(w, req[w])
      /\ next_ino \in 2..(MaxIno + 1) /\ next_ino \in Nat
      /\ inodes \in [Inos -> {None} \cup InodeData]
      /\ staged \in [Names -> File] /\ cloud \in [Names -> File]
      /\ \A n \in Names : stub[n] = None
  BY DEF ServerInv, NfsTypeOK, TypeOK, NoEvictionsOrRenames
<1> USE <1>1
<1> DEFINE Later == req'[w].pc \notin {"resolve", "resolve_stub", "create"}
<1>2. Later => NameFree(w)'
  BY DEF NameFree
<1>3. CASE Arrive(w)
  <2>1. /\ ~req'[w].clobber /\ req'[w].pc = FirstPc[req'[w].op]
        /\ req'[w].op \in NameOps \cup HandleOps
    BY <1>3, ArriveEffect, ServerAssumption
  <2>2. req'[w].op = "exclusive" => Later
    BY <2>1 DEF FirstPc, NameOps, HandleOps
  <2>3. QED
    BY <2>1, <2>2 DEF NameFree
<1>4. CASE Resolve(w)
  <2>1. /\ req[w].op \in ByName /\ req[w].pc = "resolve" /\ UNCHANGED <<staged, cloud>>
    BY <1>4 DEF Resolve, At, RequestOK, disk
  <2>2. \/ Goto(w, "resolve_stub") /\ cloud[req[w].name] = None
        \/ Resolved(w, "real")
    BY <1>4 DEF Resolve
  <2>3. CASE Goto(w, "resolve_stub") /\ cloud[req[w].name] = None
    BY <2>1, <2>3, GotoEffect DEF Pcs, SameTask, SameFile, SameResult, NameFree
  <2>4. CASE Resolved(w, "real")
    <3>1. /\ SameTask(w) /\ SameResult(w) /\ req'[w].pc = IfFound[req[w].op]
      BY <2>1, <2>4, ResolvedEffect DEF Paths
    <3>2. QED
      BY <2>1, <3>1 DEF IfFound, SameTask, SameResult, NameFree, ByName
  <2>5. QED
    BY <2>2, <2>3, <2>4
<1>5. CASE ResolveStub(w)
  <2>1. /\ req[w].op \in ByName /\ req[w].pc = "resolve_stub"
        /\ UNCHANGED <<staged, cloud>>
    BY <1>5 DEF ResolveStub, At, RequestOK, disk
  <2>2. ASSUME NEW f \in {"stub", "none"}, Resolved(w, f)
        PROVE  NameFree(w)' /\ ~req'[w].clobber
    <3>1. /\ SameTask(w) /\ SameFile(w) /\ SameResult(w)
          /\ req'[w].pc = (IF f = "none" THEN IfMissing ELSE IfFound)[req[w].op]
      BY <2>1, <2>2, ResolvedEffect DEF Paths
    <3>2. req[w].op = "exclusive" => req'[w].pc \in {"create", "reply"}
      BY <3>1 DEF IfFound, IfMissing, ByName
    <3>3. QED
      BY <2>1, <3>1, <3>2 DEF SameTask, SameFile, SameResult, NameFree
  <2>3. QED
    BY <1>5, <2>2 DEF ResolveStub
<1>6. CASE CheckStaged(w)
  <2>1. req[w].op \in {"lookup", "exclusive"} /\ UNCHANGED staged
    BY <1>6 DEF CheckStaged, At, RequestOK, disk
  <2>2. QED
    BY <1>6, <2>1, CheckStagedEffect DEF SameTask, SameFile, SameResult, NameFree
<1>7. CASE Create(w)
  <2>1. req'[w].clobber = (req[w].op = "exclusive" /\ Stored(req[w].name) # None)
    BY <1>7, CreateEffect
  <2>2. req[w].op = "exclusive" => Stored(req[w].name) = None
    BY <1>7 DEF Create, At, RequestOK, NameOps, NameFree, Stored, Visible
  <2>3. req'[w].pc \in {"sattr", "alloc"}
    BY <1>7, CreateEffect
  <2>4. QED
    BY <1>2, <2>1, <2>2, <2>3
<1>8. CASE ReadIo(w)
  <2>1. req[w].name \in Names
    BY <1>8 DEF ReadIo, At, RequestOK
  <2>2. QED
    BY <1>2, <1>8, <2>1, ReadIoEffect
<1>9. CASE Respond(w)
  BY <1>9, IdleRequest, BecomeEffect DEF Respond, Idle, NameFree
<1>10. CASE /\ WorkerStep(w) /\ ~Resolve(w) /\ ~ResolveStub(w) /\ ~CheckStaged(w)
            /\ ~Create(w) /\ ~ReadIo(w) /\ ~Respond(w)
  <2>1. ~req'[w].clobber
    BY <1>10, ResultKept DEF SameResult
  <2>2. CASE Changes(w)
    <3>1. ~At(w, "remove_staged")
      BY NobodyRemoves DEF RequestOK, At
    <3>2. QED
      BY <1>2, <2>1, <2>2, <3>1, ChangeEffect DEF ChangeOf
  <2>3. CASE Stat(w) \/ RemoveInode(w)
    BY <1>2, <2>1, <2>3, GotoEffect, ReplyEffect DEF Stat, RemoveInode, Pcs, Statuses
  <2>4. CASE Alloc(w)
    BY <1>2, <2>1, <2>4, AllocEffect
  <2>5. CASE SetStagedPath(w)
    BY <1>2, <2>1, <2>5, SetStagedEffect
  <2>6. CASE UseHandle(w) \/ UsePath(w)
    <3>1. req[w].ino \in Inos
      BY <2>6 DEF UseHandle, UsePath, At, RequestOK, ByHandle
    <3>2. QED
      BY <1>2, <2>1, <2>6, <3>1, UseHandleEffect, UsePathEffect
  <2>7. CASE FindInode(w) \/ CallFails(w)
    BY <1>2, <2>1, <2>7, FindInodeEffect, CallFailsEffect
  <2>8. QED
    BY <1>10, <2>2, <2>3, <2>4, <2>5, <2>6, <2>7, NoRenames
       DEF WorkerStep, HandlerStep, Changes
<1>11. QED
  BY <1>3, <1>4, <1>5, <1>6, <1>7, <1>8, <1>9, <1>10

LEMMA FreeOthers ==
  ASSUME ServerInv, NoEvictionsOrRenames, OnePerFile, NEW w \in Workers, HandlerInv(w),
         Arrive(w) \/ WorkerStep(w), NEW v \in Workers \ {w}, NameFree(v)
  PROVE  NameFree(v)'
<1>1. req'[v] = req[v] /\ RequestOK(v, req[v])
  BY WorkerProgress DEF Progress, Keeps, ServerInv
<1>2. CASE Unseen(w)
  BY <1>1, <1>2 DEF Unseen, NameFree
<1>3. CASE Changes(w)
  <2>1. SUFFICES ASSUME req[v].op = "exclusive",
                        req[v].pc \in {"resolve", "resolve_stub", "create"}
                 PROVE  NameFree(v)'
    BY <1>1 DEF NameFree
  <2>2. PICK n \in Names : n = req[v].name
    BY <1>1, <2>1 DEF RequestOK, NameOps
  <2>3. req[w].op \in Writing /\ req[w].name \in Names /\ Elsewhere(req[w].name)
    BY <1>3, ChangeEffect
  <2>4. n # req[w].name
    BY <2>1, <2>2, <2>3, OneChanges DEF Writing
  <2>5. QED
    BY <1>1, <2>2, <2>3, <2>4 DEF Elsewhere, NameFree
<1>4. QED
  BY <1>2, <1>3, WorkerKinds

(* The promoter changes no name that a create_exclusive found free.        *)
LEMMA PromoterKeepsFree ==
  ASSUME ServerInv, ExclusiveInv, PromoterStep, UNCHANGED req
  PROVE  ExclusiveInv'
<1>1. /\ staged \in [Names -> File] /\ cloud \in [Names -> File]
      /\ prom \in Promoter /\ (Promoting => prom.name \in Names) /\ TypeOK
  BY DEF ServerInv, NfsTypeOK, TypeOK
<1>2. PromotedStaged'
  BY <1>1 DEF ExclusiveInv, PromotedStaged, PromoterStep, StartWalk, EndWalk,
       SkipFresh, SkipVanished, Select, Taken, Copy, CopyMissing, CopyFails,
       PromotionFails, OnError, NextEntry, Publish, Unlink, Promoting, Promoter
<1>3. ASSUME NEW w \in Workers
      PROVE  NameFree(w)'
  <2>1. SUFFICES ASSUME req[w].op = "exclusive",
                        req[w].pc \in {"resolve", "resolve_stub", "create"}
                 PROVE  NameFree(w)'
    BY DEF NameFree
  <2>2. PICK n \in Names : n = req[w].name
    BY <2>1 DEF ServerInv, RequestOK, NameOps
  <2>3. staged[n] = None
    BY <2>1, <2>2 DEF ExclusiveInv, NameFree
  <2>4. ~(Publish /\ n = prom.name)
    BY <2>3 DEF Publish, ExclusiveInv, PromotedStaged
  <2>5. staged'[n] = None /\ cloud'[n] = cloud[n]
    <3>1. CASE Unlink /\ n = prom.name
      BY <1>1, <3>1 DEF Unlink
    <3>2. QED
      BY <1>1, <2>3, <2>4, <3>1, PromoterChanges
  <2>6. QED
    BY <2>2, <2>5 DEF ExclusiveInv, NameFree
<1>4. QED
  BY <1>2, <1>3 DEF ExclusiveInv, ExclusiveCreatesNew

LEMMA ExclusiveStep ==
  ASSUME ServerInv, WriterInv, ExclusiveInv, NoEvictionsOrRenames, NoRemovals,
         OnePerFile, [NfsNext]_vars
  PROVE  ExclusiveInv'
<1>1. ASSUME NEW w \in Workers, Arrive(w) \/ WorkerStep(w)
      PROVE  ExclusiveInv'
  <2>1. HandlerInv(w) /\ NameFree(w) /\ ~req[w].clobber
    BY DEF WriterInv, ExclusiveInv, ExclusiveCreatesNew
  <2>2. PromotedStaged' /\ NameFree(w)' /\ ~req'[w].clobber
    BY <1>1, <2>1, PromotedStays, FreeOwn DEF ExclusiveInv
  <2>3. ASSUME NEW v \in Workers \ {w}
        PROVE  NameFree(v)' /\ ~req'[v].clobber
    BY <1>1, <2>1, FreeOthers, WorkerProgress
       DEF ExclusiveInv, ExclusiveCreatesNew, Progress, Keeps
  <2>4. QED
    BY <2>2, <2>3 DEF ExclusiveInv, ExclusiveCreatesNew
<1>2. ASSUME NEW n \in Names, Evict(n) \/ Download(n)
      PROVE  ExclusiveInv'
  BY <1>2 DEF Evict, Download, NoEvictionsOrRenames, ServerInv
<1>3. CASE Background
  BY <1>3, PromoterKeepsFree DEF Background, NewServer, PromoterStep, nfs
<1>4. CASE ServerCrash
  <2>1. prom' = Starting /\ req' = [w \in Workers |-> Idle]
    BY <1>4 DEF ServerCrash, Crash
  <2>2. prom'.pc = "sleep" /\ Idle.pc = "idle" /\ ~Idle.clobber
    BY <2>1 DEF Starting, Idle
  <2>3. QED
    BY <2>1, <2>2 DEF ExclusiveInv, PromotedStaged, NameFree, ExclusiveCreatesNew
<1>5. CASE UNCHANGED <<staged, cloud, prom, req>>
  BY <1>5 DEF ExclusiveInv, PromotedStaged, NameFree, ExclusiveCreatesNew
<1>6. QED
  BY <1>1, <1>2, <1>3, <1>4, <1>5 DEF NfsNext, TimePasses, Age, vars, disk, nfs

(* Between the two checks of create_exclusive and its creation the name    *)
(* stays free: the promoter fills only names that are staged.              *)
THEOREM ExclusiveInvariant ==
  ASSUME NoEvictionsOrRenames, NoRemovals PROVE SerialSpec => []ExclusiveInv
<1>1. NfsInit => ExclusiveInv
  <2>1. Idle.pc = "idle" /\ ~Idle.clobber /\ Starting.pc = "sleep"
    BY DEF Idle, Starting
  <2>2. QED
    BY <2>1 DEF NfsInit, Init, ExclusiveInv, PromotedStaged, NameFree,
                ExclusiveCreatesNew
<1>2. ServerInv /\ WriterInv /\ ExclusiveInv /\ OnePerFile /\ [NfsNext]_vars
        => ExclusiveInv'
  BY ExclusiveStep
<1>3. [SerialNext]_vars => [NfsNext]_vars
  BY SerialStep
<1>4. QED
  BY <1>1, <1>2, <1>3, SerialInvariant, WriterInvariant, PTL DEF SerialSpec

(* With one change per file at a time and nobody that removes files,       *)
(* create_exclusive never empties a file that exists, although it looks at *)
(* the layers one after the other while the promoter moves files between   *)
(* them and the server crashes and restarts.                               *)
THEOREM ExclusiveNeverClobbers ==
  ASSUME NoEvictionsOrRenames, NoRemovals
  PROVE  SerialSpec => []ExclusiveCreatesNew
<1>1. ExclusiveInv => ExclusiveCreatesNew
  BY DEF ExclusiveInv
<1>2. QED
  BY <1>1, ExclusiveInvariant, PTL

=============================================================================
