--------------------------- MODULE FuseDriverProofs ---------------------------
(***************************************************************************)
(* The FUSE driver's inode table is right for any number of threads and    *)
(* files: DriverInv is inductive, and the properties follow from it.       *)
(***************************************************************************)
EXTENDS FuseDriver, TLAPS

(* The table and the kernel's counts stay in step when nobody touches them.*)
LEMMA CountsKept ==
  ASSUME RefsCounted, UNCHANGED <<inodes, refs, forgets>>
  PROVE  RefsCounted'
  BY DEF RefsCounted, LookupCount

(* The initial state has no inodes, no requests and no references.         *)
LEMMA InitInv == Init => DriverInv
<1> SUFFICES ASSUME Init PROVE DriverInv
  OBVIOUS
<1> USE DriverAssumption
<1>1. DriverTypeOK
  BY DEF Init, DriverTypeOK, Idle, Task
<1>2. TasksOK
  BY DEF Init, TasksOK, Idle
<1>3. FreshInos /\ RefsCounted /\ OpenFilesReal
  BY DEF Init, FreshInos, RefsCounted, OpenFilesReal, LookupCount
<1>4. QED
  BY <1>1, <1>2, <1>3 DEF DriverInv

(* A step of a request that changes neither tables nor counts: what        *)
(* remains to be shown is that its new record is a proper one.             *)
LEMMA TaskChanges ==
  ASSUME DriverInv, NEW t \in Threads, NEW r \in Task, Become(t, r),
         UNCHANGED <<disk, table, files, kernel>>,
         r.pc \in {"resolve", "resolve_stub", "stat", "entry", "hydrate", "open"} =>
           r.name \in Names,
         r.pc \in {"path", "hydrate", "open"} => r.ino \in Inos,
         r.pc = "open" => ~r.stub,
         r.ino # None => refs[r.ino] > 0
  PROVE  DriverInv'
<1>1. DriverTypeOK'
  BY DEF DriverInv, DriverTypeOK, Become, table, files, kernel
<1>2. TasksOK'
  BY DEF DriverInv, DriverTypeOK, TasksOK, Become, kernel
<1>3. FreshInos' /\ RefsCounted' /\ OpenFilesReal'
  BY CountsKept DEF DriverInv, FreshInos, OpenFilesReal, table, files, kernel
<1>4. QED
  BY <1>1, <1>2, <1>3 DEF DriverInv

(* Setting the count of an inode leaves its path alone.                    *)
LEMMA CountSet ==
  ASSUME NEW d \in InodeData, NEW c
  PROVE  [d EXCEPT !.lookup_count = c] =
           [name |-> d.name, stub |-> d.stub, lookup_count |-> c]
  BY DEF InodeData

(* Setting the kind of the path leaves the rest of an inode alone, and the  *)
(* rest of a request.                                                      *)
LEMMA StubSet ==
  ASSUME NEW d \in InodeData, NEW b \in BOOLEAN
  PROVE  /\ [d EXCEPT !.stub = b] =
              [name |-> d.name, stub |-> b, lookup_count |-> d.lookup_count]
         /\ [d EXCEPT !.stub = b] \in InodeData
         /\ [d EXCEPT !.stub = b].lookup_count = d.lookup_count
  BY DEF InodeData

LEMMA PathSet ==
  ASSUME NEW r \in Task, NEW p \in {"open"}, NEW b \in BOOLEAN
  PROVE  LET s == [r EXCEPT !.pc = p, !.stub = b] IN
         s \in Task /\ s.pc = p /\ s.name = r.name /\ s.stub = b /\ s.ino = r.ino
  BY DEF Task

(* lookup hands out an inode: one reference more on both sides.            *)
LEMMA EntryInv ==
  ASSUME DriverInv, NEW t \in Threads, Entry(t)
  PROVE  DriverInv'
<1> USE DEF DriverInv
<1>1. Idle \in Task /\ task' = [task EXCEPT ![t] = Idle]
  BY DriverAssumption DEF Entry, Answer, Become, Idle, Task
<1>2. UNCHANGED <<disk, handles, next_fh, forgets>>
  BY DEF Entry, files
<1>3. CASE \E i \in InodesAt(task[t].name, task[t].stub) : EntryKnown(t, i)
  <2>1. PICK i \in Inos : inodes[i] # None /\ EntryKnown(t, i)
    BY <1>3 DEF InodesAt
  <2>2. inodes[i] \in InodeData
    BY <2>1 DEF DriverTypeOK
  <2>3. /\ inodes' = [inodes EXCEPT ![i] =
             [name |-> inodes[i].name, stub |-> inodes[i].stub,
              lookup_count |-> inodes[i].lookup_count + 1]]
        /\ refs' = [refs EXCEPT ![i] = @ + 1]
        /\ next_ino' = next_ino
    <3>1. [inodes[i] EXCEPT !.lookup_count = inodes[i].lookup_count + 1] =
            [name |-> inodes[i].name, stub |-> inodes[i].stub,
             lookup_count |-> inodes[i].lookup_count + 1]
      BY <2>2, CountSet
    <3>2. inodes' = [inodes EXCEPT ![i] =
            [inodes[i] EXCEPT !.lookup_count = inodes[i].lookup_count + 1]]
      BY <2>1 DEF EntryKnown, Counted
    <3>3. QED
      BY <2>1, <3>1, <3>2 DEF EntryKnown, Referred
  <2>4. inodes'[i] \in InodeData /\ inodes'[i] # None
    BY <2>2, <2>3, DriverAssumption DEF DriverTypeOK, InodeData
  <2>5. DriverTypeOK'
    BY <1>1, <1>2, <2>3, <2>4 DEF DriverTypeOK
  <2>6. TasksOK'
    BY <1>1, <2>3 DEF TasksOK, DriverTypeOK, Idle, Task
  <2>7. FreshInos'
    BY <2>1, <2>3 DEF FreshInos, DriverTypeOK
  <2>8. RefsCounted'
    BY <1>2, <2>1, <2>2, <2>3, <2>4
    DEF RefsCounted, LookupCount, DriverTypeOK, InodeData
  <2>9. QED
    BY <1>2, <2>5, <2>6, <2>7, <2>8 DEF OpenFilesReal
<1>4. CASE EntryNew(t)
  <2>1. next_ino \in Inos /\ inodes[next_ino] = None
    BY <1>4 DEF EntryNew, FreshInos, DriverTypeOK, Inos
  <2>2. task[t].name \in Names /\ task[t].stub \in BOOLEAN
    BY DEF Entry, At, TasksOK, DriverTypeOK, Task
  <2>3. /\ inodes' = [inodes EXCEPT ![next_ino] =
             [name |-> task[t].name, stub |-> task[t].stub, lookup_count |-> 1]]
        /\ refs' = [refs EXCEPT ![next_ino] = @ + 1]
        /\ next_ino' = next_ino + 1
    BY <1>4 DEF EntryNew, NextIno, Referred
  <2>4. inodes'[next_ino] \in InodeData /\ inodes'[next_ino] # None
    BY <2>1, <2>2, <2>3, DriverAssumption DEF DriverTypeOK, InodeData
  <2>5. DriverTypeOK'
    BY <1>1, <1>2, <2>1, <2>3, <2>4 DEF DriverTypeOK
  <2>6. TasksOK'
    BY <1>1, <2>1, <2>3 DEF TasksOK, DriverTypeOK, Idle, Task
  <2>7. FreshInos'
    BY <2>1, <2>3 DEF FreshInos, DriverTypeOK, Inos
  <2>8. RefsCounted'
    BY <1>2, <2>1, <2>3, <2>4 DEF RefsCounted, LookupCount, DriverTypeOK
  <2>9. QED
    BY <1>2, <2>5, <2>6, <2>7, <2>8 DEF OpenFilesReal
<1>5. QED
  BY <1>3, <1>4 DEF Entry

(* The kernel gives references back; the driver still counts them.         *)
LEMMA KernelForgetsInv ==
  ASSUME DriverInv, NEW i \in Inos, NEW n \in 1..refs[i], KernelForgets(i, n)
  PROVE  DriverInv'
<1> USE DEF DriverInv
<1>1. /\ refs' = [refs EXCEPT ![i] = @ - n]
      /\ forgets' = [forgets EXCEPT ![i] = @ + n]
      /\ UNCHANGED <<disk, table, files, task>>
  BY DEF KernelForgets
<1>2. refs[i] \in Nat /\ forgets[i] \in Nat /\ n \in Nat
      /\ refs[i] - n \in Nat
  BY DEF DriverTypeOK
<1>3. DriverTypeOK'
  BY <1>1, <1>2 DEF DriverTypeOK, table, files
<1>4. \A t \in Threads : task[t].ino = i => refs[i] - n > 0
  BY <1>2 DEF KernelForgets, InUse
<1>5. TasksOK'
  <2>1. ASSUME NEW t \in Threads, task[t].ino # None
        PROVE  refs'[task[t].ino] > 0
    BY <1>1, <1>4, <2>1 DEF TasksOK, DriverTypeOK, Task
  <2>2. QED
    BY <1>1, <2>1 DEF TasksOK
<1>6. RefsCounted'
  BY <1>1, <1>2 DEF RefsCounted, LookupCount, DriverTypeOK, table
<1>7. QED
  BY <1>1, <1>3, <1>5, <1>6 DEF FreshInos, OpenFilesReal, table, files

(* A forget never takes more than the count, so saturating_sub is exact.   *)
LEMMA ForgetInv ==
  ASSUME DriverInv, NEW i \in Inos, NEW n \in 1..forgets[i], Forget(i, n)
  PROVE  DriverInv'
<1> USE DEF DriverInv
<1>1. /\ forgets' = [forgets EXCEPT ![i] = @ - n]
      /\ UNCHANGED <<disk, next_ino, files, task, refs>>
  BY DEF Forget
<1>2. refs[i] \in Nat /\ forgets[i] \in Nat /\ n \in Nat \ {0} /\ n <= forgets[i]
  BY DEF DriverTypeOK
<1>3. inodes[i] # None /\ inodes[i] \in InodeData
      /\ inodes[i].lookup_count = refs[i] + forgets[i]
  BY <1>2 DEF RefsCounted, LookupCount, DriverTypeOK
<1>4. inodes' = [inodes EXCEPT ![i] = Forgotten(inodes[i], n)]
  BY <1>3 DEF Forget
<1>5. CASE refs[i] + forgets[i] <= n
  <2>1. refs[i] = 0 /\ forgets[i] = n
    BY <1>2, <1>5
  <2>2. inodes' = [inodes EXCEPT ![i] = None]
    BY <1>3, <1>4, <1>5 DEF Forgotten
  <2>3. DriverTypeOK'
    BY <1>1, <1>2, <2>2 DEF DriverTypeOK, files
  <2>4. RefsCounted'
    BY <1>1, <2>1, <2>2 DEF RefsCounted, LookupCount, DriverTypeOK
  <2>5. FreshInos' /\ TasksOK' /\ OpenFilesReal'
    BY <1>1, <2>2 DEF FreshInos, TasksOK, OpenFilesReal, files, DriverTypeOK
  <2>6. QED
    BY <2>3, <2>4, <2>5
<1>6. CASE ~(refs[i] + forgets[i] <= n)
  <2>1. inodes' = [inodes EXCEPT ![i] =
          [name |-> inodes[i].name, stub |-> inodes[i].stub,
           lookup_count |-> refs[i] + forgets[i] - n]]
    <3>1. Forgotten(inodes[i], n) =
            [inodes[i] EXCEPT !.lookup_count = inodes[i].lookup_count - n]
      BY <1>3, <1>6 DEF Forgotten
    <3>2. [inodes[i] EXCEPT !.lookup_count = inodes[i].lookup_count - n] =
            [name |-> inodes[i].name, stub |-> inodes[i].stub,
             lookup_count |-> inodes[i].lookup_count - n]
      BY <1>3, CountSet
    <3>3. inodes[i].lookup_count - n = refs[i] + forgets[i] - n
      BY <1>2, <1>3
    <3>4. QED
      BY <1>4, <3>1, <3>2, <3>3
  <2>2. inodes'[i] \in InodeData /\ inodes'[i] # None
    BY <1>2, <1>3, <1>6, <2>1, DriverAssumption DEF DriverTypeOK, InodeData
  <2>3. DriverTypeOK'
    BY <1>1, <1>2, <2>1, <2>2 DEF DriverTypeOK, files
  <2>4. RefsCounted'
    BY <1>1, <1>2, <2>1, <2>2 DEF RefsCounted, LookupCount, DriverTypeOK
  <2>5. FreshInos' /\ TasksOK' /\ OpenFilesReal'
    BY <1>1, <1>3, <2>1 DEF FreshInos, TasksOK, OpenFilesReal, files, DriverTypeOK
  <2>6. QED
    BY <2>3, <2>4, <2>5
<1>7. QED
  BY <1>5, <1>6

(* The hydration makes the inode stand for the file; counts stay.          *)
LEMMA HydratedInv ==
  ASSUME DriverInv, NEW t \in Threads, Hydrated(t)
  PROVE  DriverInv'
<1> USE DEF DriverInv
<1> DEFINE r == task[t]
           i == task[t].ino
<1>1. /\ r \in Task /\ r.pc = "hydrate" /\ r.name \in Names /\ i \in Inos
      /\ refs[i] > 0
  BY DriverAssumption DEF Hydrated, At, DriverTypeOK, TasksOK, Inos
<1>2. UNCHANGED <<disk, next_ino, handles, next_fh, refs, forgets>>
  BY DEF Hydrated, files, kernel
<1>3. /\ task' = [task EXCEPT ![t] = HydratedPath(r)]
      /\ HydratedPath(r) \in Task
      /\ HydratedPath(r).pc = "open" /\ HydratedPath(r).name = r.name
      /\ HydratedPath(r).stub = FALSE /\ HydratedPath(r).ino = i
  <2>1. task' = [task EXCEPT ![t] = HydratedPath(r)]
    BY DEF Hydrated, Become
  <2>2. QED
    BY <1>1, <2>1, PathSet DEF HydratedPath
<1>4. inodes[i] # None /\ inodes[i] \in InodeData
  BY <1>1 DEF DriverTypeOK, RefsCounted, LookupCount
<1> DEFINE d == [inodes[i] EXCEPT !.stub = FALSE]
<1>5. inodes' = [inodes EXCEPT ![i] = d]
  BY <1>4 DEF Hydrated
<1>6. d \in InodeData /\ d # None /\ d.lookup_count = inodes[i].lookup_count
  <2>1. d \in InodeData /\ d.lookup_count = inodes[i].lookup_count
    BY <1>4, StubSet
  <2>2. QED
    BY <2>1, DriverAssumption DEF InodeData
<1> HIDE DEF d
<1>7. DriverTypeOK'
  BY <1>1, <1>2, <1>3, <1>5, <1>6 DEF DriverTypeOK
<1>8. TasksOK'
  BY <1>1, <1>2, <1>3 DEF TasksOK, DriverTypeOK
<1>9. RefsCounted'
  BY <1>1, <1>2, <1>4, <1>5, <1>6
  DEF RefsCounted, LookupCount, DriverTypeOK, InodeData
<1>10. FreshInos' /\ OpenFilesReal'
  BY <1>1, <1>2, <1>4, <1>5 DEF FreshInos, OpenFilesReal, DriverTypeOK
<1>11. QED
  BY <1>7, <1>8, <1>9, <1>10

(* The steps of a request that only change its own record.                 *)
LEMMA TaskStepsInv ==
  ASSUME DriverInv, NEW t \in Threads,
         \/ \E n \in Names : Lookup(t, n)
         \/ \E i \in Inos : Open(t, i)
         \/ Resolve(t) \/ ResolveStub(t) \/ Stat(t)
         \/ OpenPath(t) \/ HydrationFails(t)
  PROVE  DriverInv'
<1> USE DEF DriverInv, Goto, Answer
<1>1. Idle \in Task /\ Idle.pc = "idle" /\ Idle.ino = None
  BY DEF Idle, Task
<1>2. task[t] \in Task
  BY DEF DriverTypeOK
<1>3. task[t].ino # None => refs[task[t].ino] > 0
  BY DEF TasksOK
<1>4. ASSUME NEW n \in Names, Lookup(t, n) PROVE DriverInv'
  <2> DEFINE r == [Idle EXCEPT !.pc = "resolve", !.name = n]
  <2>1. r \in Task /\ r.pc = "resolve" /\ r.name = n /\ r.ino = None
    BY DEF Idle, Task
  <2>2. QED
    BY <1>4, <2>1, TaskChanges DEF Lookup
<1>5. ASSUME NEW i \in Inos, Open(t, i) PROVE DriverInv'
  <2> DEFINE r == [Idle EXCEPT !.pc = "path", !.ino = i]
  <2>1. r \in Task /\ r.pc = "path" /\ r.ino = i
    BY DEF Idle, Task
  <2>2. QED
    BY <1>5, <2>1, TaskChanges DEF Open
<1>6. CASE Resolve(t)
  <2>1. task[t].name \in Names
    BY <1>6 DEF Resolve, At, TasksOK
  <2> DEFINE a == [task[t] EXCEPT !.pc = "stat", !.stub = FALSE]
             b == [task[t] EXCEPT !.pc = "resolve_stub", !.stub = TRUE]
  <2>2. /\ a \in Task /\ a.pc = "stat" /\ a.name = task[t].name
        /\ a.ino = task[t].ino
    BY <1>2 DEF Task
  <2>3. /\ b \in Task /\ b.pc = "resolve_stub" /\ b.name = task[t].name
        /\ b.ino = task[t].ino
    BY <1>2 DEF Task
  <2>4. Become(t, a) \/ Become(t, b)
    BY <1>6 DEF Resolve
  <2>5. QED
    BY <1>3, <1>6, <2>1, <2>2, <2>3, <2>4, TaskChanges DEF Resolve
<1>7. CASE ResolveStub(t) \/ Stat(t)
  <2>1. task[t].name \in Names
    BY <1>7 DEF ResolveStub, Stat, At, TasksOK
  <2> DEFINE a == [task[t] EXCEPT !.pc = "stat"]
             b == [task[t] EXCEPT !.pc = "entry"]
  <2>2. a \in Task /\ a.pc = "stat" /\ a.name = task[t].name /\ a.ino = task[t].ino
    BY <1>2 DEF Task
  <2>3. b \in Task /\ b.pc = "entry" /\ b.name = task[t].name /\ b.ino = task[t].ino
    BY <1>2 DEF Task
  <2>4. Become(t, a) \/ Become(t, b) \/ Become(t, Idle)
    BY <1>7 DEF ResolveStub, Stat
  <2>5. UNCHANGED <<disk, table, files, kernel>>
    BY <1>7 DEF ResolveStub, Stat
  <2>6. QED
    BY <1>1, <1>3, <2>1, <2>2, <2>3, <2>4, <2>5, TaskChanges
<1>8. CASE OpenPath(t)
  <2> DEFINE d == inodes[task[t].ino]
             a == [task[t] EXCEPT !.pc = IF d.stub THEN "hydrate" ELSE "open",
                                  !.name = d.name, !.stub = d.stub]
  <2>1. task[t].ino \in Inos
    BY <1>8 DEF OpenPath, At, TasksOK
  <2>2. CASE d # None
    <3>1. d \in InodeData
      BY <2>1, <2>2 DEF DriverTypeOK
    <3>2. /\ a \in Task /\ a.name \in Names /\ a.ino = task[t].ino
          /\ a.pc \in {"hydrate", "open"} /\ (a.pc = "open" => ~a.stub)
      BY <1>2, <3>1 DEF Task, InodeData
    <3>3. Become(t, a) /\ UNCHANGED <<disk, table, files, kernel>>
      BY <1>8, <2>2 DEF OpenPath
    <3>4. QED
      BY <1>3, <2>1, <3>2, <3>3, TaskChanges
  <2>3. CASE d = None
    BY <1>1, <1>8, <2>3, TaskChanges DEF OpenPath
  <2>4. QED
    BY <2>2, <2>3
<1>9. CASE HydrationFails(t)
  BY <1>1, <1>9, TaskChanges DEF HydrationFails
<1>10. QED
  BY <1>4, <1>5, <1>6, <1>7, <1>8, <1>9

(* Opening and closing files.                                              *)
LEMMA FilesInv ==
  ASSUME DriverInv,
         \/ \E t \in Threads : OpenFile(t)
         \/ \E f \in Fhs : Release(f)
  PROVE  DriverInv'
<1> USE DEF DriverInv
<1>1. CASE \E f \in Fhs : Release(f)
  <2>1. PICK f \in Fhs : Release(f)
    BY <1>1
  <2>2. DriverTypeOK'
    BY <2>1 DEF Release, DriverTypeOK, table, kernel
  <2>3. TasksOK' /\ FreshInos' /\ OpenFilesReal'
    BY <2>1 DEF Release, TasksOK, FreshInos, OpenFilesReal, DriverTypeOK, table, kernel
  <2>4. RefsCounted'
    BY <2>1, CountsKept DEF Release, table, kernel
  <2>5. QED
    BY <2>2, <2>3, <2>4
<1>2. CASE \E t \in Threads : OpenFile(t)
  <2>1. PICK t \in Threads : OpenFile(t)
    BY <1>2
  <2>2. /\ Idle \in Task /\ task' = [task EXCEPT ![t] = Idle]
        /\ UNCHANGED <<disk, table, kernel>>
    BY <2>1 DEF OpenFile, Answer, Become, Idle, Task
  <2>3. CASE UNCHANGED files
    BY <1>2, <2>1, <2>2, <2>3, TaskChanges DEF OpenFile, Answer, Idle
  <2>4. CASE /\ next_fh \in Fhs
             /\ handles' = [handles EXCEPT ![next_fh] =
                              [ino |-> task[t].ino, stub |-> task[t].stub]]
             /\ next_fh' = next_fh + 1
    <3>1. /\ task[t].ino \in Inos /\ task[t].stub \in BOOLEAN /\ ~task[t].stub
      BY <2>1 DEF OpenFile, At, TasksOK, DriverTypeOK, Task
    <3>2. DriverTypeOK'
      BY <2>2, <2>4, <3>1 DEF DriverTypeOK, HandleData, table, kernel
    <3>3. TasksOK'
      BY <2>2 DEF TasksOK, DriverTypeOK, Idle, kernel
    <3>4. OpenFilesReal'
      BY <2>4, <3>1 DEF OpenFilesReal, DriverTypeOK
    <3>5. FreshInos' /\ RefsCounted'
      BY <2>2, CountsKept DEF FreshInos, table, kernel
    <3>6. QED
      BY <3>2, <3>3, <3>4, <3>5
  <2>5. QED
    BY <2>1, <2>3, <2>4 DEF OpenFile
<1>3. QED
  BY <1>1, <1>2

LEMMA StepInv == DriverInv /\ [Next]_vars => DriverInv'
<1> SUFFICES ASSUME DriverInv, [Next]_vars PROVE DriverInv'
  OBVIOUS
<1>1. CASE UNCHANGED vars
  <2>1. RefsCounted'
    BY <1>1, CountsKept DEF DriverInv, vars, table, kernel
  <2>2. QED
    BY <1>1, <2>1 DEF DriverInv, DriverTypeOK, TasksOK, FreshInos, OpenFilesReal,
                      vars, table, files, kernel
<1>2. ASSUME NEW n \in Names, NEW s \in SUBSET {"real", "stub"}, DiskChanges(n, s)
      PROVE  DriverInv'
  <2>1. DriverTypeOK'
    BY <1>2 DEF DiskChanges, DriverInv, DriverTypeOK, table, files, kernel
  <2>2. RefsCounted'
    BY <1>2, CountsKept DEF DiskChanges, DriverInv, table, kernel
  <2>3. QED
    BY <1>2, <2>1, <2>2 DEF DiskChanges, DriverInv, TasksOK, FreshInos, OpenFilesReal,
                            table, files, kernel
<1>3. CASE \E t \in Threads : TaskStep(t) \/ (\E n \in Names : Lookup(t, n))
                                          \/ (\E i \in Inos : Open(t, i))
  BY <1>3, TaskStepsInv, EntryInv, HydratedInv, FilesInv DEF TaskStep
<1>4. QED
  BY <1>1, <1>2, <1>3, KernelForgetsInv, ForgetInv, FilesInv DEF Next

-----------------------------------------------------------------------------
(* DriverInv holds in every state, for any files, threads and bounds.      *)
THEOREM DriverInvariant == Spec => []DriverInv
<1>1. QED
  BY InitInv, StepInv, PTL DEF Spec

(* The driver's counts are the kernel's, always.                           *)
THEOREM DriverRefsCounted == Spec => []RefsCounted
<1>1. DriverInv => RefsCounted
  BY DEF DriverInv
<1>2. QED
  BY <1>1, DriverInvariant, PTL

(* No client ever has a placeholder open.                                  *)
THEOREM DriverOpenFilesReal == Spec => []OpenFilesReal
<1>1. DriverInv => OpenFilesReal
  BY DEF DriverInv
<1>2. QED
  BY <1>1, DriverInvariant, PTL

(* An open never loses its inode, not even while it waits for a download.  *)
THEOREM DriverOpensFindInode == Spec => []OpensFindInode
<1>1. DriverInv => OpensFindInode
  <2> SUFFICES ASSUME DriverInv, NEW t \in Threads, task[t].ino # None
               PROVE  inodes[task[t].ino] # None
    BY DEF OpensFindInode
  <2>1. task[t].ino \in Inos /\ refs[task[t].ino] > 0
    BY DEF DriverInv, DriverTypeOK, TasksOK, Task
  <2>2. QED
    BY <2>1 DEF DriverInv, DriverTypeOK, RefsCounted, LookupCount
<1>2. QED
  BY <1>1, DriverInvariant, PTL

=============================================================================
