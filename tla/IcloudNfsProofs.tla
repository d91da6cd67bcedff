---------------------------- MODULE IcloudNfsProofs ----------------------------
(***************************************************************************)
(* What holds of the NFS server for any files, workers, operations and     *)
(* bounds: its types, that it uses the two layers only as StagingLayer     *)
(* says, and that a fileid never comes to mean another file.               *)
(***************************************************************************)
EXTENDS IcloudNfs, StagingLayerProofs, FiniteSetTheorems

-----------------------------------------------------------------------------
(* What each handler step does to the worker's request.                    *)
Keeps(w) == /\ req' \in [Workers -> Request]
            /\ \A v \in Workers \ {w} : req'[v] = req[v]

SameTask(w) == /\ req'[w].op = req[w].op
               /\ req'[w].to = req[w].to
               /\ req'[w].data = req[w].data
SameFile(w) == /\ req'[w].name = req[w].name
               /\ req'[w].ino = req[w].ino
SameView(w) == /\ req'[w].found = req[w].found
               /\ req'[w].up = req[w].up
SameResult(w) == /\ req'[w].bytes = req[w].bytes
                 /\ req'[w].clobber = req[w].clobber

LEMMA BecomeEffect ==
  ASSUME req \in [Workers -> Request], NEW w \in Workers,
         NEW r \in Request, Become(w, r)
  PROVE  Keeps(w) /\ req'[w] = r
BY DEF Keeps, Become

LEMMA GotoEffect ==
  ASSUME req \in [Workers -> Request], NEW w \in Workers, NEW p \in Pcs,
         Goto(w, p)
  PROVE  /\ Keeps(w) /\ SameTask(w) /\ SameFile(w) /\ SameView(w) /\ SameResult(w)
         /\ req'[w].pc = p /\ req'[w].status = req[w].status
<1> DEFINE r == req[w]
           s == [r EXCEPT !.pc = p]
<1>1. r \in Request
  OBVIOUS
<1>2. Become(w, s)
  BY DEF Goto
<1> HIDE DEF r
<1>3. /\ s \in Request /\ s.pc = p /\ s.op = r.op /\ s.name = r.name
      /\ s.to = r.to /\ s.ino = r.ino /\ s.data = r.data /\ s.found = r.found
      /\ s.up = r.up /\ s.bytes = r.bytes /\ s.clobber = r.clobber /\ s.status = r.status
  BY <1>1 DEF Request
<1> HIDE DEF s
<1>4. QED
  BY <1>2, <1>3, BecomeEffect DEF r, SameTask, SameFile, SameView, SameResult

LEMMA ReplyEffect ==
  ASSUME req \in [Workers -> Request], NEW w \in Workers,
         NEW t \in Statuses, Reply(w, t)
  PROVE  /\ Keeps(w) /\ SameTask(w) /\ SameFile(w) /\ SameView(w) /\ SameResult(w)
         /\ req'[w].pc = "reply" /\ req'[w].status = t
<1> DEFINE r == req[w]
           p == "reply"
           s == [r EXCEPT !.pc = p, !.status = t]
<1>1. r \in Request /\ p \in Pcs
  BY DEF Pcs
<1>2. Become(w, s)
  BY DEF Reply
<1> HIDE DEF r, p
<1>3. /\ s \in Request /\ s.pc = p /\ s.op = r.op /\ s.name = r.name
      /\ s.to = r.to /\ s.ino = r.ino /\ s.data = r.data /\ s.found = r.found
      /\ s.up = r.up /\ s.bytes = r.bytes /\ s.clobber = r.clobber /\ s.status = t
  BY <1>1 DEF Request
<1> HIDE DEF s
<1>4. QED
  BY <1>2, <1>3, BecomeEffect DEF r, p, SameTask, SameFile, SameView, SameResult

LEMMA ResolvedEffect ==
  ASSUME req \in [Workers -> Request], NEW w \in Workers, req[w].op \in ByName,
         NEW f \in Paths, Resolved(w, f)
  PROVE  /\ Keeps(w) /\ SameTask(w) /\ SameFile(w) /\ SameResult(w)
         /\ req'[w].found = f /\ req'[w].up = req[w].up
         /\ req'[w].pc = (IF f = "none" THEN IfMissing ELSE IfFound)[req[w].op]
         /\ req[w].op # "exclusive" => req'[w].status = req[w].status
<1> DEFINE r == req[w]
           p == IF f = "none" THEN IfMissing[r.op] ELSE IfFound[r.op]
           t == IF r.op = "exclusive" /\ f # "none" THEN "exist" ELSE r.status
           s == [r EXCEPT !.found = f, !.pc = p, !.status = t]
<1>1. r \in Request
  OBVIOUS
<1>2. p \in Pcs
  BY DEF IfMissing, IfFound, ByName, Pcs
<1>3. t \in Statuses
  BY DEF Request, Statuses
<1>4. Become(w, s)
  BY DEF Resolved
<1>5. p = (IF f = "none" THEN IfMissing ELSE IfFound)[r.op]
      /\ (r.op # "exclusive" => t = r.status)
  OBVIOUS
<1> HIDE DEF r, p, t
<1>6. /\ s \in Request /\ s.pc = p /\ s.op = r.op /\ s.name = r.name
      /\ s.to = r.to /\ s.ino = r.ino /\ s.data = r.data /\ s.found = f
      /\ s.up = r.up /\ s.bytes = r.bytes /\ s.clobber = r.clobber /\ s.status = t
  BY <1>1, <1>2, <1>3 DEF Request
<1> HIDE DEF s
<1>7. QED
  BY <1>4, <1>5, <1>6, BecomeEffect DEF r, SameTask, SameFile, SameResult

LEMMA CheckStagedEffect ==
  ASSUME req \in [Workers -> Request], NEW w \in Workers, CheckStaged(w),
         req[w].op \in {"lookup", "exclusive"}
  PROVE  /\ Keeps(w) /\ SameTask(w) /\ SameFile(w) /\ SameResult(w)
         /\ req'[w].found = req[w].found
         /\ \/ /\ req[w].op = "exclusive" /\ req'[w].up = req[w].up
               /\ \/ req'[w].pc = "reply" /\ req'[w].status = "exist"
                  \/ req'[w].pc = "resolve" /\ staged[req[w].name] = None
            \/ /\ req[w].op = "lookup"
               /\ \/ /\ req'[w].pc = "stat"
                     /\ req'[w].up = (staged[req[w].name] # None)
                     /\ req'[w].up \/ req'[w].found # "none"
                  \/ /\ req'[w].pc = "reply" /\ req'[w].status = "noent"
                     /\ req'[w].up = req[w].up
<1>1. CASE req[w].op = "exclusive"
  <2>1. \/ staged[req[w].name] # None /\ Reply(w, "exist")
        \/ staged[req[w].name] = None /\ Goto(w, "resolve")
    <3>1. [req[w] EXCEPT !.up = staged[req[w].name] # None].op = req[w].op
      BY DEF Request
    <3>2. QED
      BY <1>1, <3>1 DEF CheckStaged
  <2>2. QED
    BY <1>1, <2>1, ReplyEffect, GotoEffect DEF SameView, Pcs, Statuses
<1>2. CASE req[w].op = "lookup"
  <2> DEFINE r == req[w]
             u == staged[r.name] # None
             q == [r EXCEPT !.up = u]
             s == [q EXCEPT !.pc = "stat"]
  <2>1. r \in Request /\ u \in BOOLEAN /\ "stat" \in Pcs
    BY DEF Pcs
  <2>2. \/ Become(w, s) /\ (u \/ q.found # "none")
        \/ Reply(w, "noent")
    <3>1. q.op = "lookup"
      BY <1>2 DEF Request
    <3>2. QED
      BY <3>1 DEF CheckStaged
  <2> HIDE DEF r, u
  <2>3. /\ s \in Request /\ s.pc = "stat" /\ s.op = r.op /\ s.name = r.name
        /\ s.to = r.to /\ s.ino = r.ino /\ s.data = r.data /\ s.found = r.found
        /\ s.up = u /\ s.bytes = r.bytes /\ s.clobber = r.clobber
        /\ s.status = r.status /\ q.found = r.found
    BY <2>1 DEF Request
  <2> HIDE DEF q, s
  <2>4. CASE Become(w, s) /\ (u \/ q.found # "none")
    BY <1>2, <2>3, <2>4, BecomeEffect DEF r, u, SameTask, SameFile, SameResult
  <2>5. CASE Reply(w, "noent")
    BY <1>2, <2>5, ReplyEffect DEF SameView, Statuses
  <2>6. QED
    BY <2>2, <2>4, <2>5
<1>3. QED
  BY <1>1, <1>2

LEMMA AllocEffect ==
  ASSUME req \in [Workers -> Request], next_ino \in Nat, NEW w \in Workers,
         Alloc(w)
  PROVE  /\ Keeps(w) /\ SameTask(w) /\ SameView(w) /\ SameResult(w)
         /\ req'[w].name = req[w].name /\ req'[w].status = req[w].status
         /\ req'[w].pc = IF req[w].op = "lookup" /\ ~req[w].up THEN "reply"
                                                             ELSE "set_staged"
         /\ LET isStub == req[w].op = "lookup" /\ req[w].found = "stub"
                i      == req'[w].ino
            IN \/ i \in InodesAt(req[w].name, isStub) /\ UNCHANGED Table
               \/ /\ InodesAt(req[w].name, isStub) = {}
                  /\ i = next_ino /\ i \in Inos /\ next_ino' = next_ino + 1
                  /\ inodes' = [inodes EXCEPT ![i] =
                       [name |-> req[w].name, stub |-> isStub, staged |-> None]]
<1> DEFINE r == req[w]
           isStub == r.op = "lookup" /\ r.found = "stub"
           p == IF r.op = "lookup" /\ ~r.up THEN "reply" ELSE "set_staged"
<1>1. r \in Request /\ p \in Pcs
  BY DEF Pcs
<1>2. PICK i \in Inos :
        /\ Become(w, [r EXCEPT !.pc = p, !.ino = i])
        /\ \/ i \in InodesAt(r.name, isStub) /\ UNCHANGED Table
           \/ /\ InodesAt(r.name, isStub) = {}
              /\ i = next_ino /\ next_ino' = next_ino + 1
              /\ inodes' = [inodes EXCEPT ![i] =
                   [name |-> r.name, stub |-> isStub, staged |-> None]]
  BY DEF Alloc, InodesAt
<1> DEFINE s == [r EXCEPT !.pc = p, !.ino = i]
<1> HIDE DEF r, p
<1>3. /\ s \in Request /\ s.pc = p /\ s.op = r.op /\ s.name = r.name
      /\ s.to = r.to /\ s.ino = i /\ s.data = r.data /\ s.found = r.found
      /\ s.up = r.up /\ s.bytes = r.bytes /\ s.clobber = r.clobber
      /\ s.status = r.status
  BY <1>1 DEF Request
<1>4. Keeps(w) /\ req'[w] = s
  BY <1>2, <1>3, BecomeEffect
<1> HIDE DEF s
<1>5. QED
  BY <1>2, <1>3, <1>4 DEF r, p, SameTask, SameView, SameResult

LEMMA SetStagedEffect ==
  ASSUME req \in [Workers -> Request], NEW w \in Workers, SetStagedPath(w)
  PROVE  /\ Keeps(w) /\ SameTask(w) /\ SameFile(w) /\ SameResult(w)
         /\ req'[w].found = req[w].found
         /\ \/ /\ req[w].op \in HandleOps /\ req'[w].pc = "io" /\ req'[w].up
               /\ req'[w].status = req[w].status
            \/ /\ req[w].op \notin HandleOps /\ req'[w].pc = "reply"
               /\ req'[w].status \in {"ok", "io"} /\ req'[w].up = req[w].up
<1>1. CASE req[w].op \in HandleOps
  <2> DEFINE r == req[w]
             p == "io"
             s == [r EXCEPT !.pc = p, !.up = TRUE]
  <2>1. r \in Request /\ p \in Pcs
    BY DEF Pcs
  <2>2. Become(w, s)
    BY <1>1 DEF SetStagedPath
  <2> HIDE DEF r, p
  <2>3. /\ s \in Request /\ s.pc = p /\ s.op = r.op /\ s.name = r.name
        /\ s.to = r.to /\ s.ino = r.ino /\ s.data = r.data /\ s.found = r.found
        /\ s.up = TRUE /\ s.bytes = r.bytes /\ s.clobber = r.clobber
        /\ s.status = r.status
    BY <2>1 DEF Request
  <2> HIDE DEF s
  <2>4. QED
    BY <1>1, <2>2, <2>3, BecomeEffect DEF r, p, SameTask, SameFile, SameResult
<1>2. CASE req[w].op \notin HandleOps
  <2>1. Reply(w, "io") \/ Reply(w, "ok")
    BY <1>2 DEF SetStagedPath
  <2>2. QED
    BY <1>2, <2>1, ReplyEffect DEF SameView, Statuses
<1>3. QED
  BY <1>1, <1>2

LEMMA UseHandleEffect ==
  ASSUME req \in [Workers -> Request], inodes \in [Inos -> {None} \cup InodeData],
         NEW w \in Workers, UseHandle(w), req[w].ino \in Inos
  PROVE  /\ Keeps(w) /\ SameTask(w) /\ SameResult(w)
         /\ req'[w].ino = req[w].ino /\ req'[w].found = req[w].found
         /\ req'[w].status = req[w].status
         /\ LET d == inodes[req[w].ino] IN
            \/ /\ d = None /\ req'[w].pc = "path" /\ req'[w].name = req[w].name
               /\ req'[w].up = req[w].up /\ due' = due
            \/ /\ d # None /\ d.staged # None
               /\ req'[w].pc = "io" /\ req'[w].name = d.staged /\ req'[w].up
               /\ due' = [due EXCEPT ![w] = IF req[w].op = "read" THEN safe[d.name]
                                                                 ELSE {}]
            \/ /\ d # None /\ d.staged = None
               /\ req'[w].pc = "path" /\ req'[w].name = d.name
               /\ req'[w].up = req[w].up
               /\ due' = [due EXCEPT ![w] = IF req[w].op = "read" THEN safe[d.name]
                                                                 ELSE {}]
<1> DEFINE d == inodes[req[w].ino]
<1>1. CASE d = None
  <2>1. Goto(w, "path") /\ due' = due
    BY <1>1 DEF UseHandle
  <2>2. QED
    BY <1>1, <2>1, GotoEffect DEF SameView, SameFile, Pcs
<1>2. CASE d # None
  <2>1. d \in InodeData
    BY <1>2
  <2> DEFINE r == req[w]
             p == IF d.staged # None THEN "io" ELSE "path"
             n == IF d.staged # None THEN d.staged ELSE d.name
             u == IF d.staged # None THEN TRUE ELSE r.up
             s == [r EXCEPT !.pc = p, !.name = n, !.up = u]
  <2>2. r \in Request /\ p \in Pcs /\ n \in Names /\ u \in BOOLEAN
    BY <2>1 DEF Pcs, InodeData, Request
  <2>3. \/ d.staged # None /\ Become(w, [r EXCEPT !.pc = "io", !.name = d.staged, !.up = TRUE])
        \/ d.staged = None /\ Become(w, [r EXCEPT !.pc = "path", !.name = d.name])
    BY <1>2 DEF UseHandle, UsesStaged
  <2>4. d.staged = None => [r EXCEPT !.pc = "path", !.name = d.name] = s
    BY DEF Request
  <2>5. Become(w, s)
    BY <2>3, <2>4
  <2>6. /\ d.staged # None => p = "io" /\ n = d.staged /\ u
        /\ d.staged = None => p = "path" /\ n = d.name /\ u = r.up
    OBVIOUS
  <2>7. due' = [due EXCEPT ![w] = IF r.op = "read" THEN safe[d.name] ELSE {}]
    BY <1>2 DEF UseHandle
  <2> HIDE DEF r, p, n, u
  <2>8. /\ s \in Request /\ s.pc = p /\ s.op = r.op /\ s.name = n
        /\ s.to = r.to /\ s.ino = r.ino /\ s.data = r.data /\ s.found = r.found
        /\ s.up = u /\ s.bytes = r.bytes /\ s.clobber = r.clobber
        /\ s.status = r.status
    BY <2>2 DEF Request
  <2> HIDE DEF s
  <2>9. QED
    BY <1>2, <2>5, <2>6, <2>7, <2>8, BecomeEffect DEF r, SameTask, SameResult
<1>3. QED
  BY <1>1, <1>2

LEMMA UsePathEffect ==
  ASSUME req \in [Workers -> Request], inodes \in [Inos -> {None} \cup InodeData],
         NEW w \in Workers, UsePath(w), req[w].ino \in Inos
  PROVE  /\ Keeps(w) /\ SameTask(w) /\ SameResult(w) /\ SameView(w)
         /\ req'[w].ino = req[w].ino
         /\ LET d == inodes[req[w].ino] IN
            \/ /\ d = None /\ req'[w].pc = "reply" /\ req'[w].status = "stale"
            \/ /\ d # None /\ req'[w].name = d.name
               /\ req'[w].status = req[w].status
               /\ req'[w].pc = IF d.stub THEN "hydrate"
                               ELSE IF req[w].op = "read" THEN "io" ELSE "copy_up"
<1> DEFINE d == inodes[req[w].ino]
<1>1. CASE d = None
  <2>1. Reply(w, "stale")
    BY <1>1 DEF UsePath
  <2>2. QED
    BY <1>1, <2>1, ReplyEffect DEF SameFile, Statuses
<1>2. CASE d # None
  <2> DEFINE r == req[w]
             p == IF d.stub THEN "hydrate"
                  ELSE IF r.op = "read" THEN "io" ELSE "copy_up"
             n == d.name
             s == [r EXCEPT !.name = n, !.pc = p]
  <2>1. r \in Request /\ p \in Pcs /\ n \in Names
    BY <1>2 DEF Pcs, InodeData
  <2>2. Become(w, s)
    BY <1>2 DEF UsePath
  <2> HIDE DEF r, p, n
  <2>3. /\ s \in Request /\ s.pc = p /\ s.op = r.op /\ s.name = n
        /\ s.to = r.to /\ s.ino = r.ino /\ s.data = r.data /\ s.found = r.found
        /\ s.up = r.up /\ s.bytes = r.bytes /\ s.clobber = r.clobber
        /\ s.status = r.status
    BY <2>1 DEF Request
  <2> HIDE DEF s
  <2>4. QED
    BY <1>2, <2>2, <2>3, BecomeEffect DEF r, p, n, SameTask, SameView, SameResult
<1>3. QED
  BY <1>1, <1>2

LEMMA ReadIoEffect ==
  ASSUME req \in [Workers -> Request], staged \in [Names -> File],
         cloud \in [Names -> File], NEW w \in Workers, ReadIo(w),
         req[w].name \in Names
  PROVE  /\ Keeps(w) /\ SameTask(w) /\ SameFile(w) /\ SameView(w)
         /\ req'[w].clobber = req[w].clobber
         /\ req'[w].pc = "reply"
         /\ \/ req'[w].status = "io" /\ req'[w].bytes = req[w].bytes
            \/ /\ req'[w].status = "ok"
               /\ req'[w].bytes = OpenPath(req[w]) /\ req'[w].bytes # None
<1> DEFINE r == req[w]
           b == OpenPath(r)
<1>1. r \in Request /\ b \in File
  BY DEF OpenPath
<1>2. CASE b = None
  <2>1. Reply(w, "io")
    BY <1>2 DEF ReadIo
  <2>2. QED
    BY <2>1, ReplyEffect DEF SameResult, Statuses
<1>3. CASE b # None
  <2> DEFINE p == "reply"
             t == "ok"
             s == [r EXCEPT !.pc = p, !.status = t, !.bytes = b]
  <2>1. Become(w, s)
    BY <1>3 DEF ReadIo
  <2>2. p \in Pcs /\ t \in Statuses
    BY DEF Pcs, Statuses
  <2> HIDE DEF r, b, p, t
  <2>3. /\ s \in Request /\ s.pc = p /\ s.op = r.op /\ s.name = r.name
        /\ s.to = r.to /\ s.ino = r.ino /\ s.data = r.data /\ s.found = r.found
        /\ s.up = r.up /\ s.bytes = b /\ s.clobber = r.clobber /\ s.status = t
    BY <1>1, <2>2 DEF Request
  <2> HIDE DEF s
  <2>4. QED
    BY <1>3, <2>1, <2>3, BecomeEffect DEF r, b, p, t, SameTask, SameFile, SameView
<1>4. QED
  BY <1>2, <1>3

LEMMA CreateEffect ==
  ASSUME req \in [Workers -> Request], NEW w \in Workers, Create(w)
  PROVE  /\ Keeps(w) /\ SameTask(w) /\ SameFile(w) /\ SameView(w)
         /\ req'[w].pc = (IF req[w].op = "create" THEN "sattr" ELSE "alloc")
         /\ req'[w].status = req[w].status /\ req'[w].bytes = req[w].bytes
         /\ req'[w].clobber = (req[w].op = "exclusive" /\ Stored(req[w].name) # None)
<1> DEFINE r == req[w]
           p == IF r.op = "create" THEN "sattr" ELSE "alloc"
           c == r.op = "exclusive" /\ Stored(r.name) # None
           s == [r EXCEPT !.pc = p, !.clobber = c]
<1>1. r \in Request /\ p \in Pcs /\ c \in BOOLEAN
  BY DEF Pcs
<1>2. Become(w, s)
  BY DEF Create
<1> HIDE DEF r, p, c
<1>3. /\ s \in Request /\ s.pc = p /\ s.op = r.op /\ s.name = r.name
      /\ s.to = r.to /\ s.ino = r.ino /\ s.data = r.data /\ s.found = r.found
      /\ s.up = r.up /\ s.bytes = r.bytes /\ s.clobber = c /\ s.status = r.status
  BY <1>1 DEF Request
<1> HIDE DEF s
<1>4. QED
  BY <1>2, <1>3, BecomeEffect DEF r, p, c, SameTask, SameFile, SameView

LEMMA FindInodeEffect ==
  ASSUME req \in [Workers -> Request], NEW w \in Workers, FindInode(w)
  PROVE  /\ Keeps(w) /\ SameTask(w) /\ SameView(w) /\ SameResult(w)
         /\ req'[w].name = req[w].name
         /\ \/ req'[w].pc = "reply" /\ req'[w].ino = req[w].ino
            \/ req'[w].pc = "drop_inode" /\ req'[w].ino \in InodesOf(req[w].name)
<1>1. CASE Reply(w, "ok")
  BY <1>1, ReplyEffect DEF SameFile, Statuses
<1>2. ASSUME NEW i \in InodesOf(req[w].name),
             Become(w, [req[w] EXCEPT !.pc = "drop_inode", !.ino = i])
      PROVE  /\ Keeps(w) /\ SameTask(w) /\ SameView(w) /\ SameResult(w)
             /\ req'[w].name = req[w].name
             /\ req'[w].pc = "drop_inode" /\ req'[w].ino = i
  <2> DEFINE r == req[w]
             p == "drop_inode"
             s == [r EXCEPT !.pc = p, !.ino = i]
  <2>1. r \in Request /\ p \in Pcs /\ i \in Inos
    BY DEF Pcs, InodesOf, InodesAt
  <2>2. Become(w, s)
    BY <1>2
  <2> HIDE DEF r, p
  <2>3. /\ s \in Request /\ s.pc = p /\ s.op = r.op /\ s.name = r.name
        /\ s.to = r.to /\ s.ino = i /\ s.data = r.data /\ s.found = r.found
        /\ s.up = r.up /\ s.bytes = r.bytes /\ s.clobber = r.clobber
    BY <2>1 DEF Request
  <2> HIDE DEF s
  <2>4. QED
    BY <2>2, <2>3, BecomeEffect DEF r, p, SameTask, SameView, SameResult
<1>3. QED
  BY <1>1, <1>2 DEF FindInode

(* A failing call ends the request.                                        *)
LEMMA CallFailsEffect ==
  ASSUME req \in [Workers -> Request], NEW w \in Workers, CallFails(w)
  PROVE  /\ Keeps(w) /\ SameTask(w) /\ SameFile(w) /\ SameView(w) /\ SameResult(w)
         /\ req'[w].pc = "reply"
         /\ req'[w].status \in (IF At(w, "io") /\ req[w].op = "write" THEN {"io", "ok"}
                               ELSE {"io", "noent"})
         /\ OperationFails(req[w].name) /\ UNCHANGED <<stub, Table, hist>>
<1>1. \E s \in Statuses :
        /\ Reply(w, s)
        /\ s \in (IF At(w, "io") /\ req[w].op = "write" THEN {"io", "ok"}
                  ELSE {"io", "noent"})
  BY DEF CallFails, Statuses
<1>2. OperationFails(req[w].name) /\ UNCHANGED <<stub, Table, hist>>
  BY DEF CallFails
<1>3. QED
  BY <1>1, <1>2, ReplyEffect

LEMMA RenameCheckEffect ==
  ASSUME req \in [Workers -> Request], NEW w \in Workers, RenameCheck(w)
  PROVE  /\ Keeps(w) /\ SameTask(w) /\ SameFile(w) /\ SameResult(w)
         /\ req'[w].pc \in {"rename_staged", "resolve"}
         /\ req'[w].status = req[w].status
<1> DEFINE r == req[w]
           u == staged[r.name] # None
           p == IF u THEN "rename_staged" ELSE "resolve"
           s == [r EXCEPT !.up = u, !.pc = p]
<1>1. r \in Request /\ p \in Pcs /\ u \in BOOLEAN
  BY DEF Pcs
<1>2. Become(w, s)
  BY DEF RenameCheck
<1> HIDE DEF r, u, p
<1>3. /\ s \in Request /\ s.pc = p /\ s.op = r.op /\ s.name = r.name
      /\ s.to = r.to /\ s.ino = r.ino /\ s.data = r.data /\ s.found = r.found
      /\ s.up = u /\ s.bytes = r.bytes /\ s.clobber = r.clobber
      /\ s.status = r.status
  BY <1>1 DEF Request
<1> HIDE DEF s
<1>4. QED
  BY <1>2, <1>3, BecomeEffect DEF r, p, SameTask, SameFile, SameResult

LEMMA IdleRequest == Idle \in Request
BY DEF Request, Idle, File, Pcs, Paths, Statuses

LEMMA ArriveEffect ==
  ASSUME req \in [Workers -> Request], next_ino \in 2..(MaxIno + 1),
         NEW w \in Workers, Arrive(w)
  PROVE  LET r == req'[w] IN
         /\ Keeps(w) /\ r.op \in Ops[w] /\ r.pc = FirstPc[r.op]
         /\ r.found = "none" /\ ~r.up /\ r.bytes = None /\ ~r.clobber
         /\ \/ r.op \in NameOps \ {"rename"} /\ r.name \in Names /\ r.ino = None
            \/ /\ r.op = "rename" /\ r.name \in Names /\ r.ino = None
               /\ r.to \in Names
            \/ /\ r.op \in HandleOps /\ r.ino \in 2..(next_ino - 1)
               /\ r.op = "write" => r.data \in Payloads
<1>1. PICK op \in Ops[w] :
        \/ /\ op \in NameOps \ {"rename"}
           /\ \E n \in Names :
                Become(w, [Idle EXCEPT !.pc = FirstPc[op], !.op = op, !.name = n])
        \/ /\ op = "rename"
           /\ \E a, b \in Names :
                Become(w, [Idle EXCEPT !.pc = FirstPc[op], !.op = op,
                                       !.name = a, !.to = b])
        \/ /\ op \in HandleOps
           /\ \E i \in 2..(next_ino - 1), d \in IF op = "write" THEN Payloads ELSE {None} :
                Become(w, [Idle EXCEPT !.pc = FirstPc[op], !.op = op, !.ino = i,
                                       !.data = d])
  BY DEF Arrive
<1> DEFINE p == FirstPc[op]
<1>2. op \in NameOps \cup HandleOps
  BY <1>1, ServerAssumption
<1>3. p \in Pcs
  BY <1>2 DEF FirstPc, NameOps, HandleOps, Pcs
<1>4. Idle.found = "none" /\ ~Idle.up /\ Idle.bytes = None /\ ~Idle.clobber
      /\ Idle.ino = None
  BY DEF Idle
<1>5. CASE /\ op \in NameOps \ {"rename"}
           /\ \E n \in Names : Become(w, [Idle EXCEPT !.pc = p, !.op = op, !.name = n])
  <2>1. PICK n \in Names : Become(w, [Idle EXCEPT !.pc = p, !.op = op, !.name = n])
    BY <1>5
  <2> DEFINE r == Idle
             s == [r EXCEPT !.pc = p, !.op = op, !.name = n]
  <2>2. r \in Request
    BY IdleRequest
  <2> HIDE DEF p, r
  <2>3. /\ s \in Request /\ s.pc = p /\ s.op = op /\ s.name = n /\ s.ino = r.ino
        /\ s.found = r.found /\ s.up = r.up /\ s.bytes = r.bytes
        /\ s.clobber = r.clobber
    BY <1>2, <1>3, <2>2 DEF Request
  <2>4. Become(w, s)
    BY <2>1 DEF r
  <2> HIDE DEF s
  <2>5. QED
    BY <1>4, <1>5, <2>3, <2>4, BecomeEffect DEF p, r
<1>6. CASE /\ op = "rename"
           /\ \E a, b \in Names :
                Become(w, [Idle EXCEPT !.pc = p, !.op = op, !.name = a, !.to = b])
  <2>1. PICK a \in Names, b \in Names :
          Become(w, [Idle EXCEPT !.pc = p, !.op = op, !.name = a, !.to = b])
    BY <1>6
  <2> DEFINE r == Idle
             s == [r EXCEPT !.pc = p, !.op = op, !.name = a, !.to = b]
  <2>2. r \in Request
    BY IdleRequest
  <2> HIDE DEF p, r
  <2>3. /\ s \in Request /\ s.pc = p /\ s.op = op /\ s.name = a /\ s.to = b
        /\ s.ino = r.ino /\ s.found = r.found /\ s.up = r.up /\ s.bytes = r.bytes
        /\ s.clobber = r.clobber
    BY <1>2, <1>3, <2>2 DEF Request
  <2>4. Become(w, s)
    BY <2>1 DEF r
  <2> HIDE DEF s
  <2>5. QED
    BY <1>4, <1>6, <2>3, <2>4, BecomeEffect DEF p, r
<1>7. CASE /\ op \in HandleOps
           /\ \E i \in 2..(next_ino - 1), d \in IF op = "write" THEN Payloads ELSE {None} :
                Become(w, [Idle EXCEPT !.pc = p, !.op = op, !.ino = i, !.data = d])
  <2>1. PICK i \in 2..(next_ino - 1), e \in IF op = "write" THEN Payloads ELSE {None} :
          Become(w, [Idle EXCEPT !.pc = p, !.op = op, !.ino = i, !.data = e])
    BY <1>7
  <2> DEFINE r == Idle
             s == [r EXCEPT !.pc = p, !.op = op, !.ino = i, !.data = e]
  <2>2. r \in Request /\ i \in Inos
    BY IdleRequest, ServerAssumption DEF Inos
  <2>3. e \in Writes \cup {None} /\ (op = "write" => e \in Payloads)
    BY DEF Payloads
  <2> HIDE DEF p, r
  <2>4. /\ s \in Request /\ s.pc = p /\ s.op = op /\ s.ino = i /\ s.data = e
        /\ s.found = r.found /\ s.up = r.up /\ s.bytes = r.bytes
        /\ s.clobber = r.clobber
    BY <1>2, <1>3, <2>2, <2>3 DEF Request
  <2>5. Become(w, s)
    BY <2>1 DEF r
  <2> HIDE DEF s
  <2>6. QED
    BY <1>4, <1>7, <2>3, <2>4, <2>5, BecomeEffect DEF p, r
<1>8. QED
  BY <1>1, <1>5, <1>6, <1>7

-----------------------------------------------------------------------------
(* Every step of a worker leaves it with a well-formed request, on a       *)
(* fileid that it had or that has been given out.                          *)
Progress(w) ==
  /\ Keeps(w)
  /\ RequestOK(w, req'[w])
  /\ req'[w].pc # "idle" => Serving
  /\ req'[w].ino \in Inos => req'[w].ino = req[w].ino \/ req'[w].ino < next_ino'

LEMMA WorkerProgress ==
  ASSUME ServerInv, NEW w \in Workers, Arrive(w) \/ WorkerStep(w)
  PROVE  Progress(w)
<1>1. /\ req \in [Workers -> Request] /\ RequestOK(w, req[w])
      /\ req[w].pc # "idle" => Serving
      /\ next_ino \in 2..(MaxIno + 1) /\ next_ino \in Nat
      /\ inodes \in [Inos -> {None} \cup InodeData]
      /\ staged \in [Names -> File] /\ cloud \in [Names -> File]
  BY DEF ServerInv, NfsTypeOK, TypeOK, At
<1> USE <1>1 DEF Progress, RequestOK, ByName, ByHandle, Allocators, NameOps,
                 HandleOps, Table
<1>2. CASE Arrive(w)
  <2>1. UNCHANGED next_ino /\ Serving /\ None \notin Inos
    BY <1>2, ServerAssumption DEF Arrive
  <2>2. /\ Keeps(w)
        /\ req'[w].op \in Ops[w] /\ req'[w].pc = FirstPc[req'[w].op]
        /\ \/ /\ req'[w].op \in NameOps \ {"rename"} /\ req'[w].name \in Names
              /\ req'[w].ino = None
           \/ /\ req'[w].op = "rename" /\ req'[w].name \in Names
              /\ req'[w].ino = None /\ req'[w].to \in Names
           \/ /\ req'[w].op \in HandleOps /\ req'[w].ino \in 2..(next_ino - 1)
              /\ req'[w].op = "write" => req'[w].data \in Payloads
    BY <1>2, ArriveEffect
  <2>3. CASE req'[w].op \in HandleOps
    <3>1. req'[w].pc = "handle"
      BY <2>2, <2>3 DEF FirstPc
    <3>2. req'[w].ino \in Inos /\ req'[w].ino < next_ino
      BY <2>2, <2>3, ServerAssumption DEF Inos
    <3>3. QED
      BY <2>1, <2>2, <2>3, <3>1, <3>2
  <2>4. CASE req'[w].op \in NameOps
    <3>1. /\ req'[w].op = "lookup" => req'[w].pc = "resolve"
          /\ req'[w].op = "create" => req'[w].pc = "create"
          /\ req'[w].op = "exclusive" => req'[w].pc = "check_staged"
          /\ req'[w].op = "remove" => req'[w].pc = "remove_staged"
          /\ req'[w].op = "rename" => req'[w].pc = "rename_check"
      BY <2>2 DEF FirstPc
    <3>2. QED
      BY <2>1, <2>2, <2>4, <3>1
  <2>5. QED
    BY <2>2, <2>3, <2>4
<1>3. CASE Resolve(w)
  <2>1. req[w].op \in ByName /\ UNCHANGED next_ino /\ req[w].pc = "resolve"
    BY <1>3 DEF Resolve, At
  <2>2. CASE Goto(w, "resolve_stub")
    BY <2>1, <2>2, GotoEffect DEF SameTask, SameFile, Pcs
  <2>3. CASE Resolved(w, "real")
    BY <2>1, <2>3, ResolvedEffect DEF SameTask, SameFile, IfFound, Paths
  <2>4. QED
    BY <1>3, <2>2, <2>3 DEF Resolve
<1>4. CASE ResolveStub(w)
  <2>1. req[w].op \in ByName /\ UNCHANGED next_ino /\ req[w].pc = "resolve_stub"
    BY <1>4 DEF ResolveStub, At
  <2>2. PICK f \in Paths : Resolved(w, f)
    BY <1>4 DEF ResolveStub, Paths
  <2>3. QED
    BY <2>1, <2>2, ResolvedEffect DEF SameTask, SameFile, IfFound, IfMissing
<1>5. CASE CheckStaged(w)
  <2>1. UNCHANGED next_ino /\ req[w].pc = "check_staged"
    BY <1>5 DEF CheckStaged, At
  <2>2. QED
    BY <1>5, <2>1, CheckStagedEffect DEF SameTask, SameFile
<1>6. CASE Stat(w)
  <2>1. UNCHANGED next_ino /\ req[w].pc = "stat"
    BY <1>6 DEF Stat, At
  <2>2. Reply(w, "noent") \/ Goto(w, "alloc")
    BY <1>6 DEF Stat
  <2>3. QED
    BY <2>1, <2>2, ReplyEffect, GotoEffect DEF SameTask, SameFile, Pcs, Statuses
<1>7. CASE Alloc(w)
  <2>1. req[w].pc = "alloc"
    BY <1>7 DEF Alloc, At
  <2>2. req'[w].ino \in Inos /\ req'[w].ino < next_ino'
    <3>1. \A i \in Inos : inodes[i] # None => i < next_ino
      BY DEF ServerInv, Inos
    <3> DEFINE S == InodesAt(req[w].name, req[w].op = "lookup" /\ req[w].found = "stub")
    <3>2. \A i \in S : i \in Inos /\ inodes[i] # None
      BY DEF InodesAt
    <3>3. \/ req'[w].ino \in Inos /\ inodes[req'[w].ino] # None /\ next_ino' = next_ino
          \/ /\ req'[w].ino \in Inos /\ req'[w].ino = next_ino
             /\ next_ino' = next_ino + 1
      BY <1>7, <3>2, AllocEffect DEF Table
    <3>4. QED
      BY <3>1, <3>3
  <2>3. QED
    BY <1>7, <2>1, <2>2, AllocEffect DEF SameTask
<1>8. CASE SetStagedPath(w)
  <2>1. UNCHANGED next_ino /\ req[w].pc = "set_staged"
    BY <1>8 DEF SetStagedPath, At
  <2>2. QED
    BY <1>8, <2>1, SetStagedEffect DEF SameTask, SameFile
<1>9. CASE UseHandle(w)
  <2>1. UNCHANGED next_ino /\ req[w].pc = "handle"
    BY <1>9 DEF UseHandle, At
  <2>2. \A d \in InodeData : d.staged # None => d.staged \in Names
    BY DEF InodeData
  <2>3. QED
    BY <1>9, <2>1, <2>2, UseHandleEffect DEF SameTask
<1>10. CASE UsePath(w)
  <2>1. UNCHANGED next_ino /\ req[w].pc = "path"
    BY <1>10 DEF UsePath, At
  <2>2. \A d \in InodeData : d.name \in Names
    BY DEF InodeData
  <2>3. QED
    BY <1>10, <2>1, <2>2, UsePathEffect DEF SameTask
<1>11. CASE Hydrated(w) \/ HydrateFails(w)
  <2>1. UNCHANGED next_ino /\ req[w].pc = "hydrate"
    BY <1>11 DEF Hydrated, HydrateFails, At
  <2>2. \/ Goto(w, "io") /\ req[w].op = "read"
        \/ Goto(w, "copy_up") /\ req[w].op # "read"
        \/ Reply(w, "io")
    BY <1>11 DEF Hydrated, HydrateFails
  <2>3. QED
    BY <2>1, <2>2, ReplyEffect, GotoEffect DEF SameTask, SameFile, Pcs, Statuses
<1>12. CASE CopyUpHandle(w)
  <2>1. UNCHANGED next_ino /\ req[w].pc = "copy_up"
    BY <1>12 DEF CopyUpHandle, At
  <2>2. Goto(w, "set_staged") \/ Reply(w, "io")
    BY <1>12 DEF CopyUpHandle
  <2>3. QED
    BY <2>1, <2>2, ReplyEffect, GotoEffect DEF SameTask, SameFile, Pcs, Statuses
<1>13. CASE WriteIo(w)
  <2>1. UNCHANGED next_ino /\ req[w].pc = "io"
    BY <1>13 DEF WriteIo, At
  <2>2. Reply(w, "ok") \/ Reply(w, "io")
    BY <1>13 DEF WriteIo
  <2>3. QED
    BY <2>1, <2>2, ReplyEffect DEF SameTask, SameFile, Statuses
<1>14. CASE ReadIo(w)
  <2>1. UNCHANGED next_ino /\ req[w].pc = "io"
    BY <1>14 DEF ReadIo, At
  <2>2. QED
    BY <1>14, <2>1, ReadIoEffect DEF SameTask, SameFile
<1>15. CASE Create(w)
  <2>1. UNCHANGED next_ino /\ req[w].pc = "create"
    BY <1>15 DEF Create, At
  <2>2. QED
    BY <1>15, <2>1, CreateEffect DEF SameTask, SameFile
<1>16. CASE RemoveUpper(w) \/ RemoveLower(w) \/ RemoveInode(w)
  <2>1. /\ UNCHANGED next_ino
        /\ req[w].pc \in {"remove_staged", "remove_cloud", "drop_inode"}
    BY <1>16 DEF RemoveUpper, RemoveLower, RemoveInode, At
  <2>2. \/ Goto(w, "resolve") \/ Goto(w, "remove_inode")
        \/ Reply(w, "io") \/ Reply(w, "ok")
    BY <1>16 DEF RemoveUpper, RemoveLower, RemoveInode
  <2>3. QED
    BY <2>1, <2>2, ReplyEffect, GotoEffect DEF SameTask, SameFile, Pcs, Statuses
<1>17. CASE RenameCheck(w)
  <2>1. UNCHANGED next_ino /\ req[w].pc = "rename_check"
    BY <1>17 DEF RenameCheck, At
  <2>2. QED
    BY <1>17, <2>1, RenameCheckEffect DEF SameTask, SameFile
<1>18. CASE RenameUpper(w) \/ RenameLower(w) \/ RenameInode(w)
  <2>1. /\ UNCHANGED next_ino
        /\ req[w].pc \in {"rename_staged", "rename_cloud", "rename_inode"}
    BY <1>18 DEF RenameUpper, RenameLower, RenameInode, At
  <2>2. \/ Goto(w, "resolve") \/ Goto(w, "rename_inode")
        \/ Reply(w, "io") \/ Reply(w, "ok")
    BY <1>18 DEF RenameUpper, RenameLower, RenameInode
  <2>3. QED
    BY <2>1, <2>2, ReplyEffect, GotoEffect DEF SameTask, SameFile, Pcs, Statuses
<1>19. CASE Respond(w)
  <2>1. Keeps(w) /\ req'[w] = Idle
    BY <1>19, IdleRequest, BecomeEffect DEF Respond
  <2>2. Idle.pc = "idle" /\ Idle.ino = None
    BY DEF Idle
  <2>3. QED
    BY <2>1, <2>2, ServerAssumption
<1>20. CASE FindInode(w)
  <2>1. UNCHANGED next_ino /\ req[w].pc = "remove_inode"
    BY <1>20 DEF FindInode, At
  <2>2. \A i \in InodesOf(req[w].name) : i \in Inos /\ i < next_ino
    BY DEF InodesOf, InodesAt, ServerInv, Inos
  <2>3. QED
    BY <1>20, <2>1, <2>2, FindInodeEffect DEF SameTask
<1>21. CASE SetAttr(w)
  <2>1. UNCHANGED next_ino /\ req[w].pc = "sattr"
    BY <1>21 DEF SetAttr, At
  <2>2. Goto(w, "alloc") \/ Reply(w, "io")
    BY <1>21 DEF SetAttr
  <2>3. QED
    BY <2>1, <2>2, ReplyEffect, GotoEffect DEF SameTask, SameFile, Pcs, Statuses
<1>22. CASE CallFails(w)
  <2>1. UNCHANGED next_ino /\ req[w].pc \in Fallible
    BY <1>22 DEF CallFails
  <2>2. QED
    BY <1>22, <2>1, CallFailsEffect DEF SameTask, SameFile, Fallible
<1>23. QED
  BY <1>2, <1>3, <1>4, <1>5, <1>6, <1>7, <1>8, <1>9, <1>10, <1>11, <1>12, <1>13,
     <1>14, <1>15, <1>16, <1>17, <1>18, <1>19, <1>20, <1>21, <1>22
     DEF WorkerStep, HandlerStep

-----------------------------------------------------------------------------
(* The server uses the two layers only as StagingLayer says: every access  *)
(* of a handler is an operation of the layer or leaves it alone.           *)
LEMMA WorkerRefines ==
  ASSUME ServerInv, NEW w \in Workers, Arrive(w) \/ WorkerStep(w)
  PROVE  ClientStep \/ SyncStep \/ UNCHANGED disk
<1>1. RequestOK(w, req[w])
  BY DEF ServerInv
<1>2. CASE CopyUpHandle(w)
  <2>1. req[w].name \in Names
    BY <1>1, <1>2 DEF CopyUpHandle, At, RequestOK
  <2>2. CopyUp(req[w].name) \/ CopyUpFails(req[w].name) \/ UNCHANGED disk
    BY <1>2 DEF CopyUpHandle
  <2>3. QED
    BY <2>1, <2>2 DEF ClientStep
<1>3. CASE WriteIo(w)
  <2>1. /\ req[w].name \in Names
        /\ req[w].op = "write" => req[w].data \in Writes
    BY <1>1, <1>3 DEF WriteIo, At, RequestOK, Payloads
  <2>2. \/ req[w].op = "write" /\ WriteStaged(req[w].name, req[w].data)
        \/ TruncateStaged(req[w].name)
        \/ UNCHANGED disk
    BY <1>3 DEF WriteIo
  <2>3. QED
    BY <2>1, <2>2 DEF ClientStep
<1>4. CASE Create(w)
  <2>1. req[w].name \in Names /\ CreateFile(req[w].name)
    BY <1>1, <1>4 DEF Create, At, RequestOK, NameOps
  <2>2. QED
    BY <2>1 DEF ClientStep
<1>5. CASE RemoveUpper(w)
  <2>1. req[w].name \in Names
    BY <1>1, <1>5 DEF RemoveUpper, At, RequestOK, NameOps
  <2>2. RemoveStaged(req[w].name) \/ UNCHANGED disk
    BY <1>5 DEF RemoveUpper
  <2>3. QED
    BY <2>1, <2>2 DEF ClientStep
<1>6. CASE RemoveLower(w)
  <2>1. req[w].name \in Names
    BY <1>1, <1>6 DEF RemoveLower, At, RequestOK, NameOps
  <2>2. RemoveCloud(req[w].name) \/ UNCHANGED disk
    BY <1>6 DEF RemoveLower
  <2>3. QED
    BY <2>1, <2>2 DEF ClientStep
<1>7. CASE RenameUpper(w)
  <2>1. req[w].name \in Names /\ req[w].to \in Names
    BY <1>1, <1>7 DEF RenameUpper, At, RequestOK, NameOps
  <2>2. RenameStaged(req[w].name, req[w].to) \/ UNCHANGED disk
    BY <1>7 DEF RenameUpper
  <2>3. QED
    BY <2>1, <2>2 DEF ClientStep
<1>8. CASE RenameLower(w)
  <2>1. req[w].name \in Names /\ req[w].to \in Names
    BY <1>1, <1>8 DEF RenameLower, At, RequestOK, NameOps
  <2>2. \/ RenameCloud(req[w].name, req[w].to)
        \/ SyncCloud(req[w].to, {StubBytes})
        \/ UNCHANGED disk
    BY <1>8 DEF RenameLower
  <2>3. {StubBytes} \in SUBSET Writes
    BY ServerAssumption
  <2>4. QED
    BY <2>1, <2>2, <2>3 DEF ClientStep, SyncStep
<1>9. CASE SetAttr(w)
  <2>1. req[w].name \in Names
    BY <1>1, <1>9 DEF SetAttr, At, RequestOK, NameOps
  <2>2. TruncateStaged(req[w].name) \/ UNCHANGED disk
    BY <1>9 DEF SetAttr
  <2>3. QED
    BY <2>1, <2>2 DEF ClientStep
<1>10. CASE CallFails(w)
  <2>1. req[w].name \in Names
    BY <1>1, <1>10 DEF CallFails, Fallible, RequestOK, NameOps
  <2>2. OperationFails(req[w].name)
    BY <1>10 DEF CallFails
  <2>3. QED
    BY <2>1, <2>2 DEF ClientStep
<1>11. QED
  BY <1>2, <1>3, <1>4, <1>5, <1>6, <1>7, <1>8, <1>9, <1>10
     DEF WorkerStep, HandlerStep,
         Arrive, Resolve, ResolveStub, CheckStaged, Stat, Alloc,
         SetStagedPath, UseHandle, UsePath, Hydrated, HydrateFails, ReadIo,
         FindInode, RemoveInode, RenameCheck, RenameInode, Respond

LEMMA StepRefines ==
  ASSUME ServerInv, [NfsNext]_vars
  PROVE  [Next]_disk
<1>1. ASSUME NEW w \in Workers, Arrive(w) \/ WorkerStep(w)
      PROVE  [Next]_disk
  BY <1>1, WorkerRefines DEF Next
<1>2. ASSUME NEW n \in Names, Evict(n)
      PROVE  [Next]_disk
  BY <1>2 DEF Evict, Next, SyncStep
<1>3. ASSUME NEW n \in Names, Download(n)
      PROVE  [Next]_disk
  <2>1. stub[n] \in SUBSET Writes
    BY <1>3 DEF Download, ServerInv, NfsTypeOK, File
  <2>2. QED
    BY <1>3, <2>1 DEF Download, Next, SyncStep
<1>4. ASSUME NEW n \in Names, TimePasses(n)
      PROVE  [Next]_disk
  BY <1>4 DEF TimePasses, Next
<1>5. CASE Background
  BY <1>5 DEF Background, NewServer, Next, PromoterStep
<1>6. CASE ServerCrash
  BY <1>6 DEF ServerCrash, Next
<1>7. CASE UNCHANGED vars
  BY <1>7 DEF vars
<1>8. QED
  BY <1>1, <1>2, <1>3, <1>4, <1>5, <1>6, <1>7 DEF NfsNext

LEMMA InitRefines == NfsInit => Init
BY DEF NfsInit, Init

-----------------------------------------------------------------------------
(* What a step of a worker may do to the inode table: an entry appears at  *)
(* next_ino only, and one that is gone stays away.                         *)
TableKept ==
  /\ inodes' \in [Inos -> {None} \cup InodeData]
  /\ next_ino' \in next_ino..(MaxIno + 1)
  /\ \A i \in Inos : i >= next_ino' => inodes'[i] = None
  /\ \A i \in Inos : i < next_ino /\ inodes[i] = None => inodes'[i] = None

LEMMA TableSame ==
  ASSUME ServerInv, UNCHANGED Table
  PROVE  TableKept
BY DEF ServerInv, NfsTypeOK, TableKept, Table

LEMMA EntryChanged ==
  ASSUME ServerInv, NEW i \in Inos, inodes[i] # None,
         NEW d \in {None} \cup InodeData, UNCHANGED next_ino,
         inodes' = [inodes EXCEPT ![i] = d]
  PROVE  TableKept
BY DEF ServerInv, NfsTypeOK, TableKept, Inos

LEMMA WorkerTable ==
  ASSUME ServerInv, NEW w \in Workers, Arrive(w) \/ WorkerStep(w)
  PROVE  TableKept
<1>1. /\ req \in [Workers -> Request] /\ RequestOK(w, req[w])
      /\ inodes \in [Inos -> {None} \cup InodeData]
      /\ next_ino \in 2..(MaxIno + 1) /\ next_ino \in Nat
  BY DEF ServerInv, NfsTypeOK
<1>2. \A d \in InodeData, n \in Names, b \in BOOLEAN :
        /\ [d EXCEPT !.staged = n] \in InodeData
        /\ [d EXCEPT !.name = n, !.stub = b] \in InodeData
        /\ d.staged \in Names \cup {None}
        /\ \A t \in Names \cup {None} :
             [name |-> n, stub |-> b, staged |-> t] \in InodeData
  BY DEF InodeData
<1>3. CASE Alloc(w)
  <2> DEFINE isStub == req[w].op = "lookup" /\ req[w].found = "stub"
             i == req'[w].ino
             d == [name |-> req[w].name, stub |-> isStub, staged |-> None]
  <2>1. CASE UNCHANGED Table
    BY <2>1, TableSame
  <2>2. CASE i \in Inos /\ i = next_ino /\ next_ino' = next_ino + 1
             /\ inodes' = [inodes EXCEPT ![i] = d]
    <3>1. req[w].name \in Names
      BY <1>1, <1>3 DEF Alloc, At, RequestOK, Allocators, NameOps
    <3>2. d \in InodeData
      <4>1. isStub \in BOOLEAN
        OBVIOUS
      <4> HIDE DEF isStub
      <4>2. QED
        BY <3>1, <4>1 DEF InodeData
    <3> HIDE DEF d, i
    <3>3. inodes' \in [Inos -> {None} \cup InodeData]
      BY <1>1, <2>2, <3>2
    <3>4. next_ino' \in next_ino..(MaxIno + 1)
      BY <1>1, <2>2, ServerAssumption DEF Inos
    <3>5. \A j \in Inos : j >= next_ino => inodes[j] = None
      BY DEF ServerInv
    <3>6. \A j \in Inos \ {i} : inodes'[j] = inodes[j]
      BY <1>1, <2>2
    <3>7. \A j \in Inos : j >= next_ino' => j # i /\ j >= next_ino
      BY <1>1, <2>2 DEF Inos
    <3>8. \A j \in Inos : j < next_ino => j # i
      BY <1>1, <2>2 DEF Inos
    <3>9. QED
      BY <3>3, <3>4, <3>5, <3>6, <3>7, <3>8 DEF TableKept
  <2>3. QED
    BY <1>1, <1>3, <2>1, <2>2, AllocEffect
<1>4. CASE SetStagedPath(w)
  <2>1. req[w].ino \in Inos /\ req[w].name \in Names
    BY <1>1, <1>4 DEF SetStagedPath, At, RequestOK
  <2> DEFINE i == req[w].ino
             d == [inodes[i] EXCEPT !.staged = req[w].name]
  <2>2. CASE inodes[i] = None
    BY <1>4, <2>2, TableSame DEF SetStagedPath, Table
  <2>3. CASE inodes[i] # None
    <3>1. inodes' = [inodes EXCEPT ![i] = d] /\ UNCHANGED next_ino
      BY <1>1, <1>4, <2>1, <2>3 DEF SetStagedPath
    <3>2. d \in InodeData
      BY <1>1, <1>2, <2>1, <2>3
    <3> HIDE DEF d
    <3>3. QED
      BY <2>1, <2>3, <3>1, <3>2, EntryChanged
  <2>4. QED
    BY <2>2, <2>3
<1>5. CASE Hydrated(w)
  <2>1. req[w].ino \in Inos /\ req[w].name \in Names
    BY <1>1, <1>5 DEF Hydrated, At, RequestOK, ByHandle
  <2> DEFINE i == req[w].ino
             d == [inodes[i] EXCEPT !.name = req[w].name, !.stub = FALSE]
  <2>2. CASE inodes[i] = None
    BY <1>5, <2>2, TableSame DEF Hydrated, SetRealPath, Table
  <2>3. CASE inodes[i] # None
    <3>1. inodes' = [inodes EXCEPT ![i] = d] /\ UNCHANGED next_ino
      BY <1>1, <1>5, <2>1, <2>3 DEF Hydrated, SetRealPath
    <3>2. d \in InodeData
      BY <1>1, <1>2, <2>1, <2>3
    <3> HIDE DEF d
    <3>3. QED
      BY <2>1, <2>3, <3>1, <3>2, EntryChanged
  <2>4. QED
    BY <2>2, <2>3
<1>6. CASE RemoveInode(w)
  <2>1. inodes' = [inodes EXCEPT ![req[w].ino] = None] /\ UNCHANGED next_ino
    BY <1>6 DEF RemoveInode
  <2>2. req[w].ino \in Inos
    BY <1>1, <1>6 DEF RemoveInode, At, RequestOK
  <2>3. CASE inodes[req[w].ino] = None
    <3>1. inodes' = inodes
      BY <1>1, <2>1, <2>2, <2>3
    <3>2. QED
      BY <2>1, <3>1, TableSame DEF Table
  <2>4. CASE inodes[req[w].ino] # None
    BY <2>1, <2>2, <2>4, EntryChanged
  <2>5. QED
    BY <2>3, <2>4
<1>7. CASE RenameInode(w)
  <2> DEFINE r == req[w]
             d(i) == [name |-> r.to, stub |-> FALSE,
                      staged |-> IF r.up THEN r.to ELSE inodes[i].staged]
  <2>1. \/ UNCHANGED inodes
        \/ \E i \in InodesOf(r.name) : inodes' = [inodes EXCEPT ![i] = d(i)]
    BY <1>7 DEF RenameInode
  <2>2. UNCHANGED next_ino /\ r.to \in Names
    BY <1>1, <1>7 DEF RenameInode, At, RequestOK
  <2>3. CASE UNCHANGED inodes
    BY <2>2, <2>3, TableSame DEF Table
  <2>4. ASSUME NEW i \in InodesOf(r.name), inodes' = [inodes EXCEPT ![i] = d(i)]
        PROVE  TableKept
    <3>1. i \in Inos /\ inodes[i] # None
      BY DEF InodesOf, InodesAt
    <3>2. d(i) \in InodeData
      BY <1>1, <1>2, <2>2, <3>1
    <3> HIDE DEF d
    <3>3. QED
      BY <2>2, <2>4, <3>1, <3>2, EntryChanged
  <2>5. QED
    BY <2>1, <2>3, <2>4
<1>8. QED
  BY <1>3, <1>4, <1>5, <1>6, <1>7, TableSame
     DEF WorkerStep, HandlerStep,
         Arrive, Resolve, ResolveStub, CheckStaged, Stat, UseHandle,
         UsePath, HydrateFails, CopyUpHandle, WriteIo, ReadIo, Create, SetAttr,
         RemoveUpper, RemoveLower, FindInode, RenameCheck, RenameUpper, RenameLower,
         CallFails, Respond, Table

(* The history variables and the placeholders keep their types, and a      *)
(* handler never makes a placeholder.                                      *)
HistKept ==
  /\ safe' \in [Names -> SUBSET Writes]
  /\ due' \in [Workers -> SUBSET Writes]
  /\ stub' \in [Names -> File]
  /\ \A n \in Names : stub'[n] \in {None, stub[n]}

LEMMA WorkerHist ==
  ASSUME ServerInv, NEW w \in Workers, Arrive(w) \/ WorkerStep(w)
  PROVE  HistKept
<1>1. /\ RequestOK(w, req[w])
      /\ safe \in [Names -> SUBSET Writes] /\ due \in [Workers -> SUBSET Writes]
      /\ stub \in [Names -> File]
      /\ inodes \in [Inos -> {None} \cup InodeData]
  BY DEF ServerInv, NfsTypeOK
<1>2. CASE UNCHANGED hist /\ UNCHANGED stub
  BY <1>1, <1>2 DEF HistKept, hist
<1>3. ASSUME NEW S, Replaced(S), UNCHANGED stub
      PROVE  HistKept
  BY <1>1, <1>3 DEF HistKept, Replaced
<1>4. CASE UseHandle(w)
  <2>1. req[w].ino \in Inos /\ UNCHANGED <<safe, stub>>
    BY <1>1, <1>4 DEF UseHandle, At, RequestOK, ByHandle
  <2>2. UNCHANGED due \/ \E S \in SUBSET Writes : due' = [due EXCEPT ![w] = S]
    <3> DEFINE d == inodes[req[w].ino]
               S == IF req[w].op = "read" THEN safe[d.name] ELSE {}
    <3>1. d # None => d.name \in Names
      BY <1>1, <2>1 DEF InodeData
    <3>2. d # None => S \in SUBSET Writes
      BY <1>1, <3>1
    <3>3. d # None => due' = [due EXCEPT ![w] = S]
      BY <1>4 DEF UseHandle
    <3>4. d = None => UNCHANGED due
      BY <1>4 DEF UseHandle
    <3> HIDE DEF d, S
    <3>5. QED
      BY <3>2, <3>3, <3>4
  <2>3. QED
    BY <1>1, <2>1, <2>2 DEF HistKept
<1>5. CASE CopyUpHandle(w)
  BY <1>2, <1>3, <1>5 DEF CopyUpHandle
<1>6. CASE WriteIo(w)
  <2>1. CASE req[w].op = "write" /\ req[w].data \in Writes /\ UNCHANGED <<due, stub>>
             /\ \/ safe' = safe
                \/ safe' = [safe EXCEPT ![req[w].name] = @ \cup {req[w].data}]
    BY <1>1, <2>1 DEF HistKept
  <2>2. req[w].op = "write" => req[w].data \in Writes
    BY <1>1, <1>6 DEF WriteIo, At, RequestOK, Payloads
  <2>3. QED
    BY <1>2, <1>3, <1>6, <2>1, <2>2 DEF WriteIo
<1>7. CASE Create(w) \/ RemoveUpper(w) \/ RenameCheck(w)
  BY <1>3, <1>7 DEF Create, RemoveUpper, RenameCheck
<1>8. CASE Respond(w)
  BY <1>1, <1>8 DEF Respond, HistKept
<1>9. CASE RemoveLower(w) \/ RenameLower(w)
  <2>1. UNCHANGED hist /\ \/ UNCHANGED stub
                          \/ stub' = [stub EXCEPT ![req[w].name] = None]
    BY <1>9 DEF RemoveLower, RenameLower
  <2>2. QED
    BY <1>1, <2>1 DEF HistKept, hist, File
<1>10. CASE SetAttr(w)
  BY <1>2, <1>3, <1>10 DEF SetAttr
<1>11. QED
  BY <1>2, <1>4, <1>5, <1>6, <1>7, <1>8, <1>9, <1>10
     DEF WorkerStep, HandlerStep,
         Arrive, Resolve, ResolveStub, CheckStaged, Stat, Alloc,
         SetStagedPath, UsePath, Hydrated, HydrateFails, ReadIo, FindInode,
         RemoveInode, RenameUpper, RenameInode, CallFails

-----------------------------------------------------------------------------
(* The restart: fileids from 2 on for the files that are still staged.     *)
LEMMA NewServerInv ==
  ASSUME ServerInv, NewServer
  PROVE  /\ inodes' \in [Inos -> {None} \cup InodeData]
         /\ next_ino' \in 2..(MaxIno + 1)
         /\ \A i \in Inos : i >= next_ino' => inodes'[i] = None
<1> DEFINE left == {n \in Names : staged[n] # None}
           c == Cardinality(left)
<1>1. left \in SUBSET Names /\ c \in Nat /\ c < MaxIno
  BY FS_Subset, FS_CardinalityType, ServerAssumption
<1>2. PICK f \in [left -> 2..(c + 1)] :
        /\ inodes' = [i \in Inos |->
             IF \E n \in left : f[n] = i
             THEN LET n == CHOOSE m \in left : f[m] = i IN
                  [name |-> n, stub |-> FALSE, staged |-> n]
             ELSE None]
        /\ next_ino' = 2 + c
  BY DEF NewServer, NextIno
<1> HIDE DEF c, left
<1>3. next_ino' \in 2..(MaxIno + 1)
  BY <1>1, <1>2, ServerAssumption
<1>4. ASSUME NEW i \in Inos
      PROVE  /\ inodes'[i] \in {None} \cup InodeData
             /\ i >= next_ino' => inodes'[i] = None
  <2>1. CASE \E n \in left : f[n] = i
    <3> DEFINE n == CHOOSE m \in left : f[m] = i
    <3>1. n \in left /\ f[n] = i
      BY <2>1
    <3>2. inodes'[i] = [name |-> n, stub |-> FALSE, staged |-> n]
      BY <1>2, <2>1
    <3> HIDE DEF n
    <3>3. n \in Names /\ i < next_ino'
      BY <1>1, <1>2, <3>1
    <3>4. inodes'[i] \in InodeData
      BY <3>2, <3>3 DEF InodeData
    <3>5. QED
      BY <1>1, <1>2, <3>3, <3>4 DEF Inos
  <2>2. CASE ~\E n \in left : f[n] = i
    BY <1>2, <2>2
  <2>3. QED
    BY <2>1, <2>2
<1>5. DOMAIN inodes' = Inos /\ inodes' = [i \in Inos |-> inodes'[i]]
  BY <1>2
<1>6. QED
  BY <1>3, <1>4, <1>5

LEMMA FirstFileid == 2 \in 2..(MaxIno + 1)
<1>1. Cardinality(Names) \in Nat
  BY FS_CardinalityType, ServerAssumption
<1>2. QED
  BY <1>1, ServerAssumption

(* ServerInv is inductive.                                                 *)
LEMMA ServerInvInit == NfsInit => ServerInv
<1> SUFFICES ASSUME NfsInit PROVE ServerInv
  OBVIOUS
<1>1. TypeOK
  BY InitRefines, LayerInitType
<1>2. stub \in [Names -> {None, {}}] /\ \A n \in Names : stub[n] # None => Evictions
  BY DEF NfsInit
<1>3. \A n \in Names : stub[n] \in File /\ stub[n] # Torn
  BY <1>2, LayerAssumption DEF File
<1>4. stub \in [Names -> File]
  BY <1>2, <1>3
<1>5. \A w \in Workers : req[w] = Idle
  BY DEF NfsInit
<1>6. Idle.pc = "idle" /\ Idle.ino = None
  BY DEF Idle
<1>7. safe \in [Names -> SUBSET Writes]
  BY DEF NfsInit, Payloads
<1>8. NfsTypeOK
  BY <1>1, <1>4, <1>7, IdleRequest, FirstFileid DEF NfsInit, NfsTypeOK
<1>9. \A w \in Workers : RequestOK(w, req[w])
  BY <1>5, <1>6 DEF RequestOK, ByHandle
<1>10. QED
  BY <1>2, <1>3, <1>5, <1>6, <1>8, <1>9, ServerAssumption
     DEF ServerInv, NfsInit, At

(* A worker never stops or starts the server.                              *)
LEMMA WorkerServing ==
  ASSUME ServerInv, NEW w \in Workers, Arrive(w) \/ WorkerStep(w)
  PROVE  prom'.boot = prom.boot
<1>1. CASE ClientStep \/ SyncStep
  <2>1. UNCHANGED prom \/ \E S : Touch(S)
    BY <1>1 DEF ClientStep, SyncStep, OperationFails, CopyUp, CopyUpFails, CreateFile, WriteStaged,
                TruncateStaged, RemoveStaged, SetStaged, RenameStaged, RemoveCloud,
                RenameCloud, SyncCloud
  <2>2. QED
    BY <2>1, TouchKeepsPromoter DEF ServerInv, NfsTypeOK
<1>2. CASE UNCHANGED disk
  BY <1>2 DEF disk
<1>3. QED
  BY <1>1, <1>2, WorkerRefines

LEMMA ServerInvStep ==
  ASSUME ServerInv, [NfsNext]_vars
  PROVE  ServerInv'
<1>1. TypeOK'
  BY StepRefines, LayerTypeStep DEF ServerInv, NfsTypeOK
<1>2. ASSUME NEW w \in Workers, Arrive(w) \/ WorkerStep(w)
      PROVE  ServerInv'
  <2>1. Progress(w) /\ TableKept /\ HistKept
    BY <1>2, WorkerProgress, WorkerTable, WorkerHist
  <2>2. prom'.boot = prom.boot
    BY <1>2, WorkerServing
  <2>3. NfsTypeOK'
    BY <1>1, <2>1, ServerAssumption
       DEF Progress, Keeps, TableKept, HistKept, NfsTypeOK, ServerInv
  <2>4. ASSUME NEW v \in Workers
        PROVE  /\ RequestOK(v, req'[v])
               /\ req'[v].pc # "idle" => Serving'
               /\ req'[v].ino \in Inos => req'[v].ino < next_ino'
    <3>1. CASE v = w
      BY <2>1, <2>2, <3>1 DEF Progress, TableKept, ServerInv, NfsTypeOK, Serving, Inos
    <3>2. CASE v # w
      BY <2>1, <2>2, <3>2
         DEF Progress, Keeps, TableKept, ServerInv, NfsTypeOK, Serving, Inos, At
    <3>3. QED
      BY <3>1, <3>2
  <2>5. \A n \in Names : stub'[n] # Torn /\ (stub'[n] # None => Evictions)
    BY <2>1, LayerAssumption DEF HistKept, ServerInv
  <2>6. \A v \in Workers : RequestOK(v, req[v])'
    BY <2>4 DEF RequestOK
  <2>7. QED
    BY <2>1, <2>3, <2>4, <2>5, <2>6 DEF ServerInv, At, TableKept
<1>3. ASSUME NEW n \in Names, Evict(n) \/ Download(n) \/ TimePasses(n)
      PROVE  ServerInv'
  <2>1. UNCHANGED <<inodes, next_ino, req, safe, due>> /\ prom'.boot = prom.boot
    BY <1>3, TouchKeepsPromoter
       DEF Evict, Download, TimePasses, Age, nfs, SyncCloud, Table, hist,
           ServerInv, NfsTypeOK
  <2>2. \/ UNCHANGED stub
        \/ stub' = [stub EXCEPT ![n] = None]
        \/ stub' = [stub EXCEPT ![n] = cloud[n]] /\ cloud[n] # Torn /\ Evictions
    BY <1>3 DEF Evict, Download, TimePasses, nfs
  <2>3. stub' \in [Names -> File]
        /\ \A m \in Names : stub'[m] # Torn /\ (stub'[m] # None => Evictions)
    BY <2>2, LayerAssumption DEF ServerInv, NfsTypeOK, TypeOK, File
  <2>4. QED
    BY <1>1, <2>1, <2>3 DEF ServerInv, NfsTypeOK, At, Serving, RequestOK
<1>4. CASE Background
  <2>1. CASE NewServer
    <3>1. \A w \in Workers : req[w].pc = "idle"
      BY <2>1 DEF NewServer, ServerInv, Serving, At
    <3>2. UNCHANGED <<stub, req, safe, due>>
      BY <2>1 DEF NewServer, hist
    <3>3. \A w \in Workers : req[w].ino \notin Inos
      BY <3>1, ServerAssumption DEF ServerInv, RequestOK, Idle
    <3>4. QED
      BY <1>1, <3>1, <3>2, <3>3, <2>1, NewServerInv
         DEF ServerInv, NfsTypeOK, At, RequestOK
  <2>2. CASE PromoterStep /\ UNCHANGED nfs
    <3>1. prom.boot = FALSE => prom'.boot = FALSE
      BY <2>2 DEF PromoterStep, StartWalk, EndWalk, SkipFresh, SkipVanished, Select,
           Taken, Copy, CopyMissing, CopyFails, OnError, NextEntry, Publish, Unlink,
           PromotionFails, ServerInv, NfsTypeOK, TypeOK, Promoter
    <3>2. QED
      BY <1>1, <2>2, <3>1 DEF ServerInv, NfsTypeOK, At, Serving, nfs, TypeOK, Promoter,
           RequestOK
  <2>3. QED
    BY <1>4, <2>1, <2>2 DEF Background
<1>5. CASE ServerCrash
  <2>1. /\ req' = [w \in Workers |-> Idle] /\ due' = [w \in Workers |-> {}]
        /\ inodes' = [i \in Inos |-> None] /\ next_ino' = 2
        /\ UNCHANGED stub
    BY <1>5 DEF ServerCrash
  <2>2. safe' \in [Names -> SUBSET Writes]
    BY <1>5 DEF ServerCrash, ServerInv, NfsTypeOK
  <2>3. Idle.pc = "idle" /\ Idle.ino = None
    BY DEF Idle
  <2>4. Idle \in Request /\ None \notin Inos /\ 2 \in 2..(MaxIno + 1)
    BY FirstFileid, IdleRequest, ServerAssumption
  <2>5. NfsTypeOK'
    BY <1>1, <2>1, <2>2, <2>4 DEF NfsTypeOK, ServerInv
  <2>6. \A w \in Workers : RequestOK(w, req[w])'
    BY <2>1, <2>3 DEF RequestOK, ByHandle
  <2>7. QED
    BY <2>1, <2>3, <2>4, <2>5, <2>6 DEF ServerInv, At
<1>6. CASE UNCHANGED vars
  BY <1>1, <1>6 DEF vars, nfs, disk, At, Serving, ServerInv, NfsTypeOK, RequestOK
<1>7. QED
  BY <1>2, <1>3, <1>4, <1>5, <1>6 DEF NfsNext

-----------------------------------------------------------------------------
(* Every request is well formed at every point of its handler, runs only   *)
(* while the server does and on a fileid that it has given out, and no     *)
(* fileid means a file before it is given out.                             *)
THEOREM ServerInvariant == NfsSpec => []ServerInv
BY ServerInvInit, ServerInvStep, PTL DEF NfsSpec

(* The request handlers, evictions, crashes and restarts use the layers    *)
(* only through the operations of StagingLayer: every step of the server   *)
(* is a step of the staging layer or leaves it alone.                      *)
THEOREM ServerImplementsLayer == NfsSpec => ImplementsLayer
<1>1. NfsInit => Init
  BY InitRefines
<1>2. ServerInv /\ [NfsNext]_vars => [Next]_disk
  BY StepRefines
<1>3. QED
  BY <1>1, <1>2, ServerInvariant, PTL DEF NfsSpec, ImplementsLayer, Spec

(* What is proved of the staging layer therefore holds of the server: a    *)
(* promotion changes what a client finds only if a request changed that    *)
(* very file while it was being promoted ...                               *)
THEOREM ServerPromotionInvisible == NfsSpec => PromotionInvisible
BY ServerImplementsLayer, LayerPromotionInvisible, PTL DEF ImplementsLayer

(* ... and iCloud receives whole snapshots of staged files.                *)
THEOREM ServerSnapshotPublished == NfsSpec => SnapshotPublished
BY ServerImplementsLayer, LayerSnapshotPublished, PTL DEF ImplementsLayer

-----------------------------------------------------------------------------
(* While nothing is renamed, a handler that waits for a hydration still    *)
(* knows the name of its inode.                                            *)
HydrateInv ==
  Renames \/ \A w \in Workers : At(w, "hydrate") =>
    inodes[req[w].ino] = None \/ inodes[req[w].ino].name = req[w].name

NamesKept ==
  Renames \/ \A i \in Inos : inodes[i] # None =>
    inodes'[i] = None \/ inodes'[i].name = inodes[i].name

LEMMA WorkerNames ==
  ASSUME ServerInv, HydrateInv, NEW w \in Workers, Arrive(w) \/ WorkerStep(w)
  PROVE  NamesKept
<1>1. /\ req \in [Workers -> Request] /\ RequestOK(w, req[w])
      /\ inodes \in [Inos -> {None} \cup InodeData] /\ next_ino \in Nat
  BY DEF ServerInv, NfsTypeOK
<1> SUFFICES ASSUME ~Renames, NEW j \in Inos, inodes[j] # None
             PROVE  inodes'[j] = None \/ inodes'[j].name = inodes[j].name
  BY DEF NamesKept
<1>2. inodes[j] \in InodeData /\ j < next_ino /\ next_ino # j
  BY <1>1 DEF ServerInv, Inos
<1>3. CASE Alloc(w)
  BY <1>1, <1>2, <1>3, AllocEffect DEF Table
<1>4. CASE SetStagedPath(w)
  <2>1. req[w].ino \in Inos
    BY <1>1, <1>4 DEF SetStagedPath, At, RequestOK
  <2>2. [inodes[j] EXCEPT !.staged = req[w].name].name = inodes[j].name
    BY <1>2 DEF InodeData
  <2>3. \/ inodes' = inodes
        \/ inodes' = [inodes EXCEPT ![req[w].ino] =
                        [inodes[req[w].ino] EXCEPT !.staged = req[w].name]]
    BY <1>1, <1>4, <2>1 DEF SetStagedPath
  <2>4. QED
    BY <1>1, <2>1, <2>2, <2>3
<1>5. CASE Hydrated(w)
  <2>1. req[w].ino \in Inos /\ At(w, "hydrate")
    BY <1>1, <1>5 DEF Hydrated, At, RequestOK, ByHandle
  <2>2. [inodes[j] EXCEPT !.name = req[w].name, !.stub = FALSE].name = req[w].name
    BY <1>2 DEF InodeData
  <2>3. \/ inodes' = inodes
        \/ inodes' = [inodes EXCEPT ![req[w].ino] =
              [inodes[req[w].ino] EXCEPT !.name = req[w].name, !.stub = FALSE]]
    BY <1>1, <1>5, <2>1 DEF Hydrated, SetRealPath
  <2>4. j = req[w].ino => inodes[j].name = req[w].name
    BY <2>1 DEF HydrateInv
  <2>5. QED
    BY <1>1, <2>1, <2>2, <2>3, <2>4
<1>6. CASE RemoveInode(w)
  BY <1>1, <1>6 DEF RemoveInode
<1>7. CASE RenameInode(w)
  BY <1>1, <1>7 DEF RenameInode, At, RequestOK, Renames
<1>8. QED
  BY <1>3, <1>4, <1>5, <1>6, <1>7
     DEF WorkerStep, HandlerStep,
         Arrive, Resolve, ResolveStub, CheckStaged, Stat, UseHandle,
         UsePath, HydrateFails, CopyUpHandle, WriteIo, ReadIo, Create, SetAttr,
         RemoveUpper, RemoveLower, FindInode, RenameCheck, RenameUpper, RenameLower,
         CallFails, Respond, Table

(* A handler waits for a hydration because of what it has just read.       *)
LEMMA EntersHydrate ==
  ASSUME ServerInv, NEW w \in Workers, Arrive(w) \/ WorkerStep(w),
         req'[w].pc = "hydrate"
  PROVE  UsePath(w)
<1>1. /\ req \in [Workers -> Request] /\ RequestOK(w, req[w])
      /\ inodes \in [Inos -> {None} \cup InodeData]
      /\ next_ino \in 2..(MaxIno + 1) /\ next_ino \in Nat
      /\ staged \in [Names -> File] /\ cloud \in [Names -> File]
  BY DEF ServerInv, NfsTypeOK, TypeOK
<1> USE <1>1
<1>2. CASE Arrive(w)
  <2>1. req'[w].op \in NameOps \cup HandleOps /\ req'[w].pc = FirstPc[req'[w].op]
    BY <1>2, ArriveEffect, ServerAssumption
  <2>2. QED
    BY <2>1 DEF FirstPc, NameOps, HandleOps
<1>3. CASE Resolve(w) \/ ResolveStub(w)
  <2>1. req[w].op \in ByName
    BY <1>3 DEF Resolve, ResolveStub, At, RequestOK
  <2>2. Goto(w, "resolve_stub") \/ \E f \in Paths : Resolved(w, f)
    BY <1>3 DEF Resolve, ResolveStub, Paths
  <2>3. CASE Goto(w, "resolve_stub")
    BY <2>3, GotoEffect DEF Pcs
  <2>4. ASSUME NEW f \in Paths, Resolved(w, f)
        PROVE  FALSE
    BY <2>1, <2>4, ResolvedEffect DEF IfFound, IfMissing, ByName
  <2>5. QED
    BY <2>2, <2>3, <2>4
<1>4. CASE CheckStaged(w)
  <2>1. req[w].op \in {"lookup", "exclusive"}
    BY <1>4 DEF CheckStaged, At, RequestOK
  <2>2. QED
    BY <1>4, <2>1, CheckStagedEffect
<1>5. CASE UseHandle(w)
  <2>1. req[w].ino \in Inos
    BY <1>5 DEF UseHandle, At, RequestOK, ByHandle
  <2>2. QED
    BY <1>5, <2>1, UseHandleEffect
<1>6. CASE ReadIo(w)
  <2>1. req[w].name \in Names
    BY <1>6 DEF ReadIo, At, RequestOK
  <2>2. QED
    BY <1>6, <2>1, ReadIoEffect
<1>7. CASE Alloc(w) \/ SetStagedPath(w) \/ Create(w) \/ FindInode(w)
           \/ RenameCheck(w) \/ CallFails(w)
  BY <1>7, AllocEffect, SetStagedEffect, CreateEffect, FindInodeEffect,
     RenameCheckEffect, CallFailsEffect
<1>8. CASE Respond(w)
  BY <1>8, IdleRequest, BecomeEffect DEF Respond, Idle
<1>9. CASE \/ \E p \in Pcs \ {"hydrate"} : Goto(w, p)
           \/ \E t \in Statuses : Reply(w, t)
  BY <1>9, GotoEffect, ReplyEffect
<1>10. QED
  <2>1. {"alloc", "io", "copy_up", "set_staged", "resolve", "remove_inode",
         "rename_inode"} \subseteq Pcs \ {"hydrate"}
    BY DEF Pcs
  <2>2. "ok" \in Statuses /\ "io" \in Statuses /\ "noent" \in Statuses
    BY DEF Statuses
  <2>3. QED
    BY <1>2, <1>3, <1>4, <1>5, <1>6, <1>7, <1>8, <1>9, <2>1, <2>2
       DEF WorkerStep, HandlerStep,
           Stat, Hydrated, HydrateFails, CopyUpHandle, WriteIo, SetAttr,
           RemoveUpper, RemoveLower, RemoveInode, RenameUpper, RenameLower,
           RenameInode

LEMMA HydrateStep ==
  ASSUME ServerInv, HydrateInv, [NfsNext]_vars
  PROVE  HydrateInv'
<1> SUFFICES ASSUME ~Renames, NEW v \in Workers, req'[v].pc = "hydrate"
             PROVE  \/ inodes'[req'[v].ino] = None
                    \/ inodes'[req'[v].ino].name = req'[v].name
  BY DEF HydrateInv, At, Renames
<1> USE DEF At
<1>1. CASE UNCHANGED <<inodes, req>>
  BY <1>1 DEF HydrateInv
<1>2. ASSUME NEW w \in Workers, Arrive(w) \/ WorkerStep(w)
      PROVE  \/ inodes'[req'[v].ino] = None
             \/ inodes'[req'[v].ino].name = req'[v].name
  <2>1. Progress(w) /\ TableKept /\ NamesKept
    BY <1>2, WorkerProgress, WorkerTable, WorkerNames
  <2>2. CASE v = w
    <3>1. UsePath(w)
      BY <1>2, <2>2, EntersHydrate
    <3>2. req[w].ino \in Inos
      BY <3>1 DEF UsePath, ServerInv, RequestOK, ByHandle
    <3>3. QED
      BY <2>2, <3>1, <3>2, UsePathEffect DEF UsePath, ServerInv, NfsTypeOK, Table
  <2>3. CASE v # w
    <3>1. req'[v] = req[v]
      BY <2>1, <2>3 DEF Progress, Keeps
    <3>2. req[v].ino \in Inos /\ req[v].ino < next_ino
      BY <3>1 DEF ServerInv, RequestOK, ByHandle
    <3>3. QED
      BY <2>1, <3>1, <3>2 DEF TableKept, NamesKept, HydrateInv
  <2>4. QED
    BY <2>2, <2>3
<1>3. CASE NewServer
  BY <1>3 DEF NewServer, ServerInv, Serving
<1>4. CASE ServerCrash
  BY <1>4 DEF ServerCrash, Idle
<1>5. QED
  BY <1>1, <1>2, <1>3, <1>4
     DEF NfsNext, Evict, Download, TimePasses, Background, nfs, Table, vars

(* A fileid that the server has given out means one name as long as it     *)
(* means anything, and nothing after its file was removed: allocation      *)
(* takes numbers that were never used, a lookup, a create or a hydration   *)
(* that finishes late finds the table again under the lock, and a restart  *)
(* gives numbers of their own to the files it finds staged.  With renames  *)
(* only the second half holds.                                             *)
THEOREM ServerFileidsNotReused == NfsSpec => FileidsNotReused
<1>1. NfsInit => HydrateInv
  BY DEF NfsInit, HydrateInv, At, Idle
<1>2. ServerInv /\ HydrateInv /\ [NfsNext]_vars => HydrateInv'
  BY HydrateStep
<1>3. ASSUME ServerInv, HydrateInv, [NfsNext]_vars
      PROVE  [FileidStep]_vars
  <2>1. ASSUME NEW w \in Workers, Arrive(w) \/ WorkerStep(w)
        PROVE  FileidStep
    <3>1. TableKept /\ NamesKept
      BY <1>3, <2>1, WorkerTable, WorkerNames
    <3>2. QED
      BY <3>1 DEF TableKept, NamesKept, FileidStep
  <2>2. CASE UNCHANGED inodes
    BY <2>2 DEF FileidStep
  <2>3. CASE NewServer
    BY <2>3 DEF NewServer, FileidStep, Serving
  <2>4. CASE ServerCrash
    BY <2>4 DEF ServerCrash, Crash, Starting, FileidStep, Serving
  <2>5. CASE UNCHANGED vars
    BY <2>5
  <2>6. QED
    BY <1>3, <2>1, <2>2, <2>3, <2>4, <2>5
       DEF NfsNext, Evict, Download, TimePasses, Background, nfs, Table
<1>4. QED
  BY <1>1, <1>2, <1>3, ServerInvariant, PTL DEF NfsSpec, FileidsNotReused

-----------------------------------------------------------------------------
(* Placeholder bytes stay out of both layers, the temporary files, what a  *)
(* placeholder stands for and the replies, as long as no client renames    *)
(* files of a directory that macOS evicts from: rename gives the           *)
(* placeholder itself the plain new name (icloud_nfs.rs, resolve_child's   *)
(* result is what it renames).                                             *)
NoStubRenames == ~Evictions \/ \A w \in Workers : "rename" \notin Ops[w]

Clean(c) == c \in {None, Torn} \/ StubBytes \notin c

DiskClean == \A n \in Names : Clean(staged[n]) /\ Clean(cloud[n]) /\ Clean(tmp[n])

PlaceholderInv == /\ DiskClean
                  /\ \A n \in Names : Clean(stub[n])
                  /\ \A w \in Workers : Clean(req[w].bytes)

LEMMA PlaceholderInit == NfsInit => PlaceholderInv
<1>1. Idle.bytes = None /\ \A c \in {None, {}, Torn, Payloads} : Clean(c)
  BY DEF Idle, Clean, Payloads
<1>2. SUFFICES ASSUME NfsInit PROVE PlaceholderInv
  OBVIOUS
<1>3. ASSUME NEW n \in Names
      PROVE  {staged[n], cloud[n], stub[n], tmp[n]} \subseteq {None, {}, Torn, Payloads}
  BY <1>2, <1>3 DEF NfsInit, Init
<1>4. \A w \in Workers : req[w].bytes = None
  BY <1>1, <1>2 DEF NfsInit
<1>5. QED
  BY <1>1, <1>3, <1>4 DEF PlaceholderInv, DiskClean

(* The handlers move clean bytes only.                                     *)
LEMMA WorkerKeepsDiskClean ==
  ASSUME ServerInv, DiskClean, NoStubRenames,
         NEW w \in Workers, Arrive(w) \/ WorkerStep(w)
  PROVE  DiskClean'
<1>1. /\ RequestOK(w, req[w]) /\ tmp' = tmp
      /\ staged \in [Names -> File] /\ cloud \in [Names -> File]
  <2>1. CASE ClientStep \/ SyncStep
    BY <2>1, ClientStepsTouch DEF ServerInv, NfsTypeOK, TypeOK
  <2>2. CASE UNCHANGED disk
    BY <2>2 DEF disk, ServerInv, NfsTypeOK, TypeOK
  <2>3. QED
    BY <2>1, <2>2, WorkerRefines DEF ServerInv, NfsTypeOK, TypeOK
<1>2. Clean(None) /\ Clean(Torn) /\ Clean({})
  BY DEF Clean
<1>3. CASE UNCHANGED disk
  BY <1>3 DEF DiskClean, disk
<1>4. ASSUME NEW n \in Names, NEW c, SetStaged(n, c), Clean(c)
      PROVE  DiskClean'
  BY <1>1, <1>4 DEF SetStaged, DiskClean
<1>5. CASE CopyUpHandle(w)
  BY <1>1, <1>2, <1>3, <1>5 DEF CopyUpHandle, CopyUp, CopyUpFails, DiskClean
<1>6. CASE WriteIo(w)
  <2> DEFINE n == req[w].name
  <2>1. n \in Names /\ (req[w].op = "write" => req[w].data # StubBytes)
    BY <1>1, <1>6 DEF WriteIo, At, RequestOK, Payloads
  <2>2. CASE req[w].op = "write" /\ WriteStaged(n, req[w].data)
    <3>1. Clean(staged[n]) /\ staged[n] # None
      BY <2>1, <2>2 DEF DiskClean, WriteStaged
    <3>2. Clean(Written(staged[n], req[w].data))
      BY <2>1, <2>2, <3>1 DEF Clean, Written
    <3>3. QED
      BY <1>4, <2>1, <2>2, <3>2 DEF WriteStaged
  <2>3. CASE TruncateStaged(n)
    BY <1>2, <1>4, <2>1, <2>3 DEF TruncateStaged
  <2>4. QED
    BY <1>3, <1>6, <2>2, <2>3 DEF WriteIo
<1>7. CASE Create(w) \/ SetAttr(w) \/ RemoveUpper(w)
  <2>1. req[w].name \in Names
    BY <1>1, <1>7 DEF Create, SetAttr, RemoveUpper, At, RequestOK, NameOps
  <2>2. QED
    BY <1>2, <1>3, <1>4, <1>7, <2>1
       DEF Create, CreateFile, SetAttr, TruncateStaged, RemoveUpper, RemoveStaged
<1>8. CASE RemoveLower(w)
  BY <1>1, <1>2, <1>3, <1>8 DEF RemoveLower, RemoveCloud, DiskClean
<1>9. CASE RenameUpper(w)
  <2>1. req[w].name \in Names /\ req[w].to \in Names
    BY <1>1, <1>9 DEF RenameUpper, At, RequestOK, NameOps
  <2>2. CASE RenameStaged(req[w].name, req[w].to)
    BY <1>1, <1>2, <2>1, <2>2 DEF RenameStaged, DiskClean
  <2>3. QED
    BY <1>3, <1>9, <2>2 DEF RenameUpper
<1>10. CASE RenameLower(w)
  <2>1. /\ req[w].name \in Names /\ req[w].to \in Names
        /\ req[w].op = "rename" /\ "rename" \in Ops[w]
    BY <1>1, <1>10 DEF RenameLower, At, RequestOK, NameOps
  <2>2. stub[req[w].name] = None
    BY <2>1 DEF NoStubRenames, ServerInv
  <2>3. CASE RenameCloud(req[w].name, req[w].to)
    BY <1>1, <1>2, <2>1, <2>3 DEF RenameCloud, DiskClean
  <2>4. QED
    BY <1>3, <1>10, <2>2, <2>3 DEF RenameLower
<1>11. CASE CallFails(w)
  BY <1>11 DEF CallFails, OperationFails, DiskClean
<1>12. QED
  BY <1>3, <1>5, <1>6, <1>7, <1>8, <1>9, <1>10, <1>11
     DEF WorkerStep, HandlerStep,
         Arrive, Resolve, ResolveStub, CheckStaged, Stat, Alloc,
         SetStagedPath, UseHandle, UsePath, Hydrated, HydrateFails, ReadIo,
         FindInode, RemoveInode, RenameCheck, RenameInode, Respond

(* Only a read, a creation and the end of a request bear on its result.    *)
LEMMA ResultKept ==
  ASSUME ServerInv, NEW w \in Workers, WorkerStep(w),
         ~Respond(w), ~ReadIo(w), ~Create(w)
  PROVE  SameResult(w)
<1>1. /\ req \in [Workers -> Request] /\ RequestOK(w, req[w])
      /\ next_ino \in 2..(MaxIno + 1) /\ next_ino \in Nat
      /\ inodes \in [Inos -> {None} \cup InodeData]
  BY DEF ServerInv, NfsTypeOK
<1> USE <1>1
<1>2. CASE Resolve(w) \/ ResolveStub(w)
  <2>1. req[w].op \in ByName
    BY <1>2 DEF Resolve, ResolveStub, At, RequestOK
  <2>2. Goto(w, "resolve_stub") \/ \E f \in Paths : Resolved(w, f)
    BY <1>2 DEF Resolve, ResolveStub, Paths
  <2>3. QED
    BY <2>1, <2>2, GotoEffect, ResolvedEffect DEF Pcs
<1>3. CASE CheckStaged(w)
  <2>1. req[w].op \in {"lookup", "exclusive"}
    BY <1>3 DEF CheckStaged, At, RequestOK
  <2>2. QED
    BY <1>3, <2>1, CheckStagedEffect
<1>4. CASE Alloc(w)
  BY <1>4, AllocEffect
<1>5. CASE SetStagedPath(w)
  BY <1>5, SetStagedEffect
<1>6. CASE UseHandle(w) \/ UsePath(w)
  <2>1. req[w].ino \in Inos
    BY <1>6 DEF UseHandle, UsePath, At, RequestOK, ByHandle
  <2>2. QED
    BY <1>6, <2>1, UseHandleEffect, UsePathEffect
<1>7. CASE RenameCheck(w)
  BY <1>7, RenameCheckEffect
<1>8. CASE \/ \E p \in Pcs : Goto(w, p)
           \/ \E t \in Statuses : Reply(w, t)
  BY <1>8, GotoEffect, ReplyEffect
<1>9. CASE FindInode(w) \/ CallFails(w)
  BY <1>9, FindInodeEffect, CallFailsEffect
<1>10. QED
  <2>1. "alloc" \in Pcs /\ "io" \in Pcs /\ "copy_up" \in Pcs
        /\ "set_staged" \in Pcs /\ "resolve" \in Pcs
        /\ "remove_inode" \in Pcs /\ "rename_inode" \in Pcs
    BY DEF Pcs
  <2>2. "ok" \in Statuses /\ "io" \in Statuses /\ "noent" \in Statuses
    BY DEF Statuses
  <2>3. QED
    BY <1>2, <1>3, <1>4, <1>5, <1>6, <1>7, <1>8, <1>9, <2>1, <2>2
       DEF WorkerStep, HandlerStep,
           Stat, Hydrated, HydrateFails, CopyUpHandle, WriteIo, SetAttr,
           RemoveUpper, RemoveLower, RemoveInode, RenameUpper, RenameLower,
           RenameInode

(* A reply carries the bytes that the read found in a layer.               *)
LEMMA WorkerKeepsRepliesClean ==
  ASSUME ServerInv, PlaceholderInv, NEW w \in Workers, Arrive(w) \/ WorkerStep(w)
  PROVE  \A v \in Workers : Clean(req'[v].bytes)
<1>1. /\ req \in [Workers -> Request] /\ RequestOK(w, req[w])
      /\ next_ino \in 2..(MaxIno + 1)
      /\ staged \in [Names -> File] /\ cloud \in [Names -> File]
  BY DEF ServerInv, NfsTypeOK, TypeOK
<1>2. Clean(None)
  BY DEF Clean
<1>3. Keeps(w)
  BY WorkerProgress DEF Progress
<1>4. SUFFICES Clean(req'[w].bytes)
  BY <1>3 DEF Keeps, PlaceholderInv
<1>5. CASE Arrive(w)
  BY <1>1, <1>2, <1>5, ArriveEffect
<1>6. CASE Respond(w)
  BY <1>1, <1>2, <1>6, IdleRequest, BecomeEffect DEF Respond, Idle
<1>7. CASE ReadIo(w)
  <2>1. req[w].name \in Names
    BY <1>1, <1>7 DEF ReadIo, At, RequestOK
  <2>2. QED
    BY <1>1, <1>7, <2>1, ReadIoEffect DEF PlaceholderInv, DiskClean, OpenPath
<1>8. CASE Create(w)
  BY <1>1, <1>8, CreateEffect DEF PlaceholderInv
<1>9. CASE WorkerStep(w) /\ ~Respond(w) /\ ~ReadIo(w) /\ ~Create(w)
  BY <1>9, ResultKept DEF PlaceholderInv, SameResult
<1>10. QED
  BY <1>5, <1>6, <1>7, <1>8, <1>9

LEMMA PlaceholderStep ==
  ASSUME ServerInv, PlaceholderInv, NoStubRenames, [NfsNext]_vars
  PROVE  PlaceholderInv'
<1>1. Clean(None) /\ Clean(Torn)
  BY DEF Clean
<1>2. staged \in [Names -> File] /\ cloud \in [Names -> File]
      /\ tmp \in [Names -> File] /\ stub \in [Names -> File]
      /\ (Promoting => prom.name \in Names)
  BY DEF ServerInv, NfsTypeOK, TypeOK
<1>3. ASSUME NEW w \in Workers, Arrive(w) \/ WorkerStep(w)
      PROVE  PlaceholderInv'
  <2>1. DiskClean'
    BY <1>3, WorkerKeepsDiskClean DEF PlaceholderInv
  <2>2. \A v \in Workers : Clean(req'[v].bytes)
    BY <1>3, WorkerKeepsRepliesClean
  <2>3. \A n \in Names : Clean(stub'[n])
    BY <1>1, <1>3, WorkerHist DEF HistKept, PlaceholderInv
  <2>4. QED
    BY <2>1, <2>2, <2>3 DEF PlaceholderInv
<1>4. ASSUME NEW n \in Names, Evict(n) \/ Download(n) \/ TimePasses(n)
      PROVE  PlaceholderInv'
  BY <1>1, <1>2, <1>4
     DEF Evict, Download, TimePasses, Age, SyncCloud, nfs, PlaceholderInv, DiskClean
<1>5. CASE Background
  <2>1. UNCHANGED <<stub, req>> /\ PromoterStep
    BY <1>5 DEF Background, NewServer, nfs, PromoterStep
  <2>2. CASE Copy
    BY <1>2, <2>1, <2>2 DEF Copy, Copied, Promoting, PlaceholderInv, DiskClean
  <2>3. CASE CopyFails
    BY <1>1, <1>2, <2>1, <2>3 DEF CopyFails, Promoting, PlaceholderInv, DiskClean
  <2>4. CASE Publish
    BY <1>1, <1>2, <2>1, <2>4 DEF Publish, Promoting, PlaceholderInv, DiskClean
  <2>5. CASE Unlink
    BY <1>1, <1>2, <2>1, <2>5 DEF Unlink, Promoting, PlaceholderInv, DiskClean
  <2>6. CASE UNCHANGED <<staged, cloud, tmp>>
    BY <2>1, <2>6 DEF PlaceholderInv, DiskClean
  <2>7. QED
    BY <2>1, <2>2, <2>3, <2>4, <2>5, <2>6
       DEF PromoterStep, StartWalk, EndWalk, SkipFresh, SkipVanished, Select,
           CopyMissing, PromotionFails
<1>6. CASE ServerCrash
  <2>1. Crash /\ UNCHANGED <<stub, cloud>> /\ req' = [w \in Workers |-> Idle]
    BY <1>6 DEF ServerCrash, Crash
  <2>2. Idle.bytes = None
    BY DEF Idle
  <2>3. \A n \in Names : tmp'[n] \in {tmp[n], Torn}
    BY <1>2, <2>1 DEF Crash, Promoting
  <2>4. \A n \in Names : staged'[n] \in {staged[n], Torn}
    BY <1>2, <2>1 DEF Crash
  <2>5. QED
    BY <1>1, <2>1, <2>2, <2>3, <2>4 DEF PlaceholderInv, DiskClean
<1>7. CASE UNCHANGED vars
  BY <1>7 DEF vars, disk, nfs, PlaceholderInv, DiskClean
<1>8. QED
  BY <1>3, <1>4, <1>5, <1>6, <1>7 DEF NfsNext

(* Clients never read a placeholder's bytes, whatever macOS evicts and     *)
(* downloads meanwhile and wherever the promoter is, unless they rename    *)
(* placeholders.                                                           *)
THEOREM ServerNeverServesPlaceholders ==
  ASSUME NoStubRenames PROVE NfsSpec => []NoPlaceholderServed
<1>1. PlaceholderInv => NoPlaceholderServed
  BY DEF PlaceholderInv, DiskClean, Clean, NoPlaceholderServed
<1>2. NfsInit => PlaceholderInv
  BY PlaceholderInit
<1>3. ServerInv /\ PlaceholderInv /\ [NfsNext]_vars => PlaceholderInv'
  BY PlaceholderStep
<1>4. QED
  BY <1>1, <1>2, <1>3, ServerInvariant, PTL DEF NfsSpec

=============================================================================
