--------------------------- MODULE StagingTreeProofs ---------------------------
(***************************************************************************)
(* Cleaning up never takes a created file away: the inductive invariant of *)
(* StagingTree, for any tree of directories and any number of handlers.    *)
(***************************************************************************)
EXTENDS StagingTree, SequenceTheorems, TLAPS

(* The tree: what is in it is neither the root nor nothing, a directory is *)
(* no file, and a path leads through directories.                          *)
LEMMA Tree ==
  /\ Dirs \cap Files = {} /\ Root \notin TreePaths /\ NoPath \notin TreePaths
  /\ \A x \in TreePaths : Parent[x] \in Dirs \cup {Root} /\ Above[x] \subseteq Dirs
BY TreeAssumption

(* The calls that are left when the innermost returns.                     *)
LEMMA Outer ==
  ASSUME NEW S, NEW w \in Seq(S), NEW m \in 1..Len(w)
  PROVE  LET s == SubSeq(w, 1, m - 1) IN
         /\ s \in Seq(S) /\ Len(s) = m - 1 /\ DOMAIN s = 1..(m - 1)
         /\ \A k \in 1..(m - 1) : s[k] = w[k]
<1> DEFINE s == SubSeq(w, 1, m - 1)
<1>1. Len(w) \in Nat /\ m - 1 \in Nat /\ \A k \in 1..(m - 1) : w[k] \in S
  OBVIOUS
<1>2. s \in Seq(S) /\ Len(s) = m - 1 /\ \A k \in 1..(m - 1) : s[k] = w[k]
  BY <1>1, SubSeqProperties
<1> QED  BY <1>1, <1>2

(* The initial states: nobody walks, nobody asks, nothing is staged.       *)
LEMMA InitInv == TreeInit => TreeInv
<1> SUFFICES ASSUME TreeInit PROVE TreeInv
  OBVIOUS
<1> USE DEF TreeInit, NoWalk, Asleep
<1>1. walk.stack = <<>> /\ walk.pc = "sleep" /\ walk.path = NoPath
  OBVIOUS
<1>2. TreeTypeOK
  <2>1. <<>> \in Seq(Frames)
    OBVIOUS
  <2> QED  BY <2>1 DEF TreeTypeOK, TreePaths
<1>3. WalkOK
  <2>1. DOMAIN walk.stack = {}
    BY <1>1
  <2> QED  BY <1>1, <2>1 DEF WalkOK
<1>4. RemovalsAnnounced /\ CreatedFilesKept
  BY <1>1 DEF RemovalsAnnounced, CreatedFilesKept
<1> QED  BY <1>2, <1>3, <1>4 DEF TreeInv

(* A handler leaves the promoter alone.  What it adds to the files to be   *)
(* kept nobody is about to remove, and what it removes is not among them.  *)
LEMMA HandlerInv ==
  ASSUME TreeInv, NEW c \in Clients, Handler(c)
  PROVE  TreeInv'
<1> USE Tree
<1> DEFINE Requests == [pc: {"idle", "create", "mkdir", "unstage", "remove"},
                        path: TreePaths \cup {NoPath}]
           Same == UNCHANGED walk
           Rest == TreeTypeOK' /\ RemovalsAnnounced' /\ CreatedFilesKept'
<1>1. TreeTypeOK /\ WalkOK /\ RemovalsAnnounced /\ CreatedFilesKept
  BY DEF TreeInv
<1>2. /\ request \in [Clients -> Requests]
      /\ upper \subseteq TreePaths /\ lower \subseteq TreePaths
      /\ old \subseteq Files /\ kept \subseteq Files
  BY <1>1 DEF TreeTypeOK
<1>3. ASSUME HandlerDone(c)
      PROVE  /\ request' \in [Clients -> Requests]
             /\ request'[c].pc = "idle"
             /\ \A e \in Clients \ {c} : request'[e] = request[e]
  BY <1>2, <1>3 DEF HandlerDone, Asleep
<1>4. ASSUME NEW f \in Files, CreateParents(c, f) PROVE Same /\ Rest
  <2>1. Above[f] \subseteq TreePaths /\ f \in TreePaths
    BY DEF TreePaths
  <2>2. request' = [request EXCEPT ![c] = [pc |-> "create", path |-> f]]
    BY <1>4 DEF CreateParents, Begins
  <2>3. /\ request' \in [Clients -> Requests]
        /\ request'[c].pc = "create" /\ request'[c].path = f
        /\ \A e \in Clients \ {c} : request'[e] = request[e]
    BY <1>2, <2>1, <2>2
  <2>4. RemovalsAnnounced'
    BY <1>1, <1>4, <2>1, <2>3 DEF CreateParents, RemovalsAnnounced
  <2> QED  BY <1>1, <1>2, <1>4, <2>1, <2>3, <2>4
       DEF CreateParents, TreeTypeOK, CreatedFilesKept
<1>5. ASSUME NEW d \in Dirs, MkdirStaged(c, d) PROVE Same /\ Rest
  <2>1. Above[d] \subseteq TreePaths /\ d \in TreePaths
    BY DEF TreePaths
  <2>2. request' = [request EXCEPT ![c] = [pc |-> "mkdir", path |-> d]]
    BY <1>5 DEF MkdirStaged, Begins
  <2>3. /\ request' \in [Clients -> Requests]
        /\ request'[c].pc = "mkdir" /\ request'[c].path = d
        /\ \A e \in Clients \ {c} : request'[e] = request[e]
    BY <1>2, <2>1, <2>2
  <2>4. RemovalsAnnounced'
    BY <1>1, <1>5, <2>1, <2>3 DEF MkdirStaged, RemovalsAnnounced
  <2> QED  BY <1>1, <1>2, <1>5, <2>1, <2>3, <2>4
       DEF MkdirStaged, TreeTypeOK, CreatedFilesKept
<1>6. ASSUME NEW x \in TreePaths, RemoveBegins(c, x) PROVE Same /\ Rest
  <2>1. kept' \subseteq kept /\ \A f \in kept' : x # f /\ x \notin Above[f]
    BY <1>2, <1>6 DEF RemoveBegins, Below, TreePaths
  <2>2. request' = [request EXCEPT ![c] = [pc |-> "unstage", path |-> x]]
    BY <1>6 DEF RemoveBegins, Begins
  <2>3. /\ request' \in [Clients -> Requests]
        /\ request'[c].pc = "unstage" /\ request'[c].path = x
        /\ \A e \in Clients \ {c} : request'[e] = request[e]
    BY <1>2, <2>1, <2>2
  <2>4. RemovalsAnnounced'
    BY <1>1, <1>6, <2>1, <2>3 DEF RemoveBegins, RemovalsAnnounced
  <2> QED  BY <1>1, <1>2, <1>6, <2>1, <2>3, <2>4
       DEF RemoveBegins, TreeTypeOK, CreatedFilesKept
<1>7. ASSUME NEW x \in TreePaths, RemoveOne(c, x) PROVE Same /\ Rest
  <2>1. x \notin kept
    BY <1>1, <1>7 DEF RemoveOne, Handles, Below, RemovalsAnnounced
  <2> QED  BY <1>1, <1>2, <1>7, <2>1
       DEF RemoveOne, TreeTypeOK, RemovalsAnnounced, CreatedFilesKept
<1>8. ASSUME CreateStaged(c) PROVE Same /\ Rest
  <2> DEFINE f == request[c].path
  <2>1. f \in Files /\ f \in TreePaths
    BY <1>1, <1>8 DEF CreateStaged, Handles, RemovalsAnnounced, TreePaths
  <2>2. Same /\ TreeTypeOK' /\ CreatedFilesKept'
    BY <1>1, <1>2, <1>3, <1>8, <2>1
    DEF CreateStaged, TreeTypeOK, CreatedFilesKept
  <2>3. \A e \in Clients : request'[e] = request[e] \/ request'[e].pc = "idle"
    BY <1>3, <1>8 DEF CreateStaged
  <2>4. \/ kept' = kept
        \/ kept' = kept \cup {f} /\ ~Doomed(f)
    <3>1. CASE Above[f] \subseteq upper
      BY <1>8, <3>1 DEF CreateStaged
    <3>2. CASE ~(Above[f] \subseteq upper)
      BY <1>8, <3>2 DEF CreateStaged
    <3> QED  BY <3>1, <3>2
  <2>5. RemovalsAnnounced'
    BY <1>1, <1>8, <2>3, <2>4 DEF CreateStaged, RemovalsAnnounced, Doomed
  <2> QED  BY <2>2, <2>5
<1>9. ASSUME MkdirCloud(c) PROVE Same /\ Rest
  <2>1. request[c].path \in TreePaths /\ Above[request[c].path] \subseteq TreePaths
    BY <1>1, <1>9 DEF MkdirCloud, Handles, RemovalsAnnounced, TreePaths
  <2> QED  BY <1>1, <1>2, <1>3, <1>9, <2>1
       DEF MkdirCloud, TreeTypeOK, RemovalsAnnounced, CreatedFilesKept
<1>10. ASSUME RemoveStagedEnds(c) PROVE Same /\ Rest
  <2>1. /\ request' \in [Clients -> Requests]
        /\ request'[c].pc = "remove" /\ request'[c].path = request[c].path
        /\ \A e \in Clients \ {c} : request'[e] = request[e]
    BY <1>2, <1>10 DEF RemoveStagedEnds
  <2> QED  BY <1>1, <1>2, <1>10, <2>1
       DEF RemoveStagedEnds, Handles, TreeTypeOK, RemovalsAnnounced, CreatedFilesKept
<1>11. ASSUME RemoveFromCloud(c) PROVE Same /\ Rest
  <2>1. request[c].path \notin kept
    BY <1>1, <1>11 DEF RemoveFromCloud, Handles, RemovalsAnnounced
  <2> QED  BY <1>1, <1>2, <1>3, <1>11, <2>1
       DEF RemoveFromCloud, TreeTypeOK, RemovalsAnnounced, CreatedFilesKept
<1>12. Same /\ Rest
  BY <1>4, <1>5, <1>6, <1>7, <1>8, <1>9, <1>10, <1>11 DEF Handler
<1>13. WalkOK'
  BY <1>1, <1>12 DEF WalkOK, Top
<1> QED  BY <1>12, <1>13 DEF TreeInv

(* The promoter removes what it has published and directories only, and    *)
(* its calls lead from the root to where it is.                            *)
LEMMA WalkStepInv ==
  ASSUME TreeInv, WalkStep
  PROVE  TreeInv'
<1> USE Tree
<1> DEFINE pcs == {"sleep", "next", "list", "publish", "unlink", "empty", "rmdir"}
           Walks0 == [pc: pcs, stack: Seq(Frames), path: TreePaths \cup {NoPath}]
           n == Len(walk.stack)
           Call(s, k) == /\ k = 1 <=> s[k].dir = Root
                         /\ k > 1 => Parent[s[k].dir] = s[k - 1].dir
                         /\ s[k].todo \subseteq Children(TreePaths, s[k].dir)
           Good(s) == s \in Seq(Frames) /\ \A k \in DOMAIN s : Call(s, k)
<1>1. TreeTypeOK /\ WalkOK /\ RemovalsAnnounced /\ CreatedFilesKept
  BY DEF TreeInv
<1>2. /\ walk \in Walks0 /\ Good(walk.stack) /\ n \in Nat /\ DOMAIN walk.stack = 1..n
      /\ upper \subseteq TreePaths /\ lower \subseteq TreePaths
      /\ old \subseteq Files /\ kept \subseteq Files
  BY <1>1 DEF TreeTypeOK, WalkOK
<1>3. ~Walks("sleep") => n \in 1..n /\ Top \in Frames /\ Top = walk.stack[n]
  BY <1>1, <1>2 DEF WalkOK, Walks, Top
<1>4. ASSUME walk' = NoWalk PROVE walk' \in Walks0 /\ WalkOK'
  <2>1. walk'.stack = <<>> /\ <<>> \in Seq(Frames) /\ DOMAIN <<>> = {}
    BY <1>4 DEF NoWalk
  <2> QED  BY <1>4, <2>1 DEF NoWalk, WalkOK
<1>5. ASSUME GoesOn, ~Walks("sleep") PROVE walk' \in Walks0 /\ WalkOK'
  <2>1. walk' = [pc |-> "next", stack |-> walk.stack, path |-> NoPath]
    BY <1>2, <1>5 DEF GoesOn
  <2> QED  BY <1>1, <1>2, <1>5, <2>1 DEF WalkOK, Walks
<1>6. CASE PromoteIfQuiesced
  <2>1. walk' = [pc |-> "next", stack |-> <<Frame(Root)>>, path |-> NoPath]
    BY <1>6 DEF PromoteIfQuiesced, NoWalk
  <2>2. Frame(Root) \in Frames /\ Frame(Root).dir = Root
        /\ Frame(Root).todo \subseteq Children(TreePaths, Root)
    BY <1>2 DEF Frame, Frames, Children
  <2>3. Good(<<Frame(Root)>>)
    BY <2>2
  <2>4. WalkOK' /\ walk' \in Walks0
    BY <2>1, <2>3 DEF WalkOK
  <2> QED  BY <1>1, <1>6, <2>1, <2>4
       DEF PromoteIfQuiesced, TreeInv, TreeTypeOK, RemovalsAnnounced, CreatedFilesKept
<1>7. ASSUME NEW x \in TreePaths, NextEntryOf(x) PROVE TreeInv'
  <2> DEFINE rest == [walk EXCEPT !.stack[Len(walk.stack)].todo = @ \ {x}]
  <2>1. /\ n \in 1..n /\ Top \in Frames /\ Top = walk.stack[n] /\ x \in Top.todo
    BY <1>3, <1>7 DEF NextEntryOf, Walks
  <2>2. Parent[x] = Top.dir
    BY <1>2, <2>1 DEF Children
  <2>3. rest = [pc |-> walk.pc, path |-> walk.path,
                stack |-> [walk.stack EXCEPT ![n] = [dir |-> Top.dir,
                                                     todo |-> Top.todo \ {x}]]]
    <3>1. [walk.stack[n] EXCEPT !.todo = @ \ {x}]
            = [dir |-> Top.dir, todo |-> Top.todo \ {x}]
      <4>1. \A r \in Frames : [r EXCEPT !.todo = @ \ {x}] = [dir |-> r.dir, todo |-> r.todo \ {x}]
        BY DEF Frames
      <4> QED  BY <2>1, <4>1
    <3>2. rest = [pc |-> walk.pc, path |-> walk.path,
                  stack |-> [walk.stack EXCEPT ![n] = [walk.stack[n] EXCEPT !.todo = @ \ {x}]]]
      <4>1. rest = [walk EXCEPT !.stack = [walk.stack EXCEPT ![n] =
                                             [walk.stack[n] EXCEPT !.todo = @ \ {x}]]]
        BY Zenon
      <4>2. \A v : [walk EXCEPT !.stack = v] = [pc |-> walk.pc, path |-> walk.path, stack |-> v]
        BY <1>2
      <4> QED  BY <4>1, <4>2
    <3> QED  BY <3>1, <3>2
  <2>4. /\ Len(rest.stack) = n /\ rest.stack[n].dir = Top.dir
        /\ Good(rest.stack) /\ rest.stack # <<>>
    <3> DEFINE s == rest.stack
    <3>1. s \in Seq(Frames) /\ Len(s) = n /\ DOMAIN s = 1..n
      BY <1>2, <2>1, <2>3 DEF Frames
    <3>2. \A k \in 1..n : s[k].dir = walk.stack[k].dir /\ s[k].todo \subseteq walk.stack[k].todo
      BY <1>2, <2>1, <2>3 DEF Frames
    <3>3. \A k \in 1..n : Call(s, k)
      BY <1>2, <3>2
    <3> QED  BY <2>1, <3>1, <3>2, <3>3
  <2>5. walk' \in Walks0 /\ WalkOK' /\ walk'.pc # "unlink"
    <3>1. CASE walk' = NoWalk
      BY <1>4, <3>1 DEF NoWalk
    <3>2. CASE x \in upper \cap Dirs /\ walk' = [rest EXCEPT !.pc = "list", !.path = x]
      <4>1. walk' = [pc |-> "list", path |-> x, stack |-> rest.stack]
        BY <2>3, <3>2
      <4> QED  BY <2>2, <2>4, <3>2, <4>1 DEF WalkOK, Top
    <3>3. CASE x \in upper \cap old /\ walk' = [rest EXCEPT !.pc = "publish", !.path = x]
      <4>1. walk' = [pc |-> "publish", path |-> x, stack |-> rest.stack]
        BY <2>3, <3>3
      <4> QED  BY <1>2, <2>2, <2>4, <3>3, <4>1 DEF WalkOK, Top
    <3>4. CASE walk' = rest
      <4>1. walk' = [pc |-> "next", path |-> walk.path, stack |-> rest.stack]
        BY <1>7, <2>3, <3>4 DEF NextEntryOf, Walks
      <4> QED  BY <1>2, <2>4, <4>1 DEF WalkOK
    <3> QED  BY <1>7, <3>1, <3>2, <3>3, <3>4 DEF NextEntryOf
  <2> QED  BY <1>1, <1>7, <2>5
       DEF NextEntryOf, TreeInv, TreeTypeOK, RemovalsAnnounced, CreatedFilesKept
<1>8. CASE WalkInto
  <2> DEFINE s == Append(walk.stack, Frame(walk.path))
  <2>1. /\ n \in 1..n /\ Top = walk.stack[n] /\ walk.path \in Dirs
        /\ Parent[walk.path] = Top.dir
    BY <1>1, <1>3, <1>8 DEF WalkInto, Walks, WalkOK
  <2>2. walk' = [pc |-> "next", path |-> NoPath, stack |-> s]
    BY <1>8 DEF WalkInto
  <2>3. /\ Frame(walk.path) \in Frames /\ Frame(walk.path).dir = walk.path
        /\ Frame(walk.path).todo \subseteq Children(TreePaths, walk.path)
    BY <1>2, <2>1 DEF Frame, Frames, Children
  <2>4. /\ s \in Seq(Frames) /\ Len(s) = n + 1 /\ DOMAIN s = 1..(n + 1)
        /\ s[n + 1] = Frame(walk.path) /\ \A k \in 1..n : s[k] = walk.stack[k]
    BY <1>2, <2>3
  <2>5. walk.path # Root
    BY <2>1 DEF TreePaths
  <2>6. \A k \in 1..n : Call(s, k)
    BY <1>2, <2>4
  <2>7. Call(s, n + 1)
    BY <1>2, <2>1, <2>3, <2>4, <2>5
  <2>8. WalkOK' /\ walk' \in Walks0
    BY <1>2, <2>2, <2>4, <2>6, <2>7 DEF WalkOK
  <2> QED  BY <1>1, <1>8, <2>2, <2>8
       DEF WalkInto, TreeInv, TreeTypeOK, RemovalsAnnounced, CreatedFilesKept
<1>9. CASE PublishOld
  <2>1. walk.path \in Files /\ walk.path \in TreePaths /\ Above[walk.path] \subseteq TreePaths
    BY <1>1, <1>9 DEF PublishOld, Walks, WalkOK, TreePaths
  <2>2. CASE walk.path \in upper
    <3>1. /\ walk' = [pc |-> "unlink", stack |-> walk.stack, path |-> walk.path]
          /\ lower' = lower \cup Above[walk.path] \cup {walk.path}
      BY <1>2, <1>9, <2>2 DEF PublishOld
    <3>2. walk' \in Walks0 /\ WalkOK'
      BY <1>1, <1>2, <1>9, <2>1, <3>1 DEF PublishOld, Walks, WalkOK, Top
    <3> QED  BY <1>1, <1>9, <2>1, <3>1, <3>2
         DEF PublishOld, TreeInv, TreeTypeOK, RemovalsAnnounced, CreatedFilesKept
  <2>3. CASE walk.path \notin upper
    <3>1. GoesOn /\ lower' = lower \cup Above[walk.path] /\ ~Walks("sleep")
      BY <1>9, <2>3 DEF PublishOld, Walks
    <3> QED  BY <1>1, <1>5, <1>9, <2>1, <3>1
         DEF PublishOld, GoesOn, TreeInv, TreeTypeOK, RemovalsAnnounced, CreatedFilesKept
  <2> QED  BY <2>2, <2>3
<1>10. CASE UnlinkOld
  <2>1. walk' \in Walks0 /\ WalkOK' /\ walk'.pc = "next"
    BY <1>2, <1>5, <1>10 DEF UnlinkOld, Walks, GoesOn
  <2>2. walk.path \in kept => walk.path \in lower
    BY <1>1, <1>10 DEF UnlinkOld, Walks, RemovalsAnnounced
  <2> QED  BY <1>1, <1>10, <2>1, <2>2
       DEF UnlinkOld, TreeInv, TreeTypeOK, RemovalsAnnounced, CreatedFilesKept
<1>11. CASE Return
  <2> DEFINE s == SubSeq(walk.stack, 1, n - 1)
  <2>1. n \in 1..n /\ Top = walk.stack[n] /\ Top \in Frames
    BY <1>3, <1>11 DEF Return, Walks
  <2>2. walk' \in Walks0 /\ WalkOK' /\ walk'.pc # "unlink"
    <3>1. CASE s = <<>>
      BY <1>4, <1>11, <3>1 DEF Return, NoWalk
    <3>2. CASE s # <<>>
      <4>1. walk' = [pc |-> "empty", stack |-> s, path |-> Top.dir]
        BY <1>11, <3>2 DEF Return
      <4>2. s \in Seq(Frames) /\ Len(s) = n - 1 /\ DOMAIN s = 1..(n - 1)
            /\ \A k \in 1..(n - 1) : s[k] = walk.stack[k]
        <5>1. walk.stack \in Seq(Frames) /\ n \in 1..Len(walk.stack)
          BY <1>2, <2>1
        <5> QED  BY <5>1, Outer
      <4>3. n > 1
        BY <1>2, <3>2, <4>2
      <4>4. \A k \in 1..(n - 1) : Call(s, k)
        BY <1>2, <4>2
      <4>5. Top.dir # Root /\ Top.dir \in Dirs /\ Parent[Top.dir] = s[n - 1].dir
        BY <1>2, <2>1, <4>2, <4>3 DEF Frames
      <4> QED  BY <1>2, <3>2, <4>1, <4>2, <4>3, <4>4, <4>5 DEF WalkOK, Top, TreePaths
    <3> QED  BY <3>1, <3>2
  <2> QED  BY <1>1, <1>11, <2>2
       DEF Return, TreeInv, TreeTypeOK, RemovalsAnnounced, CreatedFilesKept
<1>12. CASE LookIfEmpty
  <2>1. walk' \in Walks0 /\ WalkOK' /\ walk'.pc # "unlink"
    <3>1. CASE GoesOn
      BY <1>2, <1>5, <1>12, <3>1 DEF LookIfEmpty, Walks, GoesOn
    <3>2. CASE walk' = [walk EXCEPT !.pc = "rmdir"]
      <4>1. walk' = [pc |-> "rmdir", stack |-> walk.stack, path |-> walk.path]
        BY <1>2, <3>2
      <4> QED  BY <1>1, <1>2, <1>12, <4>1 DEF LookIfEmpty, Walks, WalkOK, Top
    <3> QED  BY <1>12, <3>1, <3>2 DEF LookIfEmpty
  <2> QED  BY <1>1, <1>12, <2>1
       DEF LookIfEmpty, TreeInv, TreeTypeOK, RemovalsAnnounced, CreatedFilesKept
<1>13. CASE RemoveEmpty
  <2>1. walk' \in Walks0 /\ WalkOK' /\ walk'.pc = "next"
    BY <1>2, <1>5, <1>13 DEF RemoveEmpty, Walks, GoesOn
  <2>2. walk.path \notin kept
    BY <1>1, <1>2, <1>13 DEF RemoveEmpty, Walks, WalkOK
  <2> QED  BY <1>1, <1>13, <2>1, <2>2
       DEF RemoveEmpty, TreeInv, TreeTypeOK, RemovalsAnnounced, CreatedFilesKept
<1> QED  BY <1>6, <1>7, <1>8, <1>9, <1>10, <1>11, <1>12, <1>13 DEF WalkStep

(* The tree is typed, the promoter is where its calls lead, who removes a  *)
(* file has announced it, and created files are kept: always.              *)
THEOREM TreeInvariant == TreeSpec => []TreeInv
<1>1. TreeInv /\ [TreeNext]_treeVars => TreeInv'
  <2> SUFFICES ASSUME TreeInv, [TreeNext]_treeVars PROVE TreeInv'
    OBVIOUS
  <2>1. ASSUME NEW f \in Files, QuiescenceEnds(f) PROVE TreeInv'
    BY <2>1 DEF QuiescenceEnds, TreeInv, TreeTypeOK, WalkOK, Top, RemovalsAnnounced,
                CreatedFilesKept
  <2>2. CASE UNCHANGED treeVars
    BY <2>2 DEF treeVars, TreeInv, TreeTypeOK, WalkOK, Top, RemovalsAnnounced,
                CreatedFilesKept
  <2> QED  BY <2>1, <2>2, HandlerInv, WalkStepInv DEF TreeNext
<1> QED  BY InitInv, <1>1, PTL DEF TreeSpec

(* A file that a client has created is in one of the two trees until a     *)
(* client removes it, for any tree and any number of handlers.             *)
THEOREM TreeCreatedFilesKept == TreeSpec => []CreatedFilesKept
<1>1. TreeInv => CreatedFilesKept
  BY DEF TreeInv
<1> QED  BY TreeInvariant, <1>1, PTL

=============================================================================
