----------------------------- MODULE SingleWriter -----------------------------
(***************************************************************************)
(* The NFS server with a single writer per file: any number of clients     *)
(* change and read files, but while one request changes a file no other    *)
(* request changes it too, nothing is renamed and macOS evicts nothing.    *)
(* That is the situation in which acknowledged writes are never lost.      *)
(* What it takes is stated here as an inductive invariant: where the safe  *)
(* writes are at every point of a promotion, and what every handler still  *)
(* knows of the layers and of the inode table when it comes to use it.     *)
(***************************************************************************)
EXTENDS IcloudNfs

Writing == {"write", "truncate", "create", "exclusive", "remove"}

NoEvictionsOrRenames == ~Evictions /\ \A w \in Workers : "rename" \notin Ops[w]

(* One request at a time changes a file.  (A request on a handle names its *)
(* file when it has looked the handle up.)                                 *)
OnePerFile ==
  \A v, w \in Workers :
    v # w /\ req[v].op \in Writing /\ req[w].op \in Writing =>
      req[v].name = None \/ req[v].name # req[w].name

SerialNext ==
  \/ \E w \in Workers : \/ (Arrive(w) \/ HandlerStep(w)) /\ OnePerFile'
                        \/ CallFails(w)
  \/ \E n \in Names : Evict(n) \/ Download(n) \/ TimePasses(n)
  \/ Background
  \/ ServerCrash

SerialSpec == NfsInit /\ [][SerialNext]_vars

(* The special case of one client process that changes files.              *)
OneWriterOnly ==
  /\ NoEvictionsOrRenames
  /\ \A v, w \in Workers :
       Ops[v] \cap Writing # {} /\ Ops[w] \cap Writing # {} => v = w

NoRemovals == \A w \in Workers : "remove" \notin Ops[w]

Holds(c, S) == S = {} \/ (c \notin {None, Torn} /\ S \subseteq c)

(* Clients find the safe writes under the name.  While the promoter moves  *)
(* the file, its copy holds them too: removing the staged file cannot lose *)
(* them.                                                                   *)
SafeInv ==
  \A n \in Names :
    /\ Holds(Visible(n), safe[n])
    /\ prom.pc = "publish" /\ prom.name = n => Holds(tmp[n], safe[n])
    /\ prom.pc = "unlink" /\ prom.name = n => Holds(cloud[n], safe[n])

(* A name has one inode at most, and its staged path is that name's.       *)
TableInv ==
  /\ \A i \in Inos : inodes[i] # None =>
       ~inodes[i].stub /\ inodes[i].staged \in {None, inodes[i].name}
  /\ \A i, j \in Inos :
       inodes[i] # None /\ inodes[j] # None /\ inodes[i].name = inodes[j].name
         => i = j

StagedKnown(n) ==
  \E i \in Inos : inodes[i] # None /\ inodes[i].name = n /\ inodes[i].staged # None

(* The handler has staged the file and not yet noted it in the inode.      *)
Staging(w, n) ==
  At(w, "set_staged") /\ req[w].op # "lookup" /\ req[w].name = n

(* A copy-up would not overwrite safe writes.                              *)
Overwritable(n) == staged[n] = None \/ safe[n] = {}

(* A handle of a file that has safe writes staged leads to the staged copy,*)
(* so that no handler copies an older one over them.                       *)
StagedInv ==
  Serving => \A n \in Names :
    \/ Overwritable(n)
    \/ StagedKnown(n)
    \/ \E w \in Workers : Staging(w, n)

Removing == {"resolve", "resolve_stub", "remove_cloud", "remove_inode", "drop_inode"}

(* What a handler still knows when it comes to use it.                     *)
HandlerInv(w) ==
  LET r == req[w]
      n == r.name
  IN
  /\ r.found # "stub" /\ r.pc # "hydrate"
  /\ r.pc \in {"path", "copy_up", "set_staged", "drop_inode"} =>
       inodes[r.ino] = None \/ inodes[r.ino].name = n
  /\ r.pc = "copy_up" \/ (r.pc = "set_staged" /\ r.op # "lookup") =>
       inodes[r.ino] # None
  /\ r.pc = "copy_up" \/ (r.pc = "path" /\ r.op # "read" /\ inodes[r.ino] # None) =>
       Overwritable(n)
  /\ r.pc = "set_staged" /\ r.op \in HandleOps => Holds(cloud[n], safe[n])
  /\ r.pc \in {"sattr", "alloc", "set_staged"} /\ r.op \in {"create", "exclusive"} =>
       safe[n] = {}
  /\ r.pc = "io" /\ r.op # "read" => StagedKnown(n)
  /\ r.op = "remove" /\ r.pc \in Removing => staged[n] = None /\ safe[n] = {}

(* What a read still owes the client is in the file it is going to open.   *)
ReadInv(w) ==
  LET r == req[w] IN
  due[w] # {} =>
    /\ r.op = "read" /\ r.pc \in {"path", "io", "reply"}
    /\ r.pc \in {"path", "io"} =>
         /\ r.name \in Names
         /\ due[w] \subseteq safe[r.name]
         /\ ~r.up => Holds(cloud[r.name], due[w])
    /\ r.pc = "reply" /\ r.status = "ok" => Holds(r.bytes, due[w])

(* Acknowledged writes survive the promoter, the handlers and a restart:   *)
(* the inductive invariant behind SafeWritesKept and ReadsFresh.           *)
WriterInv ==
  /\ SafeInv /\ TableInv /\ StagedInv
  /\ \A w \in Workers : HandlerInv(w) /\ ReadInv(w)

(* Only a file that is staged is promoted, and it stays staged meanwhile.  *)
PromotedStaged ==
  prom.pc \in {"publish", "unlink"} => staged[prom.name] # None

(* Between its two checks and its creation the name is free.               *)
NameFree(w) ==
  LET r == req[w] IN
  r.op = "exclusive" =>
    /\ r.pc \in {"resolve", "resolve_stub", "create"} => staged[r.name] = None
    /\ r.pc \in {"resolve_stub", "create"} => cloud[r.name] = None

(* So create_exclusive finds a name free that the promoter is not going to *)
(* fill: it fills only names that are staged.                              *)
ExclusiveInv ==
  /\ PromotedStaged
  /\ \A w \in Workers : NameFree(w)
  /\ ExclusiveCreatesNew

=============================================================================
