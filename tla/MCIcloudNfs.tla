------------------------------ MODULE MCIcloudNfs ------------------------------
(* Workloads for model checking IcloudNfs.                                  *)
EXTENDS SingleWriter, TLC

CONSTANTS w1, w2

(* Two client processes that write files: one looks them up, the other     *)
(* creates them exclusively and reads them.                                *)
TwoWriters == w1 :> {"lookup", "write"} @@ w2 :> {"exclusive", "write", "read"}

(* The workers differ, the files do not.                                   *)
Files == Permutations(Names)

(* One changes a file that macOS evicts and downloads, one reads it.       *)
Evicted == w1 :> {"write", "remove"}
           @@ w2 :> {"lookup", "read"}

(* One client that also renames, between macOS and the promoter.           *)
Renaming == w1 :> {"create", "truncate", "rename"}

(* A client on its own: whatever goes wrong is between it and the promoter.*)
OneClient == w1 :> {"lookup", "create", "write"}

=============================================================================
