------------------------------ MODULE MCListings ------------------------------
(***************************************************************************)
(* Listings through either server, for TLC: a behaviour is a listing by    *)
(* the FUSE driver or one by the NFS server, and what belongs to the other *)
(* stays empty.                                                            *)
(***************************************************************************)
EXTENDS FuseReaddir, NfsReaddir

VARIABLE server

mcVars == <<vars, readdirVars, server>>

NoFuseListing == /\ dir = <<>> /\ listed = {} /\ twice = FALSE /\ offset = 0
                 /\ done = FALSE /\ steady = {} /\ changes = {}

NoNfsListing == /\ cloud = {} /\ staged = {} /\ work = NoWork /\ cookie = NoName
                /\ shown = {} /\ repeated = FALSE /\ ended = TRUE
                /\ untouched = {} /\ changed = 0 /\ renamed = FALSE

MCInit == \/ server = "fuse" /\ Init /\ NoNfsListing
          \/ server = "nfs" /\ ReaddirInit /\ NoFuseListing

MCNext == \/ server = "fuse" /\ Next /\ UNCHANGED <<readdirVars, server>>
          \/ server = "nfs" /\ ReaddirNext /\ UNCHANGED <<vars, server>>

(* The client asks on, and nfsserve runs the handler.                      *)
MCSpec ==
  /\ MCInit
  /\ [][MCNext]_mcVars
  /\ WF_mcVars(server = "nfs" /\ ReaddirStep /\ UNCHANGED <<vars, server>>)

=============================================================================
