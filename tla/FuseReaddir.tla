------------------------------ MODULE FuseReaddir ------------------------------
(***************************************************************************)
(* Listing a directory through the FUSE driver (passthrough.rs, readdir).  *)
(*                                                                         *)
(* Each READDIR reads the whole directory anew, in the order of the file   *)
(* system, translates placeholders and answers with as many entries as fit *)
(* after the offset it is given.  The offset of an entry is its position   *)
(* in that reply's list.  A client goes on until it gets an empty page.    *)
(***************************************************************************)
EXTENDS PathUtils, FiniteSets

CONSTANT PageSize   \* entries that fit into one reply

ASSUME ListingAssumption == PageSize \in Nat \ {0}

VARIABLES
  dir,       \* the directory: dir[e] is entry e's place in read_dir's order
  listed,    \* the names the client has got in this listing
  twice,     \* history: it has got one of them twice
  offset,    \* where its next READDIR starts
  done,      \* the last page was empty
  steady,    \* history: the names that were visible ever since opendir
  changes    \* history: how the directory has changed since opendir

vars == <<dir, listed, twice, offset, done, steady, changes>>

Entries(d) == DOMAIN d
Visible(d) == {RealName(e) : e \in Entries(d)}

Orders(S) == {d \in [S -> 1..Cardinality(S)] :
                \A e, f \in S : d[e] = d[f] => e = f}

Init ==
  /\ \E S \in SUBSET FileName : IsFiniteSet(S) /\ dir \in Orders(S)
  /\ listed = {}
  /\ twice = FALSE
  /\ offset = 0
  /\ done = FALSE
  /\ steady = Visible(dir)
  /\ changes = {}

-----------------------------------------------------------------------------
(* all_entries: "." and "..", then the entries that are not skipped.       *)

Displayed(d) == {e \in Entries(d) : Listed(Entries(d), e)}

OffsetOf(d, e) == 2 + Cardinality({f \in Displayed(d) : d[f] <= d[e]})

LastOffset(d) == 2 + Cardinality(Displayed(d))

(* Slip: an entry's offset is that of the entry after it.                  *)
EntryOffset_Next(k) == k + 1

EntryOffset(k) == k

PageEnd(d, from) ==
  IF from + PageSize < LastOffset(d) THEN from + PageSize ELSE LastOffset(d)

Page(d, from) ==
  {e \in Displayed(d) : from < OffsetOf(d, e) /\ OffsetOf(d, e) <= PageEnd(d, from)}

Readdir ==
  /\ ~done
  /\ LET page == Page(dir, offset)
         last == PageEnd(dir, offset)
     IN /\ listed' = listed \cup {RealName(e) : e \in page}
        /\ twice' = (twice \/ \E e \in page :
                       \/ RealName(e) \in listed
                       \/ \E f \in page \ {e} : RealName(f) = RealName(e))
        /\ done' = (last <= offset)
        /\ offset' = IF last <= offset THEN offset ELSE EntryOffset(last)
  /\ UNCHANGED <<dir, steady, changes>>

Opendir ==
  /\ listed' = {}
  /\ twice' = FALSE
  /\ offset' = 0
  /\ done' = FALSE
  /\ steady' = Visible(dir)
  /\ changes' = {}
  /\ UNCHANGED dir

-----------------------------------------------------------------------------
(* What happens to the directory while a client lists it.                  *)

Changed(d, kind) ==
  /\ ~done
  /\ dir' = d
  /\ steady' = steady \cap Visible(d)
  /\ changes' = changes \cup {kind}
  /\ UNCHANGED <<listed, twice, offset, done>>

Without(d, e) ==
  [f \in Entries(d) \ {e} |-> IF d[f] > d[e] THEN d[f] - 1 ELSE d[f]]

With(d, e, k) ==
  [f \in Entries(d) \cup {e} |->
     IF f = e THEN k ELSE IF d[f] >= k THEN d[f] + 1 ELSE d[f]]

(* An entry appears anywhere: read_dir promises no order.                  *)
CreateEntry(n) ==
  /\ n \notin Visible(dir)
  /\ ~is_icloud_stub(n)
  /\ \E k \in 1..(Cardinality(Entries(dir)) + 1) : Changed(With(dir, n, k), "create")

RemoveEntry(e) == Changed(Without(dir, e), "remove")

(* A file is replaced by its placeholder, or the other way round.          *)
SyncEntry(e) ==
  LET to == IF is_icloud_stub(e) THEN stub_to_real_name(e) ELSE real_to_stub_name(e)
  IN /\ to \in FileName \ Entries(dir)
     /\ \E k \in 1..Cardinality(Entries(dir)) :
          Changed(With(Without(dir, e), to, k), "sync")

Next ==
  \/ Readdir
  \/ Opendir
  \/ \E n \in FileName : CreateEntry(n)
  \/ \E e \in Entries(dir) : RemoveEntry(e) \/ SyncEntry(e)

Spec == Init /\ [][Next]_vars

-----------------------------------------------------------------------------
(* A listing of a directory that does not change shows each file and each  *)
(* placeholder without its file exactly once, under the name a client can  *)
(* look up, whatever fits into a page.                                     *)
QuietListingExact ==
  done /\ changes = {} => listed = Visible(dir) /\ ~twice

(* Files that are created during a listing never make it miss a name that  *)
(* was there all the time: entries only move away from the offset.  Any    *)
(* other change can: an offset is a position in an unsorted directory.     *)
CreationsHideNothing ==
  done /\ changes \subseteq {"create"} => steady \subseteq listed

-----------------------------------------------------------------------------
(* What the proofs rest on.                                                *)

ListingTypeOK ==
  /\ dir \in [Entries(dir) -> Nat \ {0}]
  /\ Entries(dir) \subseteq FileName /\ IsFiniteSet(Entries(dir))
  /\ \A e, f \in Entries(dir) : dir[e] = dir[f] => e = f
  /\ listed \subseteq FileName
  /\ twice \in BOOLEAN
  /\ offset \in Nat
  /\ done \in BOOLEAN
  /\ steady \subseteq Visible(dir)
  /\ changes \subseteq {"create", "remove", "sync"}

(* A name is in the listing or its entry lies ahead; when nothing changes, *)
(* the listing is what lies behind; and it ends at the last entry.         *)
ListingInv ==
  /\ ListingTypeOK
  /\ changes \subseteq {"create"} =>
       \A n \in steady :
         n \in listed \/ \E e \in Displayed(dir) : /\ RealName(e) = n
                                                  /\ offset < OffsetOf(dir, e)
  /\ changes = {} =>
       /\ ~twice
       /\ listed = {RealName(e) : e \in {f \in Displayed(dir) : OffsetOf(dir, f) <= offset}}
  /\ done => LastOffset(dir) <= offset

=============================================================================
