----------------------------- MODULE ListingProofs -----------------------------
(***************************************************************************)
(* What holds of listings through either server for any names, directories *)
(* and page sizes, and for any number of changes: a quiet directory is     *)
(* listed exactly; through FUSE creations hide nothing, and through NFS no *)
(* change to one file hides another.                                       *)
(***************************************************************************)
EXTENDS FuseReaddir, NfsReaddir, PathUtilsProofs, FiniteSetTheorems,
        WellFoundedInduction, TLAPS

-----------------------------------------------------------------------------
(* The FUSE driver: a quiet directory is listed exactly, and creations hide*)
(* nothing.  An offset is a position, so what has to be shown is how the   *)
(* positions of the entries move.                                          *)
LEMMA OffsetFacts ==
  ASSUME ListingTypeOK
  PROVE  /\ LastOffset(dir) \in Nat
         /\ \A e \in Displayed(dir) :
              /\ OffsetOf(dir, e) \in Nat /\ 2 <= OffsetOf(dir, e)
              /\ OffsetOf(dir, e) <= LastOffset(dir)
<1>1. IsFiniteSet(Displayed(dir))
  <2>1. Displayed(dir) \in SUBSET Entries(dir)
    BY DEF Displayed
  <2>2. QED
    BY <2>1, FS_Subset DEF ListingTypeOK
<1>2. ASSUME NEW e \in Displayed(dir)
      PROVE  /\ OffsetOf(dir, e) \in Nat /\ 2 <= OffsetOf(dir, e)
             /\ OffsetOf(dir, e) <= LastOffset(dir)
  <2> DEFINE S == {f \in Displayed(dir) : dir[f] <= dir[e]}
             c == Cardinality(S)
             d == Cardinality(Displayed(dir))
  <2>1. S \in SUBSET Displayed(dir)
    OBVIOUS
  <2>2. c \in Nat /\ d \in Nat /\ c <= d
    BY <1>1, <2>1, FS_Subset, FS_CardinalityType
  <2>3. OffsetOf(dir, e) = 2 + c /\ LastOffset(dir) = 2 + d
    BY DEF OffsetOf, LastOffset
  <2> HIDE DEF c, d
  <2>4. QED
    BY <2>2, <2>3
<1>3. LastOffset(dir) \in Nat
  BY <1>1, FS_CardinalityType DEF LastOffset
<1>4. QED
  BY <1>2, <1>3

(* A new entry moves no other towards the client's offset.                 *)
LEMMA CreationMoves ==
  ASSUME ListingTypeOK, NEW n \in FileName, CreateEntry(n)
  PROVE  /\ ListingTypeOK'
         /\ \A e \in Displayed(dir) :
              /\ e \in Displayed(dir)'
              /\ OffsetOf(dir, e) \in Nat /\ OffsetOf(dir, e)' \in Nat
              /\ OffsetOf(dir, e) <= OffsetOf(dir, e)'
<1>1. PICK k \in 1..(Cardinality(Entries(dir)) + 1) :
        Changed(With(dir, n, k), "create")
  BY DEF CreateEntry
<1>2. /\ k \in Nat \ {0} /\ IsFiniteSet(Entries(dir))
      /\ Entries(dir) \subseteq FileName /\ n \notin Entries(dir)
      /\ dir' = With(dir, n, k)
      /\ \A e \in Entries(dir) : dir[e] \in Nat \ {0}
      /\ \A e, f \in Entries(dir) : dir[e] = dir[f] => e = f
  <2>1. n \notin Entries(dir)
    BY NameFacts DEF CreateEntry, Visible
  <2>2. Cardinality(Entries(dir)) \in Nat
    BY FS_CardinalityType DEF ListingTypeOK
  <2>3. QED
    BY <1>1, <2>1, <2>2 DEF Changed, ListingTypeOK
<1>3. /\ Entries(dir') = Entries(dir) \cup {n} /\ dir'[n] = k
      /\ \A e \in Entries(dir) :
           dir'[e] = IF dir[e] >= k THEN dir[e] + 1 ELSE dir[e]
      /\ dir' \in [Entries(dir') -> Nat \ {0}]
  BY <1>2 DEF With, Entries
<1>4. ListingTypeOK'
  <2>1. IsFiniteSet(Entries(dir'))
    BY <1>2, <1>3, FS_AddElement
  <2>2. \A e, f \in Entries(dir') : dir'[e] = dir'[f] => e = f
    BY <1>2, <1>3
  <2>3. \A e \in Entries(dir) : e \in Entries(dir')
    BY <1>3
  <2>4. steady' \subseteq Visible(dir')
    BY <1>1, <1>2 DEF Changed
  <2>5. QED
    BY <1>1, <1>2, <1>3, <2>1, <2>2, <2>4 DEF Changed, ListingTypeOK
<1>5. ASSUME NEW e \in Displayed(dir)
      PROVE  e \in Displayed(dir')
  <2>1. e \in Entries(dir) /\ Listed(Entries(dir), e) /\ RealName(e) # n
    BY DEF Displayed, CreateEntry, Visible
  <2>2. is_icloud_stub(e) => stub_to_real_name(e) # n
    BY <2>1 DEF RealName
  <2>3. QED
    BY <1>3, <2>1, <2>2 DEF Displayed, Listed
<1>6. ASSUME NEW e \in Displayed(dir)
      PROVE  /\ OffsetOf(dir, e) \in Nat /\ OffsetOf(dir', e) \in Nat
             /\ OffsetOf(dir, e) <= OffsetOf(dir', e)
  <2> DEFINE S == {f \in Displayed(dir) : dir[f] <= dir[e]}
             T == {f \in Displayed(dir') : dir'[f] <= dir'[e]}
             s == Cardinality(S)
             t == Cardinality(T)
  <2>1. \A f \in Displayed(dir) : f \in Entries(dir)
    BY DEF Displayed
  <2>2. S \in SUBSET T
    BY <1>2, <1>3, <1>5, <2>1
  <2>3. T \in SUBSET Entries(dir')
    BY DEF Displayed
  <2>4. IsFiniteSet(Entries(dir'))
    BY <1>4 DEF ListingTypeOK
  <2> HIDE DEF S, T
  <2>5. IsFiniteSet(T) /\ s \in Nat /\ t \in Nat /\ s <= t
    BY <2>2, <2>3, <2>4, FS_Subset, FS_CardinalityType
  <2>6. OffsetOf(dir, e) = 2 + s /\ OffsetOf(dir', e) = 2 + t
    BY DEF OffsetOf, S, T
  <2> HIDE DEF s, t
  <2>7. QED
    BY <2>5, <2>6
<1>7. QED
  BY <1>4, <1>5, <1>6

LEMMA DirectoryStaysTyped ==
  ASSUME ListingTypeOK, NEW e \in Entries(dir), RemoveEntry(e) \/ SyncEntry(e)
  PROVE  ListingTypeOK'
<1>1. /\ \A f \in Entries(dir) : dir[f] \in Nat \ {0}
      /\ \A f, g \in Entries(dir) : dir[f] = dir[g] => f = g
      /\ IsFiniteSet(Entries(dir)) /\ Entries(dir) \subseteq FileName
      /\ Cardinality(Entries(dir)) \in Nat
  BY FS_CardinalityType DEF ListingTypeOK
<1> DEFINE rest == Without(dir, e)
<1>2. /\ Entries(rest) = Entries(dir) \ {e}
      /\ \A f \in Entries(dir) \ {e} :
           rest[f] = IF dir[f] > dir[e] THEN dir[f] - 1 ELSE dir[f]
      /\ rest = [f \in Entries(rest) |-> rest[f]]
  BY DEF Without, Entries
<1>3. IsFiniteSet(Entries(rest))
  BY <1>1, <1>2, FS_RemoveElement
<1> HIDE DEF rest
<1>4. /\ \A f \in Entries(rest) : rest[f] \in Nat \ {0}
      /\ \A f, g \in Entries(rest) : rest[f] = rest[g] => f = g
  <2>1. ASSUME NEW f \in Entries(rest)
        PROVE  rest[f] \in Nat \ {0}
    BY <1>1, <1>2
  <2>2. ASSUME NEW f \in Entries(rest), NEW g \in Entries(rest), rest[f] = rest[g]
        PROVE  f = g
    <3>1. dir[f] # dir[e] /\ dir[g] # dir[e]
      BY <1>1, <1>2
    <3>2. dir[f] = dir[g]
      BY <1>1, <1>2, <2>2, <3>1
    <3>3. QED
      BY <1>1, <1>2, <3>2
  <2>3. QED
    BY <2>1, <2>2
<1>5. ASSUME NEW d, NEW kind \in {"remove", "sync"}, Changed(d, kind),
             d \in [Entries(d) -> Nat \ {0}], IsFiniteSet(Entries(d)),
             Entries(d) \subseteq FileName,
             \A f, g \in Entries(d) : d[f] = d[g] => f = g
      PROVE  ListingTypeOK'
  BY <1>5 DEF Changed, ListingTypeOK
<1>6. CASE RemoveEntry(e)
  <2>1. Changed(rest, "remove") /\ rest \in [Entries(rest) -> Nat \ {0}]
    BY <1>2, <1>4, <1>6 DEF RemoveEntry, rest
  <2>2. QED
    BY <1>1, <1>2, <1>3, <1>4, <1>5, <2>1
<1>7. CASE SyncEntry(e)
  <2>1. PICK to \in FileName \ Entries(dir), k \in 1..Cardinality(Entries(dir)) :
          Changed(With(rest, to, k), "sync")
    BY <1>7 DEF SyncEntry, rest
  <2> DEFINE d == With(rest, to, k)
  <2>2. /\ Entries(d) = Entries(rest) \cup {to} /\ d[to] = k
        /\ \A f \in Entries(rest) \ {to} :
             d[f] = IF rest[f] >= k THEN rest[f] + 1 ELSE rest[f]
        /\ d = [f \in Entries(d) |-> d[f]]
    BY DEF With, Entries
  <2>3. to \notin Entries(rest) /\ k \in Nat \ {0}
    BY <1>1, <1>2
  <2> HIDE DEF d
  <2>4. \A f \in Entries(d) : d[f] \in Nat \ {0}
    BY <1>4, <2>2, <2>3
  <2>5. \A f, g \in Entries(d) : d[f] = d[g] => f = g
    BY <1>4, <2>2, <2>3
  <2>6. IsFiniteSet(Entries(d)) /\ Entries(d) \subseteq FileName
    BY <1>1, <1>2, <1>3, <2>2, FS_AddElement
  <2>7. d \in [Entries(d) -> Nat \ {0}]
    BY <2>2, <2>4
  <2>8. QED
    BY <1>5, <2>1, <2>5, <2>6, <2>7 DEF d
<1>8. QED
  BY <1>6, <1>7

(* A page continues the listing where the last one ended.                  *)
LEMMA ReaddirKeepsListing ==
  ASSUME ListingInv, Readdir
  PROVE  ListingInv'
<1> DEFINE page == Page(dir, offset)
           last == PageEnd(dir, offset)
<1>1. /\ listed' = listed \cup {RealName(e) : e \in page}
      /\ twice' = (twice \/ \E e \in page :
                     \/ RealName(e) \in listed
                     \/ \E f \in page \ {e} : RealName(f) = RealName(e))
      /\ done' = (last <= offset)
      /\ offset' = IF last <= offset THEN offset ELSE last
      /\ UNCHANGED <<dir, steady, changes>>
  BY DEF Readdir, EntryOffset
<1>2. /\ offset \in Nat /\ PageSize \in Nat \ {0} /\ LastOffset(dir) \in Nat
      /\ Entries(dir) \in SUBSET FileName
      /\ \A e \in Displayed(dir) :
           /\ OffsetOf(dir, e) \in Nat /\ OffsetOf(dir, e) <= LastOffset(dir)
           /\ e \in Entries(dir) /\ RealName(e) \in FileName
  BY OffsetFacts, ListingAssumption, NameFacts DEF ListingInv, ListingTypeOK, Displayed
<1>3. /\ last \in Nat
      /\ last <= offset => LastOffset(dir) <= offset
      /\ last <= LastOffset(dir)
  BY <1>2 DEF PageEnd
<1>4. \A e \in Displayed(dir) :
        e \in page <=> offset < OffsetOf(dir, e) /\ OffsetOf(dir, e) <= last
  BY DEF Page
<1>5. page \subseteq Displayed(dir)
  BY DEF Page
<1> HIDE DEF page, last
<1>6. ListingTypeOK'
  <2>1. listed' \subseteq FileName
    BY <1>1, <1>2, <1>5 DEF ListingInv, ListingTypeOK
  <2>2. offset' \in Nat /\ twice' \in BOOLEAN /\ done' \in BOOLEAN
    BY <1>1, <1>2, <1>3
  <2>3. QED
    BY <1>1, <2>1, <2>2 DEF ListingInv, ListingTypeOK
<1>7. ASSUME changes \subseteq {"create"}, NEW n \in steady
      PROVE  n \in listed' \/ \E e \in Displayed(dir) : /\ RealName(e) = n
                                                       /\ offset' < OffsetOf(dir, e)
  <2>1. CASE n \in listed
    BY <1>1, <2>1
  <2>2. ASSUME NEW e \in Displayed(dir), RealName(e) = n, offset < OffsetOf(dir, e)
        PROVE  n \in listed' \/ offset' < OffsetOf(dir, e)
    BY <1>1, <1>2, <1>3, <1>4, <2>2
  <2>3. QED
    BY <1>7, <2>1, <2>2 DEF ListingInv
<1>8. ASSUME changes = {}
      PROVE  /\ ~twice'
             /\ listed' = {RealName(e) : e \in {f \in Displayed(dir) :
                                                OffsetOf(dir, f) <= offset'}}
  <2> DEFINE Behind(k) == {f \in Displayed(dir) : OffsetOf(dir, f) <= k}
  <2>1. ~twice /\ listed = {RealName(e) : e \in Behind(offset)}
    BY <1>8 DEF ListingInv
  <2>2. \A e, f \in Displayed(dir) : RealName(e) = RealName(f) => e = f
    BY <1>2, ListedOnce DEF Displayed
  <2>3. \A e \in page : RealName(e) \notin listed
    BY <1>2, <1>4, <1>5, <2>1, <2>2
  <2>4. ~twice'
    BY <1>1, <1>5, <2>1, <2>2, <2>3
  <2>5. Behind(offset') = Behind(offset) \cup page
    BY <1>1, <1>2, <1>3, <1>4, <1>5
  <2> HIDE DEF Behind
  <2>6. listed' = {RealName(e) : e \in Behind(offset')}
    BY <1>1, <2>1, <2>5
  <2>7. QED
    BY <2>4, <2>6 DEF Behind
<1>9. done' => LastOffset(dir) <= offset'
  BY <1>1, <1>3
<1>10. QED
  BY <1>1, <1>6, <1>7, <1>8, <1>9 DEF ListingInv

LEMMA OpendirStartsListing ==
  ASSUME ListingTypeOK, NEW d, d = dir, listed' = {}, twice' = FALSE, offset' = 0,
         done' = FALSE, steady' = Visible(d), changes' = {}, dir' = d
  PROVE  ListingInv'
<1>1. ListingTypeOK'
  BY DEF ListingTypeOK
<1>2. \A e \in Displayed(dir) : 0 < OffsetOf(dir, e) /\ ~(OffsetOf(dir, e) <= 0)
  BY OffsetFacts
<1>3. Entries(dir) \in SUBSET FileName
  BY DEF ListingTypeOK
<1>4. ASSUME NEW n \in Visible(dir)
      PROVE  \E e \in Displayed(dir) : RealName(e) = n /\ 0 < OffsetOf(dir, e)
  <2>1. PICK f \in Entries(dir) : RealName(f) = n
    BY <1>4 DEF Visible
  <2>2. QED
    BY <1>2, <1>3, <2>1, ListedThere DEF Displayed
<1>5. listed' = {RealName(e) : e \in {f \in Displayed(dir) : OffsetOf(dir, f) <= 0}}
  BY <1>2
<1>6. QED
  BY <1>1, <1>4, <1>5 DEF ListingInv

(* ListingInv is inductive.                                                *)
LEMMA ListingInvStep ==
  ASSUME ListingInv, [Next]_vars
  PROVE  ListingInv'
<1>1. ListingTypeOK
  BY DEF ListingInv
<1>2. CASE Readdir
  BY <1>2, ReaddirKeepsListing
<1>3. CASE Opendir
  BY <1>1, <1>3, OpendirStartsListing DEF Opendir
<1>4. ASSUME NEW n \in FileName, CreateEntry(n)
      PROVE  ListingInv'
  <2>1. /\ ListingTypeOK'
        /\ \A e \in Displayed(dir) :
             /\ e \in Displayed(dir)'
             /\ OffsetOf(dir, e) \in Nat /\ OffsetOf(dir, e)' \in Nat
             /\ OffsetOf(dir, e) <= OffsetOf(dir, e)'
    BY <1>1, <1>4, CreationMoves
  <2>2. /\ ~done /\ changes' = changes \cup {"create"} /\ steady' \subseteq steady
        /\ UNCHANGED <<listed, twice, offset, done>>
    BY <1>4 DEF CreateEntry, Changed
  <2>3. ASSUME changes \subseteq {"create"}, NEW m \in steady', m \notin listed
        PROVE  \E e \in Displayed(dir)' : RealName(e) = m /\ offset < OffsetOf(dir, e)'
    <3>1. PICK e \in Displayed(dir) : RealName(e) = m /\ offset < OffsetOf(dir, e)
      BY <2>2, <2>3 DEF ListingInv
    <3>2. /\ OffsetOf(dir, e) \in Nat /\ OffsetOf(dir, e)' \in Nat
          /\ offset \in Nat
      BY <1>1, <2>1, <3>1 DEF ListingTypeOK
    <3>3. QED
      BY <2>1, <3>1, <3>2
  <2>4. QED
    BY <2>1, <2>2, <2>3 DEF ListingInv
<1>5. ASSUME NEW e \in Entries(dir), RemoveEntry(e) \/ SyncEntry(e)
      PROVE  ListingInv'
  <2>1. ListingTypeOK'
    BY <1>1, <1>5, DirectoryStaysTyped
  <2>2. ~done' /\ changes' # {} /\ ~(changes' \subseteq {"create"})
    BY <1>5 DEF RemoveEntry, SyncEntry, Changed
  <2>3. QED
    BY <2>1, <2>2 DEF ListingInv
<1>6. CASE UNCHANGED vars
  BY <1>6 DEF vars, ListingInv, ListingTypeOK
<1>7. QED
  BY <1>2, <1>3, <1>4, <1>5, <1>6 DEF Next

LEMMA ListingInvInit == Init => ListingInv
<1> SUFFICES ASSUME Init PROVE ListingInv
  OBVIOUS
<1>1. PICK S \in SUBSET FileName : IsFiniteSet(S) /\ dir \in Orders(S)
  BY DEF Init
<1>2. /\ Entries(dir) = S /\ dir \in [Entries(dir) -> Nat \ {0}]
      /\ \A e, f \in Entries(dir) : dir[e] = dir[f] => e = f
  <2>1. dir \in [S -> 1..Cardinality(S)]
    BY <1>1 DEF Orders
  <2>2. 1..Cardinality(S) \subseteq Nat \ {0}
    BY <1>1, FS_CardinalityType
  <2>3. QED
    BY <1>1, <2>1, <2>2 DEF Orders, Entries
<1>3. ListingTypeOK
  BY <1>1, <1>2 DEF Init, ListingTypeOK
<1>4. \A e \in Displayed(dir) : 0 < OffsetOf(dir, e) /\ ~(OffsetOf(dir, e) <= 0)
  BY <1>3, OffsetFacts
<1>5. ASSUME NEW n \in Visible(dir)
      PROVE  \E e \in Displayed(dir) : RealName(e) = n /\ 0 < OffsetOf(dir, e)
  <2>1. PICK f \in Entries(dir) : RealName(f) = n
    BY <1>5 DEF Visible
  <2>2. QED
    BY <1>1, <1>2, <1>4, <2>1, ListedThere DEF Displayed
<1>6. listed = {RealName(e) : e \in {f \in Displayed(dir) : OffsetOf(dir, f) <= offset}}
  BY <1>4 DEF Init
<1>7. QED
  BY <1>3, <1>5, <1>6 DEF Init, ListingInv

(* What a listing through FUSE has shown and what lies ahead of it, for    *)
(* any directory, order of its entries and size of a page.                 *)
THEOREM ListingInvariant == Spec => []ListingInv
<1>1. ListingInv /\ [Next]_vars => ListingInv'
  BY ListingInvStep
<1>2. QED
  BY <1>1, ListingInvInit, PTL DEF Spec

(* A directory that does not change is listed exactly, although each page  *)
(* reads it anew: every file and every placeholder without its file once.  *)
THEOREM FuseListingExact == Spec => []QuietListingExact
<1>1. ASSUME ListingInv, done, changes = {}
      PROVE  listed = Visible(dir) /\ ~twice
  <2>1. \A e \in Displayed(dir) : OffsetOf(dir, e) <= offset
    <3>1. offset \in Nat /\ LastOffset(dir) <= offset
      BY <1>1 DEF ListingInv, ListingTypeOK
    <3>2. QED
      BY <1>1, <3>1, OffsetFacts DEF ListingInv
  <2>2. listed = {RealName(e) : e \in {f \in Displayed(dir) : OffsetOf(dir, f) <= offset}}
    BY <1>1 DEF ListingInv
  <2>3. {f \in Displayed(dir) : OffsetOf(dir, f) <= offset} = Displayed(dir)
    BY <2>1
  <2>4. listed = {RealName(e) : e \in Displayed(dir)}
    BY <2>2, <2>3
  <2>5. Entries(dir) \in SUBSET FileName
    BY <1>1 DEF ListingInv, ListingTypeOK
  <2>6. \A e \in Entries(dir) : \E f \in Displayed(dir) : RealName(f) = RealName(e)
    BY <2>5, ListedThere DEF Displayed
  <2>7. Displayed(dir) \subseteq Entries(dir)
    BY DEF Displayed
  <2>8. listed = Visible(dir)
    BY <2>4, <2>6, <2>7 DEF Visible
  <2>9. QED
    BY <1>1, <2>8 DEF ListingInv
<1>2. ListingInv => QuietListingExact
  BY <1>1 DEF QuietListingExact
<1>3. QED
  BY <1>2, ListingInvariant, PTL

(* However many files are created during a listing and wherever read_dir   *)
(* puts them, the names that were there all the time are in it.            *)
THEOREM FuseCreationsHideNothing == Spec => []CreationsHideNothing
<1>1. ASSUME ListingInv, done, changes \subseteq {"create"}, NEW n \in steady
      PROVE  n \in listed
  <2>1. offset \in Nat /\ LastOffset(dir) <= offset
    BY <1>1 DEF ListingInv, ListingTypeOK
  <2>2. \A e \in Displayed(dir) : ~(offset < OffsetOf(dir, e))
    BY <1>1, <2>1, OffsetFacts DEF ListingInv
  <2>3. QED
    BY <1>1, <2>2 DEF ListingInv
<1>2. ListingInv => CreationsHideNothing
  BY <1>1 DEF CreationsHideNothing
<1>3. QED
  BY <1>2, ListingInvariant, PTL

-----------------------------------------------------------------------------
(* Pages.  A finite set has a first and a last name.                       *)
LEMMA LastEntry ==
  ASSUME NEW S \in SUBSET FileName, IsFiniteSet(S), S # {}
  PROVE  \E e \in S : \A f \in S : f.base <= e.base
<1> DEFINE After(e) == {f \in S : e.base < f.base}
           T == {After(e) : e \in S}
           R == StrictSubsetOrdering(S)
<1>1. T \subseteq FiniteSubsetsOf(S) /\ T # {}
  <2>1. FiniteSubsetsOf(S) = SUBSET S
    BY FS_FiniteSubsetsOfFinite
  <2>2. T \subseteq SUBSET S
    OBVIOUS
  <2>3. PICK e \in S : TRUE
    OBVIOUS
  <2>4. After(e) \in T
    OBVIOUS
  <2>5. QED
    BY <2>1, <2>2, <2>4
<1>2. \E X \in T : \A Y \in T : ~ (<<Y, X>> \in R)
  <2>1. IsWellFoundedOn(R, FiniteSubsetsOf(S))
    BY FS_StrictSubsetOrderingWellFounded
  <2> HIDE DEF R, T
  <2>2. QED
    BY <1>1, <2>1, WFMin
<1>3. PICK e \in S : \A f \in S : ~ (<<After(f), After(e)>> \in R)
  BY <1>2
<1>4. \A f \in S : f.base <= e.base
  <2> SUFFICES ASSUME NEW f \in S, e.base < f.base PROVE FALSE
    BY NameFacts
  <2>1. After(f) \subseteq After(e)
    BY NameFacts
  <2>2. f \in After(e) /\ f \notin After(f)
    BY NameFacts
  <2>3. <<After(f), After(e)>> \in R
    BY <2>1, <2>2 DEF StrictSubsetOrdering
  <2>4. QED
    BY <1>3, <2>3
<1>5. QED
  BY <1>4

LEMMA FirstEntry ==
  ASSUME NEW S \in SUBSET FileName, IsFiniteSet(S), S # {}
  PROVE  \E e \in S : \A f \in S : e.base <= f.base
<1> DEFINE Before(e) == {f \in S : f.base < e.base}
           T == {Before(e) : e \in S}
           R == StrictSubsetOrdering(S)
<1>1. T \subseteq FiniteSubsetsOf(S) /\ T # {}
  <2>1. FiniteSubsetsOf(S) = SUBSET S
    BY FS_FiniteSubsetsOfFinite
  <2>2. T \subseteq SUBSET S
    OBVIOUS
  <2>3. PICK e \in S : TRUE
    OBVIOUS
  <2>4. Before(e) \in T
    OBVIOUS
  <2>5. QED
    BY <2>1, <2>2, <2>4
<1>2. \E X \in T : \A Y \in T : ~ (<<Y, X>> \in R)
  <2>1. IsWellFoundedOn(R, FiniteSubsetsOf(S))
    BY FS_StrictSubsetOrderingWellFounded
  <2> HIDE DEF R, T
  <2>2. QED
    BY <1>1, <2>1, WFMin
<1>3. PICK e \in S : \A f \in S : ~ (<<Before(f), Before(e)>> \in R)
  BY <1>2
<1>4. \A f \in S : e.base <= f.base
  <2> SUFFICES ASSUME NEW f \in S, f.base < e.base PROVE FALSE
    BY NameFacts
  <2>1. Before(f) \subseteq Before(e)
    BY NameFacts
  <2>2. f \in Before(e) /\ f \notin Before(f)
    BY NameFacts
  <2>3. <<Before(f), Before(e)>> \in R
    BY <2>1, <2>2 DEF StrictSubsetOrdering
  <2>4. QED
    BY <1>3, <2>3
<1>5. QED
  BY <1>4

(* A page is the beginning of what is left, and not empty unless that is.  *)
LEMMA PageFacts ==
  ASSUME NEW S \in SUBSET FileName, IsFiniteSet(S), NEW k \in Nat \ {0}
  PROVE  /\ FirstOf(S, k) \subseteq S
         /\ \A e \in S \ FirstOf(S, k) : \A p \in FirstOf(S, k) : p.base < e.base
         /\ FirstOf(S, k) = {} => S = {}
         /\ Cardinality(S) <= k => FirstOf(S, k) = S
<1> DEFINE Before(e) == {f \in S : f.base < e.base}
<1>1. \A e \in S : IsFiniteSet(Before(e)) /\ Cardinality(Before(e)) \in Nat
  <2>1. \A e \in S : Before(e) \in SUBSET S
    OBVIOUS
  <2>2. QED
    BY <2>1, FS_Subset, FS_CardinalityType
<1>2. \A e \in S : e \in FirstOf(S, k) <=> Cardinality(Before(e)) < k
  BY DEF FirstOf
<1>3. FirstOf(S, k) \subseteq S
  BY DEF FirstOf
<1>4. ASSUME NEW e \in S \ FirstOf(S, k), NEW p \in FirstOf(S, k)
      PROVE  p.base < e.base
  <2> SUFFICES ASSUME e.base <= p.base PROVE FALSE
    BY <1>3, NameFacts
  <2>1. Before(e) \in SUBSET Before(p)
    BY <1>3, NameFacts
  <2>2. Cardinality(Before(e)) <= Cardinality(Before(p))
    BY <1>1, <1>3, <2>1, FS_Subset
  <2>3. e \in S /\ p \in S
    BY <1>3
  <2>4. Cardinality(Before(p)) < k /\ ~ (Cardinality(Before(e)) < k)
    BY <1>2, <2>3
  <2> DEFINE ce == Cardinality(Before(e))
             cp == Cardinality(Before(p))
  <2>5. ce \in Nat /\ cp \in Nat /\ ce <= cp /\ cp < k /\ ~ (ce < k)
    BY <1>1, <2>2, <2>3, <2>4
  <2> HIDE DEF ce, cp
  <2>6. QED
    BY <2>5
<1>5. ASSUME S # {}
      PROVE  FirstOf(S, k) # {}
  <2>1. PICK e \in S : \A f \in S : e.base <= f.base
    BY <1>5, FirstEntry
  <2>2. Before(e) = {}
    BY <2>1, NameFacts
  <2>3. Cardinality(Before(e)) = 0
    BY <2>2, FS_EmptySet
  <2>4. QED
    BY <1>2, <2>3
<1>6. ASSUME Cardinality(S) <= k, NEW e \in S
      PROVE  e \in FirstOf(S, k)
  <2>1. Before(e) \in SUBSET (S \ {e})
    BY NameFacts
  <2>2. IsFiniteSet(S \ {e}) /\ Cardinality(S \ {e}) = Cardinality(S) - 1
    BY FS_RemoveElement
  <2>3. Cardinality(Before(e)) <= Cardinality(S) - 1
    BY <2>1, <2>2, FS_Subset
  <2>4. Cardinality(S) \in Nat
    BY FS_CardinalityType
  <2>5. QED
    BY <1>1, <1>2, <1>6, <2>3, <2>4
<1>7. QED
  BY <1>3, <1>4, <1>5, <1>6

-----------------------------------------------------------------------------
(* Changes to the directory.  Each keeps the directories finite and stubs  *)
(* out of the staging directory, and says which names it touches.          *)
Harmless(newCloud, newStaged, touched) ==
  /\ newCloud \in SUBSET FileName /\ newStaged \in SUBSET FileName
  /\ IsFiniteSet(newCloud) /\ IsFiniteSet(newStaged)
  /\ \A s \in newStaged : ~is_icloud_stub(s)
  /\ \A e \in FileName : RealName(e) \in FileNames \ touched
                          => (e \in newCloud <=> e \in cloud)

CookieKept ==
  /\ renamed' \in {renamed, TRUE}
  /\ cookie' \in FileName \cup {NoName}
  /\ renamed' \/ cookie' \in {cookie, NoName}

DirectoryChange ==
  /\ CookieKept
  /\ \E newCloud, newStaged, touched :
       /\ Harmless(newCloud, newStaged, touched)
       /\ Changes(newCloud, newStaged, touched)

LEMMA NamesInDirectory ==
  ASSUME NfsListingTypeOK, DirectoriesOK
  PROVE  /\ FileNames \subseteq FileName
         /\ \A n \in FileNames : ~is_icloud_stub(n) /\ RealName(n) = n
         /\ \A e \in cloud \cup staged : e \in FileName /\ RealName(e) \in FileNames
BY NameFacts DEF NfsListingTypeOK, DirectoriesOK, FileNames

LEMMA NewFileChange ==
  ASSUME NfsListingTypeOK, DirectoriesOK, NEW n \in FileName, NewFile(n)
  PROVE  DirectoryChange
<1>1. CookieKept
  BY DEF NewFile, CookieKept, NfsListingTypeOK
<1>2. \A e \in FileName : RealName(e) \in FileNames => e # n
  BY NameFacts DEF NewFile
<1>3. Harmless(cloud, staged \cup {n}, {}) /\ Harmless(cloud \cup {n}, staged, {})
  <2>1. IsFiniteSet(staged \cup {n}) /\ IsFiniteSet(cloud \cup {n})
    BY FS_AddElement DEF DirectoriesOK
  <2>2. QED
    BY <1>2, <2>1 DEF NewFile, Harmless, NfsListingTypeOK, DirectoriesOK
<1>4. QED
  BY <1>1, <1>3 DEF NewFile, DirectoryChange

LEMMA RemoveFileChange ==
  ASSUME NfsListingTypeOK, DirectoriesOK, NEW n \in FileName, RemoveFile(n)
  PROVE  DirectoryChange
<1> DEFINE r == resolve_child(cloud, n)
<1>1. ~is_icloud_stub(n)
  BY NamesInDirectory DEF RemoveFile
<1>2. r = NoName \/ (r \in cloud /\ RealName(r) = n)
  BY <1>1, ResolvedName DEF NfsListingTypeOK
<1>3. CookieKept
  BY DEF RemoveFile, CookieKept, NfsListingTypeOK
<1>4. Harmless(cloud \ {r}, staged \ {n}, {n})
  <2>1. IsFiniteSet(cloud \ {r}) /\ IsFiniteSet(staged \ {n})
    BY FS_RemoveElement DEF DirectoriesOK
  <2>2. \A e \in FileName : RealName(e) # n => e # r
    BY <1>2, NoNameIsNone
  <2> HIDE DEF r
  <2>3. QED
    BY <2>1, <2>2 DEF Harmless, NfsListingTypeOK, DirectoriesOK
<1>5. QED
  BY <1>3, <1>4 DEF RemoveFile, DirectoryChange

LEMMA RenameFileChange ==
  ASSUME NfsListingTypeOK, DirectoriesOK, NEW n \in FileName, NEW m \in FileName,
         RenameFile(n, m)
  PROVE  DirectoryChange
<1> DEFINE r == resolve_child(cloud, n)
           C == IF r = NoName THEN cloud ELSE (cloud \ {r}) \cup {m}
           S == IF n \in staged THEN (staged \ {n}) \cup {m} ELSE staged
<1>1. ~is_icloud_stub(n) /\ ~is_icloud_stub(m) /\ RealName(m) = m
  BY NamesInDirectory, NameFacts DEF RenameFile
<1>2. r = NoName \/ (r \in cloud /\ RealName(r) = n)
  BY <1>1, ResolvedName DEF NfsListingTypeOK
<1>3. CookieKept
  <2>1. cookie' \in {cookie, m, NoName}
    BY DEF RenameFile
  <2>2. QED
    BY <2>1 DEF RenameFile, CookieKept, NfsListingTypeOK
<1>4. Harmless(C, S, {n, m})
  <2>1. IsFiniteSet(C) /\ IsFiniteSet(S)
    BY FS_RemoveElement, FS_AddElement DEF DirectoriesOK
  <2>2. \A e \in FileName : RealName(e) \notin {n, m} => e # r /\ e # m
    BY <1>1, <1>2, NoNameIsNone
  <2>3. C \in SUBSET FileName /\ S \in SUBSET FileName
    BY DEF NfsListingTypeOK
  <2>4. \A s \in S : ~is_icloud_stub(s)
    BY <1>1 DEF DirectoriesOK
  <2>5. \A e \in FileName : RealName(e) \notin {n, m} => (e \in C <=> e \in cloud)
    BY <2>2
  <2> HIDE DEF C, S
  <2>6. QED
    BY <2>1, <2>3, <2>4, <2>5 DEF Harmless
<1>5. Changes(C, S, {n, m})
  BY DEF RenameFile
<1>6. QED
  BY <1>3, <1>4, <1>5 DEF DirectoryChange

LEMMA StagingChange ==
  ASSUME NfsListingTypeOK, DirectoriesOK, NEW n \in FileName,
         StageFile(n) \/ PublishFile(n) \/ UnlinkStaged(n)
  PROVE  DirectoryChange
<1>1. CookieKept
  BY DEF StageFile, PublishFile, UnlinkStaged, CookieKept, NfsListingTypeOK
<1>2. /\ IsFiniteSet(staged \cup {n}) /\ IsFiniteSet(cloud \cup {n})
      /\ IsFiniteSet(staged \ {n})
  BY FS_AddElement, FS_RemoveElement DEF DirectoriesOK
<1>3. CASE StageFile(n)
  <2>1. Harmless(cloud, staged \cup {n}, {})
    BY <1>2, <1>3 DEF StageFile, Harmless, NfsListingTypeOK, DirectoriesOK
  <2>2. QED
    BY <1>1, <1>3, <2>1 DEF StageFile, DirectoryChange
<1>4. CASE PublishFile(n)
  <2>1. RealName(n) = n
    BY <1>4, NameFacts DEF PublishFile, DirectoriesOK
  <2>2. Harmless(cloud \cup {n}, staged, {n})
    BY <1>2, <1>4, <2>1 DEF PublishFile, Harmless, NfsListingTypeOK, DirectoriesOK
  <2>3. QED
    BY <1>1, <1>4, <2>2 DEF PublishFile, DirectoryChange
<1>5. CASE UnlinkStaged(n)
  <2>1. Harmless(cloud, staged \ {n}, {})
    BY <1>2, <1>5 DEF UnlinkStaged, Harmless, NfsListingTypeOK, DirectoriesOK
  <2>2. QED
    BY <1>1, <1>5, <2>1 DEF UnlinkStaged, DirectoryChange
<1>6. QED
  BY <1>3, <1>4, <1>5

LEMMA SyncFileChange ==
  ASSUME NfsListingTypeOK, DirectoriesOK, NEW n \in FileName, SyncFile(n)
  PROVE  DirectoryChange
<1> DEFINE r == resolve_child(cloud, n)
           to == IF r = n THEN real_to_stub_name(n) ELSE n
<1>1. ~is_icloud_stub(n) /\ RealName(n) = n
  BY NamesInDirectory DEF SyncFile
<1>2. r \in cloud /\ RealName(r) = n
  BY <1>1, ResolvedName DEF NfsListingTypeOK, SyncFile
<1>3. to \in FileName /\ RealName(to) = n
  BY <1>1, StubFacts DEF SyncFile
<1>4. CookieKept
  BY DEF SyncFile, CookieKept, NfsListingTypeOK
<1>5. Changes((cloud \ {r}) \cup {to}, staged, {n})
  BY DEF SyncFile
<1> HIDE DEF r, to
<1>6. Harmless((cloud \ {r}) \cup {to}, staged, {n})
  <2>1. IsFiniteSet((cloud \ {r}) \cup {to})
    BY FS_RemoveElement, FS_AddElement DEF DirectoriesOK
  <2>2. QED
    BY <1>2, <1>3, <2>1 DEF Harmless, NfsListingTypeOK, DirectoriesOK
<1>7. QED
  BY <1>4, <1>5, <1>6 DEF DirectoryChange

LEMMA ChangeKeepsInv ==
  ASSUME ReaddirInv, DirectoryChange
  PROVE  ReaddirInv'
<1> USE DEF ReaddirInv
<1>1. PICK C, S, T : Harmless(C, S, T) /\ Changes(C, S, T)
  BY DEF DirectoryChange
<1>2. /\ cloud' = C /\ staged' = S /\ ~ended
      /\ changed < MaxChanges /\ changed' = changed + 1
      /\ work' = work /\ shown' = shown /\ repeated' = repeated /\ ended' = ended
      /\ untouched' \subseteq untouched /\ untouched' \subseteq FileNames'
      /\ work.pc = "idle" \/ untouched' \cap T = {}
  BY <1>1 DEF Changes
<1>3. CookieKept
  BY DEF DirectoryChange
<1>4. NfsListingTypeOK'
  <2>1. changed' \in 0..MaxChanges
    BY <1>2, ReaddirAssumption DEF NfsListingTypeOK
  <2>2. renamed' \in BOOLEAN
    BY <1>3 DEF CookieKept, NfsListingTypeOK
  <2>3. cloud' \subseteq FileName /\ staged' \subseteq FileName
    BY <1>1, <1>2 DEF Harmless
  <2>4. QED
    BY <1>2, <1>3, <2>1, <2>2, <2>3 DEF CookieKept, NfsListingTypeOK
<1>5. DirectoriesOK'
  BY <1>1, <1>2 DEF Harmless, DirectoriesOK
<1>6. EntriesSeen'
  <2> SUFFICES ASSUME NEW n \in untouched', NEW e \in FileName, RealName(e) = n,
                      work.pc # "idle"
               PROVE  /\ e \in cloud' <=> e \in cloud
                      /\ n \in untouched
    BY <1>2 DEF EntriesSeen
  <2>1. n \in untouched /\ n \notin T
    BY <1>2
  <2>2. n \in FileNames
    BY <2>1 DEF NfsListingTypeOK
  <2>3. QED
    BY <1>1, <1>2, <2>1, <2>2 DEF Harmless
<1>7. CookieInv'
  <2> SUFFICES ASSUME ~renamed',
                      NEW m \in work'.marked \cup ({cookie'} \ {NoName}),
                      NEW n \in untouched'
               PROVE  n \in shown' \/ m.base < n.base
    BY DEF CookieInv, NothingBefore
  <2>1. ~renamed
    BY <1>3 DEF CookieKept, NfsListingTypeOK
  <2>2. m \in work.marked \cup ({cookie} \ {NoName})
    BY <1>2, <1>3 DEF CookieKept
  <2>3. QED
    BY <1>2, <2>1, <2>2 DEF CookieInv, NothingBefore
<1>8. QuietInv'
  BY <1>2 DEF QuietInv, NfsListingTypeOK
<1>9. OthersHideNothing'
  BY <1>2 DEF OthersHideNothing
<1>10. QED
  BY <1>4, <1>5, <1>6, <1>7, <1>8, <1>9

-----------------------------------------------------------------------------
(* The handler.                                                            *)
LEMMA ReadDirKeepsInv ==
  ASSUME ReaddirInv, ReadDir
  PROVE  ReaddirInv'
<1> USE DEF ReaddirInv
<1>1. /\ work' = [pc |-> "stat", entries |-> cloud, marked |-> {}]
      /\ UNCHANGED <<cloud, staged, cookie, shown, repeated, ended, untouched,
                     changed, renamed>>
  BY DEF ReadDir
<1>2. work'.pc = "stat" /\ work'.entries = cloud /\ work'.marked = {}
  BY <1>1
<1>3. NfsListingTypeOK'
  BY <1>1, <1>2 DEF NfsListingTypeOK, FileNames
<1>4. DirectoriesOK'
  BY <1>1, <1>2 DEF DirectoriesOK
<1>5. EntriesSeen'
  BY <1>1, <1>2 DEF EntriesSeen
<1>6. CookieInv'
  BY <1>1, <1>2 DEF CookieInv, NothingBefore
<1>7. QuietInv'
  BY <1>1, <1>2 DEF QuietInv, FileNames, Overlaid, Listing
<1>8. OthersHideNothing'
  BY <1>1 DEF OthersHideNothing
<1>9. QED
  BY <1>3, <1>4, <1>5, <1>6, <1>7, <1>8

LEMMA StatEntriesKeepsInv ==
  ASSUME ReaddirInv, StatEntries
  PROVE  ReaddirInv'
<1> USE DEF ReaddirInv
<1> DEFINE there == {e \in work.entries : Listed(work.entries, e) /\ e \in cloud}
<1>1. /\ work.pc = "stat"
      /\ work' = [pc |-> "reply", entries |-> there, marked |-> there \cap {cookie}]
      /\ UNCHANGED <<cloud, staged, cookie, shown, repeated, ended, untouched,
                     changed, renamed>>
  BY DEF StatEntries
<1>2. /\ work'.pc = "reply" /\ work'.entries = there
      /\ work'.marked = there \cap {cookie}
  BY <1>1
<1>3. work.entries \in SUBSET FileName
  BY DEF NfsListingTypeOK
<1>4. there \in SUBSET work.entries
  OBVIOUS
<1>5. NfsListingTypeOK'
  <2>1. \A e, f \in there : RealName(e) = RealName(f) => e = f
    BY <1>3, ListedOnce
  <2>2. there \in SUBSET FileName
    BY <1>3, <1>4
  <2> HIDE DEF there
  <2>3. QED
    BY <1>1, <1>2, <2>1, <2>2 DEF NfsListingTypeOK, FileNames
<1>6. DirectoriesOK'
  <2>1. IsFiniteSet(there)
    BY <1>4, FS_Subset DEF DirectoriesOK
  <2> HIDE DEF there
  <2>2. QED
    BY <1>1, <1>2, <2>1 DEF DirectoriesOK
<1>7. EntriesSeen'
  <2> SUFFICES ASSUME NEW n \in untouched, NEW e \in FileName, RealName(e) = n,
                      e \in cloud
               PROVE  \E f \in there : RealName(f) = n
    BY <1>1, <1>2 DEF EntriesSeen
  <2>1. e \in work.entries
    BY <1>1 DEF EntriesSeen
  <2>2. PICK f \in work.entries : Listed(work.entries, f) /\ RealName(f) = n
    BY <1>3, <2>1, ListedThere
  <2>3. f \in cloud
    BY <1>1, <1>3, <2>2 DEF EntriesSeen
  <2>4. QED
    BY <2>2, <2>3
<1>8. CookieInv'
  <2>1. work'.marked \subseteq {cookie} \ {NoName}
    BY <1>2, <1>3, <1>4, NoNameIsNone
  <2>2. QED
    BY <1>1, <2>1 DEF CookieInv, NothingBefore
<1>9. QuietInv'
  <2> SUFFICES ASSUME changed = 0
               PROVE  QuietInv'
    BY <1>1 DEF QuietInv
  <2>1. there = Listing
    BY <1>1 DEF QuietInv, Listing
  <2> HIDE DEF there
  <2>2. QED
    BY <1>1, <1>2, <2>1 DEF QuietInv, FileNames, Overlaid, Listing
<1>10. OthersHideNothing'
  BY <1>1 DEF OthersHideNothing
<1>11. QED
  BY <1>5, <1>6, <1>7, <1>8, <1>9, <1>10

(* What a READDIR answers with: the staged files over the iCloud entries,  *)
(* each name once; the names still to come; the first few of them.         *)
LEMMA AnswerFacts ==
  ASSUME ReaddirInv, work.pc = "reply",
         NEW all, all = Overlaid(work.entries),
         NEW rest, rest = Rest(all),
         NEW page, page = FirstOf(rest, MaxEntries)
  PROVE  /\ all \in SUBSET FileName
         /\ \A e, f \in all : RealName(e) = RealName(f) => e = f
         /\ \A n \in untouched : \E e \in all : RealName(e) = n
         /\ rest \in SUBSET all /\ IsFiniteSet(rest)
         /\ page \in SUBSET rest
         /\ \A e \in rest \ page : \A p \in page : p.base < e.base
         /\ page = {} => rest = {}
         /\ Cardinality(rest) <= MaxEntries => page = rest
<1> USE DEF ReaddirInv
<1>1. work.entries \in SUBSET FileName /\ staged \in SUBSET FileName
  BY DEF NfsListingTypeOK
<1>2. all \in SUBSET FileName
  BY <1>1 DEF Overlaid
<1>3. \A n \in staged : ~is_icloud_stub(n) /\ RealName(n) = n
  BY <1>1, NameFacts DEF DirectoriesOK
<1>4. \A e, f \in all : RealName(e) = RealName(f) => e = f
  BY <1>3 DEF Overlaid, NfsListingTypeOK
<1>5. ASSUME NEW n \in untouched
      PROVE  \E e \in all : RealName(e) = n
  <2>1. CASE n \in staged
    BY <1>3, <2>1 DEF Overlaid
  <2>2. CASE n \notin staged
    <3>1. PICK e \in cloud : RealName(e) = n
      BY <2>2 DEF NfsListingTypeOK, FileNames
    <3>2. PICK f \in work.entries : RealName(f) = n
      BY <3>1 DEF EntriesSeen, NfsListingTypeOK
    <3>3. QED
      BY <2>2, <3>2 DEF Overlaid
  <2>3. QED
    BY <2>1, <2>2
<1>6. IsFiniteSet(all)
  <2> DEFINE own == {e \in work.entries : RealName(e) \notin staged}
  <2>1. own \in SUBSET work.entries
    OBVIOUS
  <2>2. IsFiniteSet(own) /\ IsFiniteSet(staged)
    BY <2>1, FS_Subset DEF DirectoriesOK
  <2>3. all = own \cup staged
    BY DEF Overlaid
  <2> HIDE DEF own
  <2>4. IsFiniteSet(own \cup staged)
    BY <2>2, FS_Union
  <2>5. QED
    BY <2>3, <2>4
<1>7. rest \in SUBSET all
  BY DEF Rest
<1>8. IsFiniteSet(rest)
  BY <1>6, <1>7, FS_Subset
<1>9. rest \in SUBSET FileName
  BY <1>2, <1>7
<1>10. QED
  BY <1>2, <1>4, <1>5, <1>7, <1>8, <1>9, PageFacts, ReaddirAssumption

LEMMA ReplyKeepsInv ==
  ASSUME ReaddirInv, Reply
  PROVE  ReaddirInv'
<1> USE DEF ReaddirInv
<1> DEFINE all == Overlaid(work.entries)
           rest == Rest(all)
           page == FirstOf(rest, MaxEntries)
           got == {RealName(e) : e \in page}
           last == CHOOSE e \in page : \A f \in page : f.base <= e.base
<1>1. /\ work.pc = "reply" /\ work' = NoWork
      /\ shown' = shown \cup got
      /\ repeated' = (repeated \/ got \cap shown # {})
      /\ ended' = (Cardinality(rest) <= MaxEntries)
      /\ cookie' = IF page = {} THEN cookie ELSE last
      /\ UNCHANGED <<cloud, staged, untouched, changed, renamed>>
  BY DEF Reply
<1>2. /\ all \in SUBSET FileName
      /\ \A e, f \in all : RealName(e) = RealName(f) => e = f
      /\ \A n \in untouched : \E e \in all : RealName(e) = n
      /\ rest \in SUBSET all /\ IsFiniteSet(rest)
      /\ page \in SUBSET rest
      /\ \A e \in rest \ page : \A p \in page : p.base < e.base
      /\ page = {} => rest = {}
      /\ Cardinality(rest) <= MaxEntries => page = rest
  BY <1>1, AnswerFacts
<1>3. \A e \in all : e \in FileName /\ e.base \in Nat
                   /\ RealName(e) \in FileName /\ RealName(e).base = e.base
  BY <1>2, NameFacts
<1>4. page # {} => last \in page /\ \A f \in page : f.base <= last.base
  <2>1. page \in SUBSET FileName /\ IsFiniteSet(page)
    BY <1>2, FS_Subset
  <2> HIDE DEF page
  <2>2. QED
    BY <2>1, LastEntry
<1>5. ~renamed =>
        \A n \in untouched : n \in shown \/ \E e \in rest : RealName(e) = n
  <2> SUFFICES ASSUME ~renamed, NEW n \in untouched, n \notin shown
               PROVE  \E e \in rest : RealName(e) = n
    OBVIOUS
  <2>1. PICK e \in all : RealName(e) = n
    BY <1>2
  <2>2. Marked \subseteq work.marked \cup ({cookie} \ {NoName})
    BY NoNameIsNone DEF Marked, NfsListingTypeOK
  <2>3. \A m \in Marked : m.base < e.base
    BY <1>3, <2>1, <2>2 DEF CookieInv, NothingBefore
  <2> HIDE DEF all
  <2>4. QED
    BY <2>1, <2>3 DEF Rest
<1>6. Marked = {} => rest = all
  BY DEF Rest
<1>7. Marked # {} => rest = {e \in all : \E m \in Marked : m.base < e.base}
  BY DEF Rest
<1> HIDE DEF last, page, rest, all
<1>8. got \in SUBSET FileName
  BY <1>2, <1>3
<1>9. NfsListingTypeOK'
  <2>1. work' \in [pc: {"idle", "stat", "reply"}, entries: SUBSET FileName,
                   marked: SUBSET FileName]
        /\ work'.marked = {} /\ work'.entries = {}
    BY <1>1 DEF NoWork
  <2>2. cookie' \in FileName \cup {NoName}
    BY <1>1, <1>2, <1>3, <1>4 DEF NfsListingTypeOK
  <2>3. repeated' \in BOOLEAN /\ ended' \in BOOLEAN
    BY <1>1
  <2>4. shown' \subseteq FileName
    BY <1>1, <1>8 DEF NfsListingTypeOK
  <2> HIDE DEF got
  <2>5. QED
    BY <1>1, <2>1, <2>2, <2>3, <2>4 DEF NfsListingTypeOK, FileNames
<1>10. DirectoriesOK'
  <2>1. work'.entries = {}
    BY <1>1 DEF NoWork
  <2>2. QED
    BY <1>1, <2>1, FS_EmptySet DEF DirectoriesOK
<1>11. EntriesSeen'
  BY <1>1 DEF EntriesSeen, NoWork
<1>12. CookieInv'
  <2> SUFFICES ASSUME ~renamed, NEW n \in untouched, n \notin shown', cookie' # NoName
               PROVE  cookie'.base < n.base
    BY <1>1 DEF CookieInv, NothingBefore, NoWork
  <2>1. PICK e \in rest : RealName(e) = n
    BY <1>1, <1>5
  <2>2. e \notin page
    BY <1>1, <2>1
  <2>3. page # {}
    BY <1>2, <2>1
  <2>4. cookie' \in page
    BY <1>1, <1>4, <2>3
  <2>5. QED
    BY <1>2, <1>3, <2>1, <2>2, <2>4
<1>13. QuietInv'
  <2> SUFFICES ASSUME changed = 0
               PROVE  QuietInv'
    BY <1>1 DEF QuietInv
  <2>1. /\ untouched = FileNames /\ shown \subseteq FileNames
        /\ ~renamed /\ ~repeated
        /\ cookie # NoName => cookie \in Overlaid(Listing)
        /\ \A n \in shown : cookie # NoName /\ n.base <= cookie.base
        /\ work.entries = Listing /\ work.marked = Listing \cap {cookie}
    BY <1>1 DEF QuietInv
  <2>2. all = Overlaid(Listing)
    BY <2>1 DEF all
  <2>3. got \subseteq FileNames
    <3>1. \A e \in all : e \in cloud \/ e \in staged
      BY <2>2 DEF Overlaid, Listing
    <3>2. QED
      BY <1>2, <3>1, NamesInDirectory
  <2>4. cookie # NoName => Marked = {cookie}
    BY <2>1 DEF Marked, Overlaid, NfsListingTypeOK
  <2>5. cookie # NoName => \A e \in rest : cookie.base < e.base
    BY <1>7, <2>4
  <2>6. got \cap shown = {}
    <3> SUFFICES ASSUME NEW e \in page, RealName(e) \in shown
                 PROVE  FALSE
      OBVIOUS
    <3>1. cookie \in all /\ cookie # NoName
      BY <2>1, <2>2
    <3>2. e \in all /\ cookie.base < e.base /\ e.base <= cookie.base
      BY <1>2, <1>3, <2>1, <2>5, <3>1
    <3>3. QED
      BY <1>3, <3>1, <3>2
  <2>7. cookie' # NoName => cookie' \in all
    BY <1>1, <1>2, <1>4, <2>1, <2>2
  <2>8. ASSUME NEW n \in shown'
        PROVE  cookie' # NoName /\ n.base <= cookie'.base
    <3>1. CASE page = {}
      BY <1>1, <2>1, <3>1
    <3>2. CASE page # {}
      <4>1. cookie' \in page /\ cookie' \in rest /\ cookie' \in all /\ cookie' # NoName
        BY <1>1, <1>2, <1>3, <1>4, <3>2, NoNameIsNone
      <4>2. CASE n \in shown
        <5>1. cookie \in all /\ n.base <= cookie.base /\ cookie.base < cookie'.base
          BY <2>1, <2>2, <2>5, <4>1, <4>2
        <5>2. n \in FileName
          BY <4>2 DEF NfsListingTypeOK
        <5>3. QED
          BY <1>3, <4>1, <5>1, <5>2, NameFacts
      <4>3. CASE n \in got
        <5>1. PICK e \in page : n = RealName(e)
          BY <4>3
        <5>2. e.base <= cookie'.base /\ n.base = e.base
          BY <1>1, <1>2, <1>3, <1>4, <3>2, <5>1
        <5>3. QED
          BY <4>1, <5>2
      <4>4. QED
        BY <1>1, <4>2, <4>3
    <3>3. QED
      BY <3>1, <3>2
  <2>9. cookie' # NoName => cookie' \in Overlaid(Listing)'
    <3>1. Overlaid(Listing)' = Overlaid(Listing)
      BY <1>1 DEF Overlaid, Listing
    <3>2. QED
      BY <2>2, <2>7, <3>1
  <2>10. untouched' = FileNames' /\ shown' \subseteq FileNames'
    BY <1>1, <2>1, <2>3 DEF FileNames
  <2>11. ~renamed' /\ ~repeated' /\ work'.pc = "idle"
    BY <1>1, <2>1, <2>6 DEF NoWork
  <2> HIDE DEF got
  <2>12. QED
    BY <2>8, <2>9, <2>10, <2>11 DEF QuietInv
<1>14. OthersHideNothing'
  BY <1>1, <1>2, <1>5 DEF OthersHideNothing
<1>15. QED
  BY <1>9, <1>10, <1>11, <1>12, <1>13, <1>14

-----------------------------------------------------------------------------
(* The specification.                                                      *)
LEMMA ReaddirInitInv ==
  ASSUME ReaddirInit
  PROVE  ReaddirInv
<1>1. work.pc = "idle" /\ work.entries = {} /\ work.marked = {}
      /\ work \in [pc: {"idle", "stat", "reply"}, entries: SUBSET FileName,
                   marked: SUBSET FileName]
  BY DEF ReaddirInit, NoWork
<1>2. NfsListingTypeOK
  <2>1. changed \in 0..MaxChanges
    BY ReaddirAssumption DEF ReaddirInit
  <2>2. staged \subseteq FileName /\ cloud \subseteq FileName
    BY DEF ReaddirInit
  <2>3. /\ cookie \in FileName \cup {NoName}
        /\ repeated \in BOOLEAN /\ ended \in BOOLEAN /\ renamed \in BOOLEAN
        /\ shown \subseteq FileName /\ untouched \subseteq FileNames
    BY DEF ReaddirInit
  <2>4. QED
    BY <1>1, <2>1, <2>2, <2>3 DEF NfsListingTypeOK
<1>3. DirectoriesOK
  BY <1>1, FS_EmptySet DEF ReaddirInit, DirectoriesOK
<1>4. EntriesSeen
  BY <1>1 DEF EntriesSeen
<1>5. CookieInv
  BY <1>1 DEF ReaddirInit, CookieInv
<1>6. QuietInv
  BY <1>1 DEF ReaddirInit, QuietInv
<1>7. OthersHideNothing
  BY DEF ReaddirInit, OthersHideNothing
<1>8. QED
  BY <1>2, <1>3, <1>4, <1>5, <1>6, <1>7 DEF ReaddirInv

LEMMA ReaddirNextInv ==
  ASSUME ReaddirInv, [ReaddirNext]_readdirVars
  PROVE  ReaddirInv'
<1>1. NfsListingTypeOK /\ DirectoriesOK
  BY DEF ReaddirInv
<1>2. CASE ReadDir
  BY <1>2, ReadDirKeepsInv
<1>3. CASE StatEntries
  BY <1>3, StatEntriesKeepsInv
<1>4. CASE Reply
  BY <1>4, ReplyKeepsInv
<1>5. ASSUME NEW n \in FileName, NewFile(n)
      PROVE  ReaddirInv'
  BY <1>1, <1>5, NewFileChange, ChangeKeepsInv
<1>6. ASSUME NEW n \in FileName, RemoveFile(n)
      PROVE  ReaddirInv'
  BY <1>1, <1>6, RemoveFileChange, ChangeKeepsInv
<1>7. ASSUME NEW n \in FileName, SyncFile(n)
      PROVE  ReaddirInv'
  BY <1>1, <1>7, SyncFileChange, ChangeKeepsInv
<1>8. ASSUME NEW n \in FileName, StageFile(n) \/ PublishFile(n) \/ UnlinkStaged(n)
      PROVE  ReaddirInv'
  BY <1>1, <1>8, StagingChange, ChangeKeepsInv
<1>9. ASSUME NEW n \in FileName, NEW m \in FileName, RenameFile(n, m)
      PROVE  ReaddirInv'
  BY <1>1, <1>9, RenameFileChange, ChangeKeepsInv
<1>10. CASE UNCHANGED readdirVars
  BY <1>10 DEF readdirVars, ReaddirInv, NfsListingTypeOK, DirectoriesOK, EntriesSeen,
     CookieInv, NothingBefore, QuietInv, OthersHideNothing, FileNames, Overlaid, Listing
<1>11. QED
  BY <1>2, <1>3, <1>4, <1>5, <1>6, <1>7, <1>8, <1>9, <1>10
     DEF ReaddirNext, ReaddirStep

(* What every READDIR of a listing has found, and what its cookie stands   *)
(* for: the inductive invariant of listings through the NFS server.        *)
THEOREM ReaddirInvariant == ReaddirSpec => []ReaddirInv
<1>1. ReaddirInit => ReaddirInv
  BY ReaddirInitInv
<1>2. ReaddirInv /\ [ReaddirNext]_readdirVars => ReaddirInv'
  BY ReaddirNextInv
<1>3. QED
  BY <1>1, <1>2, PTL DEF ReaddirSpec

(* Whatever its size and that of the pages, a directory in which nothing   *)
(* changes is listed exactly: every staged file, local file and placeholder*)
(* once, under the name clients know it by.                                *)
THEOREM ListingExact == ReaddirSpec => []NfsListingExact
<1>1. ReaddirInv => NfsListingExact
  BY DEF ReaddirInv, QuietInv, OthersHideNothing, NfsListingExact
<1>2. QED
  BY <1>1, ReaddirInvariant, PTL

(* Any number of creations, removals, evictions, downloads, copy-ups and   *)
(* promotions between and during the READDIRs of a listing hides no other  *)
(* file from it; only renames can.                                         *)
THEOREM ListingHidesNothing == ReaddirSpec => []OthersHideNothing
<1>1. ReaddirInv => OthersHideNothing
  BY DEF ReaddirInv
<1>2. QED
  BY <1>1, ReaddirInvariant, PTL

=============================================================================
