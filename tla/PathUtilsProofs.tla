---------------------------- MODULE PathUtilsProofs ----------------------------
(***************************************************************************)
(* The conversions between files' names and placeholders' names undo each  *)
(* other, and what a listing shows can be looked up, for any names.        *)
(***************************************************************************)
EXTENDS PathUtils, TLAPS

(* Any name, with any number of affixes around its base.                   *)
AnyName == {n \in [base: Nat, wraps: Nat] : n.base = 0 => n.wraps > 0}

(* A file's placeholder is recognised, whatever the file is called, and    *)
(* stands for that file.                                                   *)
THEOREM StubOfName ==
  ASSUME NEW n \in AnyName
  PROVE  /\ is_icloud_stub(real_to_stub_name(n))
         /\ stub_to_real_name(real_to_stub_name(n)) = n
<1> DEFINE s == [base |-> n.base, wraps |-> n.wraps + 1]
<1>1. n = [base |-> n.base, wraps |-> n.wraps] /\ n.base \in Nat /\ n.wraps \in Nat
  BY DEF AnyName
<1>2. real_to_stub_name(n) = s
  BY <1>1 DEF real_to_stub_name
<1>3. is_icloud_stub(s)
  BY <1>1 DEF is_icloud_stub, Length, AnyName
<1>4. [s EXCEPT !.wraps = @ - 1] = n
  BY <1>1
<1>5. QED
  BY <1>2, <1>3, <1>4 DEF stub_to_real_name

(* The other way round: what stub_to_real_name makes of a stub is a proper *)
(* name, and its placeholder is that stub.                                 *)
THEOREM NameOfStub ==
  ASSUME NEW e \in AnyName, is_icloud_stub(e)
  PROVE  /\ stub_to_real_name(e) \in AnyName
         /\ real_to_stub_name(stub_to_real_name(e)) = e
<1> DEFINE n == [base |-> e.base, wraps |-> e.wraps - 1]
<1>1. e = [base |-> e.base, wraps |-> e.wraps] /\ e.base \in Nat /\ e.wraps \in Nat
  BY DEF AnyName
<1>2. stub_to_real_name(e) = n
  BY <1>1 DEF stub_to_real_name
<1>3. n \in AnyName
  BY <1>1 DEF AnyName, is_icloud_stub, Length
<1>4. [n EXCEPT !.wraps = @ + 1] = e
  BY <1>1
<1>5. QED
  BY <1>2, <1>3, <1>4 DEF real_to_stub_name

(* What a directory's listing shows can be looked up: the name that a      *)
(* client sees for a listed entry leads back to that entry.                *)
THEOREM ListedResolves ==
  ASSUME NEW entries \in SUBSET AnyName, NEW e \in entries, Listed(entries, e)
  PROVE  resolve_child(entries, RealName(e)) = e
<1>1. CASE is_icloud_stub(e)
  <2> DEFINE n == stub_to_real_name(e)
  <2>1. RealName(e) = n /\ n \notin entries /\ real_to_stub_name(n) = e
    BY <1>1, NameOfStub DEF RealName, Listed
  <2> HIDE DEF n
  <2>2. resolve_child(entries, n) = e
    BY <2>1 DEF resolve_child
  <2>3. QED
    BY <2>1, <2>2
<1>2. CASE ~is_icloud_stub(e)
  <2>1. RealName(e) = e
    BY <1>2 DEF RealName
  <2>2. resolve_child(entries, e) = e
    BY DEF resolve_child
  <2>3. QED
    BY <2>1, <2>2
<1>3. QED
  BY <1>1, <1>2

-----------------------------------------------------------------------------
(* Names.  Among the names that clients see, the base says which it is.    *)
LEMMA NameShape ==
  ASSUME NEW e \in FileName
  PROVE  /\ e \in [base: Bases, wraps: 0..1]
         /\ e.base \in Bases /\ e.base \in Nat
         /\ e.wraps \in {0, 1}
         /\ e.base = 0 => e.wraps = 1
<1>1. e \in [base: Bases, wraps: 0..1] /\ (e.base = 0 => e.wraps > 0)
  BY DEF FileName
<1>2. e.base \in Bases /\ e.wraps \in 0..1
  BY <1>1
<1>3. e.wraps \in {0, 1}
  BY <1>2
<1>4. e.base \in Nat
  BY <1>2, BasesAssumption
<1>5. QED
  BY <1>1, <1>2, <1>3, <1>4

LEMMA NameEqual ==
  ASSUME NEW e \in FileName, NEW f \in FileName,
         e.base = f.base, e.wraps = f.wraps
  PROVE  e = f
<1>1. e \in [base: Bases, wraps: 0..1] /\ f \in [base: Bases, wraps: 0..1]
  BY NameShape
<1>2. QED
  BY <1>1

LEMMA NameFacts ==
  ASSUME NEW e \in FileName
  PROVE  /\ e.base \in Nat
         /\ RealName(e) \in FileName /\ RealName(e).base = e.base
         /\ ~is_icloud_stub(RealName(e))
         /\ ~is_icloud_stub(e) => RealName(e) = e
         /\ RealName(e) # NoName
<1>1. e \in [base: Bases, wraps: 0..1] /\ (e.base = 0 => e.wraps > 0)
  BY DEF FileName
<1>2. e.base \in Nat /\ e.base \in Bases /\ e.wraps \in {0, 1}
  BY NameShape
<1>3. CASE is_icloud_stub(e)
  <2>1. e.base # 0 /\ e.wraps = 1
    BY <1>2, <1>3 DEF is_icloud_stub, Length
  <2> DEFINE n == [e EXCEPT !.wraps = @ - 1]
  <2>2. RealName(e) = n
    BY <1>3 DEF RealName, stub_to_real_name
  <2>3. n \in [base: Bases, wraps: 0..1] /\ n.base = e.base /\ n.wraps = 0
    BY <1>1, <2>1
  <2> HIDE DEF n
  <2>4. n \in FileName /\ ~is_icloud_stub(n)
    BY <2>1, <2>3 DEF FileName, is_icloud_stub
  <2>5. n # NoName
    BY <2>1, <2>3 DEF NoName
  <2>6. QED
    BY <1>2, <1>3, <2>2, <2>3, <2>4, <2>5
<1>4. CASE ~is_icloud_stub(e)
  BY <1>1, <1>2, <1>4 DEF RealName, NoName
<1>5. QED
  BY <1>3, <1>4

LEMMA NoNameIsNone == NoName \notin FileName
BY DEF NoName, FileName

LEMMA PlainByBase ==
  ASSUME NEW e \in FileName, NEW f \in FileName,
         ~is_icloud_stub(e), ~is_icloud_stub(f), e.base = f.base
  PROVE  e = f
<1>1. e.wraps = f.wraps
  BY NameShape DEF is_icloud_stub, Length
<1>2. QED
  BY <1>1, NameEqual

LEMMA SameName ==
  ASSUME NEW e \in FileName, NEW f \in FileName
  PROVE  RealName(e) = RealName(f) <=> e.base = f.base
BY NameFacts, PlainByBase

(* A file and its placeholder.                                             *)
LEMMA StubFacts ==
  ASSUME NEW n \in FileName, ~is_icloud_stub(n), real_to_stub_name(n) \in FileName
  PROVE  RealName(real_to_stub_name(n)) = n
<1>1. n \in [base: Bases, wraps: 0..1]
  BY DEF FileName
<1>2. real_to_stub_name(n).base = n.base
  BY <1>1 DEF real_to_stub_name
<1>3. QED
  BY <1>2, SameName, NameFacts

LEMMA StubStandsFor ==
  ASSUME NEW e \in FileName, NEW f \in FileName, is_icloud_stub(e),
         is_icloud_stub(f), e.base = f.base
  PROVE  e = f
<1>1. e.wraps = f.wraps
  BY NameShape DEF is_icloud_stub
<1>2. QED
  BY <1>1, NameEqual

LEMMA ResolvedName ==
  ASSUME NEW entries \in SUBSET FileName, NEW n \in FileName, ~is_icloud_stub(n),
         NEW r, r = resolve_child(entries, n)
  PROVE  r = NoName \/ (r \in entries /\ RealName(r) = n)
BY NameFacts, StubFacts DEF resolve_child

(* What a directory lists: one entry for each name in it.                  *)
LEMMA ListedOnce ==
  ASSUME NEW entries \in SUBSET FileName, NEW e \in entries, NEW f \in entries,
         Listed(entries, e), Listed(entries, f), RealName(e) = RealName(f)
  PROVE  e = f
<1>1. CASE is_icloud_stub(e) /\ is_icloud_stub(f)
  BY <1>1, SameName, StubStandsFor
<1>2. CASE ~is_icloud_stub(e) \/ ~is_icloud_stub(f)
  BY <1>2 DEF Listed, RealName
<1>3. QED
  BY <1>1, <1>2

LEMMA ListedThere ==
  ASSUME NEW entries \in SUBSET FileName, NEW e \in entries
  PROVE  \E f \in entries : Listed(entries, f) /\ RealName(f) = RealName(e)
<1>1. CASE Listed(entries, e)
  BY <1>1
<1>2. CASE ~Listed(entries, e)
  <2>1. is_icloud_stub(e) /\ RealName(e) \in entries
    BY <1>2, NameFacts DEF Listed, RealName
  <2>2. Listed(entries, RealName(e)) /\ RealName(RealName(e)) = RealName(e)
    BY <2>1, NameFacts DEF Listed
  <2>3. QED
    BY <2>1, <2>2
<1>3. QED
  BY <1>1, <1>2

=============================================================================
