-------------------------- MODULE StagingLayerProofs --------------------------
(***************************************************************************)
(* What the staging layer guarantees for every set of names and writes and *)
(* any number of faults, whatever the request handlers do meanwhile.       *)
(***************************************************************************)
EXTENDS StagingLayer, TLAPS

(* The actions of the handlers and of iCloud never move the promoter: they *)
(* only mark the file it is working on as touched.                         *)
LEMMA TouchKeepsPromoter ==
  ASSUME TypeOK, NEW S, Touch(S)
  PROVE  /\ prom' \in Promoter
         /\ prom'.pc = prom.pc
         /\ prom'.boot = prom.boot
         /\ prom'.todo = prom.todo
         /\ prom'.name = prom.name
         /\ prom'.buf = prom.buf
         /\ prom'.touched = (prom.touched \/ prom.name \in S)
BY DEF TypeOK, Promoter, Touch

(* The types hold at first ...                                             *)
LEMMA LayerInitType == Init => TypeOK
BY LayerAssumption DEF Init, TypeOK, File, Promoter, Promoting, Starting

(* ... and every step of the server, the handlers and iCloud keeps them.   *)
LEMMA LayerTypeStep ==
  ASSUME TypeOK, [Next]_disk
  PROVE  TypeOK'
<1> USE LayerAssumption DEF TypeOK, File, Promoting
<1>1. CASE UNCHANGED disk
  BY <1>1 DEF disk
<1>2. CASE ClientStep
  <2>1. ASSUME NEW n \in Names, CopyUp(n) \/ CopyUpFails(n)
        PROVE  TypeOK'
    BY <2>1, TouchKeepsPromoter DEF CopyUp, CopyUpFails, Fault
  <2>2. ASSUME NEW n \in Names, NEW c \in File, SetStaged(n, c)
        PROVE  TypeOK'
    BY <2>2, TouchKeepsPromoter DEF SetStaged
  <2>3. ASSUME NEW n \in Names, NEW w \in Writes, WriteStaged(n, w)
        PROVE  TypeOK'
    <3>1. Written(staged[n], w) \in File
      BY <2>3 DEF WriteStaged, Written
    <3>2. QED
      BY <2>2, <2>3, <3>1 DEF WriteStaged
  <2>4. ASSUME NEW n \in Names, RemoveCloud(n)
        PROVE  TypeOK'
    BY <2>4, TouchKeepsPromoter DEF RemoveCloud
  <2>5. ASSUME NEW a \in Names, NEW b \in Names, RenameStaged(a, b)
        PROVE  TypeOK'
    BY <2>5, TouchKeepsPromoter DEF RenameStaged
  <2>6. ASSUME NEW a \in Names, NEW b \in Names, RenameCloud(a, b)
        PROVE  TypeOK'
    BY <2>6, TouchKeepsPromoter DEF RenameCloud
  <2>7. ASSUME NEW n \in Names, OperationFails(n)
        PROVE  TypeOK'
    BY <2>7 DEF OperationFails, Fault
  <2>8. QED
    BY <1>2, <2>1, <2>2, <2>3, <2>4, <2>5, <2>6, <2>7
       DEF ClientStep, CreateFile, TruncateStaged, RemoveStaged
<1>3. CASE SyncStep
  BY <1>3, TouchKeepsPromoter DEF SyncStep, SyncCloud
<1>4. ASSUME NEW n \in Names, Age(n)
      PROVE  TypeOK'
  BY <1>4 DEF Age
<1>5. CASE PromoterStep
  <2>1. CASE StartWalk \/ EndWalk
    <3>1. {n \in Names : staged[n] # None} \in SUBSET Names
      OBVIOUS
    <3>2. CASE StartWalk
      <4>1. prom' \in Promoter /\ ~Promoting'
        BY <3>1, <3>2 DEF StartWalk, Promoter
      <4>2. QED
        BY <3>2, <4>1 DEF StartWalk
    <3>3. CASE EndWalk
      <4>1. prom' \in Promoter /\ ~Promoting'
        BY <3>3 DEF EndWalk, Promoter
      <4>2. QED
        BY <3>3, <4>1 DEF EndWalk
    <3>4. QED
      BY <2>1, <3>2, <3>3
  <2>2. ASSUME NEW n \in Names, SkipFresh(n) \/ SkipVanished(n) \/ Select(n)
        PROVE  TypeOK'
    <3>1. prom.todo \ {n} \in SUBSET Names
      BY DEF Promoter
    <3>2. CASE SkipFresh(n)
      <4>1. prom' \in Promoter /\ ~Promoting'
        BY <3>1, <3>2 DEF SkipFresh, Promoter
      <4>2. QED
        BY <3>2, <4>1 DEF SkipFresh
    <3>3. CASE SkipVanished(n)
      <4>1. prom' \in Promoter /\ ~Promoting'
        BY <3>1, <3>3 DEF SkipVanished, Promoter
      <4>2. QED
        BY <3>3, <4>1 DEF SkipVanished
    <3>4. CASE Select(n)
      <4>1. prom' \in Promoter /\ prom'.name = n
        BY <3>1, <3>4 DEF Select, Taken, Promoter
      <4>2. QED
        BY <3>4, <4>1 DEF Select
    <3>5. QED
      BY <2>2, <3>2, <3>3, <3>4
  <2>3. CASE Copy
    <3>1. prom.name \in Names
      BY <2>3 DEF Copy, Promoting
    <3>2. staged[prom.name] \in File
      BY <3>1
    <3>3. tmp' \in [Names -> File]
      BY <2>3, <3>2 DEF Copy, Copied
    <3>4. prom' \in Promoter
      BY <2>3, <3>2 DEF Copy, Promoter
    <3>5. QED
      BY <2>3, <3>3, <3>4 DEF Copy
  <2>4. CASE CopyMissing \/ CopyFails \/ PromotionFails
    <3>1. prom' = NextEntry
      BY <2>4 DEF CopyMissing, CopyFails, PromotionFails, OnError
    <3>2. prom' \in Promoter /\ prom'.pc = "walk"
      BY <3>1 DEF NextEntry, Promoter
    <3>3. tmp' \in [Names -> File] /\ faults' \in 0..MaxFaults
      BY <2>4 DEF CopyMissing, CopyFails, PromotionFails, Fault
    <3>4. QED
      BY <2>4, <3>2, <3>3 DEF CopyMissing, CopyFails, PromotionFails
  <2>5. CASE Publish
    <3>1. prom' \in Promoter
      BY <2>5 DEF Publish, Promoter
    <3>2. cloud' \in [Names -> File] /\ tmp' \in [Names -> File]
      BY <2>5 DEF Publish, Promoting
    <3>3. QED
      BY <2>5, <3>1, <3>2 DEF Publish
  <2>6. CASE Unlink
    BY <2>6 DEF Unlink, NextEntry, Promoter
  <2>7. QED
    BY <1>5, <2>1, <2>2, <2>3, <2>4, <2>5, <2>6 DEF PromoterStep
<1>6. CASE Crash
  BY <1>6 DEF Crash, Fault, Starting, Promoter
<1>7. QED
  BY <1>1, <1>2, <1>3, <1>4, <1>5, <1>6 DEF Next

(* The two directories, the temporary files and the promoter keep their    *)
(* types in every step of the server, the handlers and iCloud.             *)
THEOREM LayerTypeOK == Spec => []TypeOK
BY LayerInitType, LayerTypeStep, PTL DEF Spec

-----------------------------------------------------------------------------
(* The operations of the handlers and of iCloud change a layer's file of   *)
(* the promoter's name only while marking it as touched.                   *)
LEMMA ClientStepsTouch ==
  ASSUME TypeOK, ClientStep \/ SyncStep
  PROVE  /\ prom'.pc = prom.pc
         /\ prom'.name = prom.name
         /\ prom'.buf = prom.buf
         /\ prom.touched => prom'.touched
         /\ tmp' = tmp
         /\ \A n \in Names :
              \/ prom'.touched /\ n = prom.name
              \/ n # prom.name
              \/ staged'[n] = staged[n] /\ cloud'[n] = cloud[n]
<1>1. \E S \in SUBSET Names :
        /\ Touch(S)
        /\ tmp' = tmp
        /\ \A n \in Names \ S : staged'[n] = staged[n] /\ cloud'[n] = cloud[n]
  <2>1. CASE \E n \in Names : \/ CopyUp(n) \/ CopyUpFails(n)
                              \/ RemoveCloud(n)
                              \/ \E c : SetStaged(n, c)
                              \/ \E c : SyncCloud(n, c)
    <3>1. PICK n \in Names : \/ CopyUp(n) \/ CopyUpFails(n)
                             \/ RemoveCloud(n)
                             \/ \E c : SetStaged(n, c)
                             \/ \E c : SyncCloud(n, c)
      BY <2>1
    <3>2. Touch({n}) /\ tmp' = tmp
      BY <3>1 DEF CopyUp, CopyUpFails, RemoveCloud, SetStaged, SyncCloud
    <3>3. \A m \in Names \ {n} : staged'[m] = staged[m] /\ cloud'[m] = cloud[m]
      BY <3>1 DEF CopyUp, CopyUpFails, RemoveCloud, SetStaged, SyncCloud, TypeOK
    <3>4. QED
      BY <3>2, <3>3
  <2>2. CASE \E a, b \in Names : RenameStaged(a, b) \/ RenameCloud(a, b)
    <3>1. PICK a, b \in Names : RenameStaged(a, b) \/ RenameCloud(a, b)
      BY <2>2
    <3>2. Touch({a, b}) /\ tmp' = tmp
      BY <3>1 DEF RenameStaged, RenameCloud
    <3>3. \A m \in Names \ {a, b} :
            staged'[m] = staged[m] /\ cloud'[m] = cloud[m]
      BY <3>1 DEF RenameStaged, RenameCloud, TypeOK
    <3>4. QED
      BY <3>2, <3>3
  <2>3. CASE \E n \in Names : OperationFails(n)
    <3>1. Touch({}) /\ tmp' = tmp /\ staged' = staged /\ cloud' = cloud
      BY <2>3 DEF OperationFails, Touch, TypeOK, Promoter
    <3>2. QED
      BY <3>1
  <2>4. QED
    BY <2>1, <2>2, <2>3 DEF ClientStep, SyncStep, CreateFile, WriteStaged,
                      TruncateStaged, RemoveStaged
<1>2. QED
  BY <1>1, TouchKeepsPromoter

(* PromotionInv is inductive: only the promoter's own copy, rename and     *)
(* removal, and touches, bear on the file it is working on.                *)
THEOREM LayerPromotionInv == Spec => []PromotionInv
<1>1. Init => PromotionInv
  BY DEF Init, PromotionInv, Starting
<1>2. ASSUME TypeOK, PromotionInv, [Next]_disk
      PROVE  PromotionInv'
  <2>1. CASE UNCHANGED disk
    BY <1>2, <2>1 DEF PromotionInv, disk
  <2>2. CASE ClientStep \/ SyncStep
    <3>1. prom.pc \in {"publish", "unlink"} => prom.name \in Names
      BY <1>2 DEF TypeOK, Promoting
    <3>2. QED
      BY <1>2, <2>2, <3>1, ClientStepsTouch DEF PromotionInv
  <2>3. ASSUME NEW n \in Names, Age(n)
        PROVE  PromotionInv'
    BY <1>2, <2>3 DEF PromotionInv, Age
  <2>4. CASE StartWalk \/ EndWalk
    BY <1>2, <2>4 DEF StartWalk, EndWalk, PromotionInv, TypeOK, Promoter
  <2>5. ASSUME NEW n \in Names, SkipFresh(n) \/ SkipVanished(n) \/ Select(n)
        PROVE  PromotionInv'
    BY <1>2, <2>5
       DEF SkipFresh, SkipVanished, Select, Taken, PromotionInv, TypeOK, Promoter
  <2>6. CASE Copy
    <3>1. prom.name \in Names
      BY <1>2, <2>6 DEF Copy, Copied, TypeOK, Promoting
    <3>2. prom'.pc = "publish" /\ prom'.name = prom.name
          /\ prom'.buf = staged[prom.name]
      BY <1>2, <2>6 DEF Copy, Copied, TypeOK, Promoter
    <3>3. tmp'[prom.name] = staged[prom.name] /\ staged' = staged
      BY <1>2, <2>6, <3>1 DEF Copy, Copied, TypeOK
    <3>4. QED
      BY <2>6, <3>2, <3>3 DEF Copy, PromotionInv
  <2>7. CASE CopyMissing \/ CopyFails \/ PromotionFails \/ Unlink
    <3>1. prom' = NextEntry
      BY <2>7 DEF CopyMissing, CopyFails, PromotionFails, OnError, Unlink
    <3>2. prom'.pc = "walk"
      BY <1>2, <3>1 DEF NextEntry, TypeOK, Promoter
    <3>3. QED
      BY <3>2 DEF PromotionInv
  <2>8. CASE Publish
    <3>1. prom.name \in Names
      BY <1>2, <2>8 DEF Publish, TypeOK, Promoting
    <3>2. /\ prom'.pc = "unlink" /\ prom'.name = prom.name
          /\ prom'.buf = prom.buf /\ prom'.touched = prom.touched
      BY <1>2, <2>8 DEF Publish, TypeOK, Promoter
    <3>3. cloud'[prom.name] = tmp[prom.name] /\ staged' = staged
      BY <1>2, <2>8, <3>1 DEF Publish, TypeOK
    <3>4. QED
      BY <1>2, <2>8, <3>2, <3>3 DEF Publish, PromotionInv
  <2>9. CASE Crash
    BY <2>9 DEF Crash, Starting, PromotionInv
  <2>10. QED
    BY <1>2, <2>1, <2>2, <2>3, <2>4, <2>5, <2>6, <2>7, <2>8, <2>9
       DEF Next, PromoterStep
<1>3. QED
  BY <1>1, <1>2, LayerTypeOK, PTL DEF Spec

-----------------------------------------------------------------------------
(* Only the rename of promote_file changes iCloud and only its removal     *)
(* changes staging, and both only under the promoter's name.               *)
LEMMA PromoterChanges ==
  ASSUME TypeOK, PromoterStep, NEW n \in Names
  PROVE  \/ staged'[n] = staged[n] /\ cloud'[n] = cloud[n]
         \/ Publish /\ n = prom.name
         \/ Unlink /\ n = prom.name
<1>1. CASE Publish
  BY <1>1 DEF Publish, TypeOK
<1>2. CASE Unlink
  BY <1>2 DEF Unlink, TypeOK
<1>3. CASE ~Publish /\ ~Unlink
  BY <1>3 DEF PromoterStep, StartWalk, EndWalk, SkipFresh, SkipVanished, Select,
              Copy, CopyMissing, CopyFails, PromotionFails
<1>4. QED
  BY <1>1, <1>2, <1>3

(* A promotion is invisible to clients unless somebody changed that very   *)
(* file while it was being promoted: before the rename the staged file     *)
(* still hides iCloud's, and at the removal iCloud holds the same bytes.   *)
THEOREM LayerPromotionInvisible == Spec => PromotionInvisible
<1>1. ASSUME TypeOK, PromotionInv, PromoterStep, NEW n \in Names
      PROVE  Visible(n)' = Visible(n) \/ (n = prom.name /\ prom.touched)
  <2>1. CASE staged'[n] = staged[n] /\ cloud'[n] = cloud[n]
    BY <2>1 DEF Visible
  <2>2. CASE Publish /\ n = prom.name
    BY <1>1, <2>2 DEF Publish, PromotionInv, Visible
  <2>3. CASE Unlink /\ n = prom.name
    BY <1>1, <2>3 DEF Unlink, PromotionInv, Visible, TypeOK
  <2>4. QED
    BY <1>1, <2>1, <2>2, <2>3, PromoterChanges
<1>2. ASSUME TypeOK, PromotionInv
      PROVE  InvisibleStep
  BY <1>1, <1>2 DEF InvisibleStep
<1>3. QED
  BY <1>2, LayerTypeOK, LayerPromotionInv, PTL DEF Spec, PromotionInvisible

(* What the promoter puts into iCloud is the whole content that the staged *)
(* file had at the copy, never a torn temporary file.                      *)
THEOREM LayerSnapshotPublished == Spec => SnapshotPublished
<1>1. ASSUME TypeOK, PromotionInv, PromoterStep, NEW n \in Names,
             cloud'[n] # cloud[n]
      PROVE  /\ n = prom.name
             /\ cloud'[n] = prom.buf
             /\ prom.touched \/ cloud'[n] = staged[n]
  <2>1. Publish /\ n = prom.name
    BY <1>1, PromoterChanges DEF Unlink
  <2>2. cloud'[n] = tmp[n]
    BY <1>1, <2>1 DEF Publish, TypeOK
  <2>3. QED
    BY <1>1, <2>1, <2>2 DEF Publish, PromotionInv
<1>2. ASSUME TypeOK, PromotionInv
      PROVE  SnapshotStep
  BY <1>1, <1>2 DEF SnapshotStep
<1>3. QED
  BY <1>2, LayerTypeOK, LayerPromotionInv, PTL DEF Spec, SnapshotPublished

=============================================================================
