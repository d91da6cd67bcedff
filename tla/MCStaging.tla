------------------------------- MODULE MCStaging -------------------------------
(***************************************************************************)
(* The staging layer for TLC.  A behaviour is one of the files of a single *)
(* directory (StagingLayer) or one of the promoter's walk through a tree   *)
(* of directories (StagingTree); what belongs to the other stays empty.    *)
(***************************************************************************)
EXTENDS StagingLayer, StagingTree

VARIABLE part

mcVars == <<disk, treeVars, part>>

(* Directory d with file f and directory e in it, and g in e.              *)
SmallParent == [d |-> Root, f |-> "d", e |-> "d", g |-> "e"]
SmallAbove == [d |-> {}, f |-> {"d"}, e |-> {"d"}, g |-> {"d", "e"}]

NoLayer == /\ staged = [n \in Names |-> None] /\ cloud = staged /\ tmp = staged
           /\ aged = {} /\ prom = Starting /\ faults = 0

NoTree == /\ upper = {} /\ lower = {} /\ old = {} /\ walk = NoWalk /\ kept = {}
          /\ request = [c \in Clients |-> Asleep]

OfLayer(A) == part = "layer" /\ A /\ UNCHANGED <<treeVars, part>>
OfTree(A)  == part = "tree" /\ A /\ UNCHANGED <<disk, part>>

MCInit == \/ part = "layer" /\ Init /\ NoTree
          \/ part = "tree" /\ TreeInit /\ NoLayer

(* The fairness of FairSpec and of TreeSpec, one part at a time: a step of *)
(* the other is never enabled.                                             *)
MCFairness ==
  /\ WF_mcVars(OfLayer(PromoterStep) \/ OfTree(WalkStep))
  /\ \A n \in Names \cup Files :
       SF_mcVars(\/ n \in Names /\ OfLayer(Age(n))
                 \/ n \in Files /\ OfTree(QuiescenceEnds(n)))

MCSpec == MCInit /\ [][OfLayer(Next) \/ OfTree(TreeNext)]_mcVars /\ MCFairness

=============================================================================
