-------------------------- MODULE MCReviewPipeline --------------------------
(***************************************************************************)
(* Small instances of ReviewPipeline, three discoveries each.              *)
(*   Split:    1 is a report of the award by feedA, 2 a list page of feedB *)
(*             with a title of its own, 3 a report of the award that the   *)
(*             Agent took out of that list.                                *)
(*   Revision: 1 and 3 are two contents of one page of feedA, 2 is a report*)
(*             of the same award by feedB.                                 *)
(***************************************************************************)
EXTENDS ReviewPipeline, TLC

CONSTANTS award, list, pageA, pageB, pageC, feedA, feedB, l1, l2, w1

MCDiscoveries == {1, 2, 3}
MCSource == 1 :> feedA @@ 2 :> feedB @@ 3 :> feedB
SplitPage == 1 :> pageA @@ 2 :> pageB @@ 3 :> pageC
SplitTitle == 1 :> award @@ 2 :> list @@ 3 :> award
SplitTitles == {award, list}
SplitChild == {3}
ListRejected == {2}

RevisionSource == 1 :> feedA @@ 2 :> feedB @@ 3 :> feedA
RevisionPage == 1 :> pageA @@ 2 :> pageB @@ 3 :> pageA
RevisionTitle == [d \in MCDiscoveries |-> award]
OneTitle == {award}
Nobody == {}

Once == [d \in MCDiscoveries |-> 1]
TwiceForFirst == [d \in MCDiscoveries |-> IF d = 1 THEN 2 ELSE 1]

OneScholarship == {1}
TwoScholarships == {1, 2}
OneLinker == {l1}
TwoLinkers == {l1, l2}
OneSweeper == {w1}
LinkerSymmetry == Permutations(TwoLinkers)
=============================================================================
