-------------------------- MODULE MCCycleFreshness --------------------------
(***************************************************************************)
(* Small instances of CycleFreshness.  One unit of time is the fetch       *)
(* interval of an open cycle; the ages keep the order of the deployed      *)
(* cadence table: evidence of a near deadline expires soonest, and unknown *)
(* cycles are fetched less often than open ones.                           *)
(***************************************************************************)
EXTENDS CycleFreshness, TLC

CONSTANTS u1, u2, c1, c2, r1, r2

OneUrl == {u1}
TwoUrls == {u1, u2}
OneContent == {c1}
TwoContents == {c1, c2}
ContentSymmetry == Permutations(TwoContents)
OneRun == {r1}
TwoRuns == {r1, r2}
OneInstant == {1}
NoInstants == {}

Nothing == {}
StatusOnly == {"status"}
StatusAndDeadline == {"status", "deadline"}
UrlOnly == {"url"}

MCFetchEvery == [b \in Buckets |->
    IF b \in {"open_far", "open_near", "rolling_open"} THEN 1 ELSE 2]
MCMaxAge == [b \in Buckets |-> IF b = "open_near" THEN 1 ELSE 2]
=============================================================================
