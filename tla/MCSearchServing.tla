-------------------------- MODULE MCSearchServing --------------------------
(***************************************************************************)
(* A small instance of SearchServing.  Cycle 1 is open and comes first; it  *)
(* may be corrected to one that is expected to reopen and is a possible    *)
(* match only, and then comes last.  Cycle 2 closes.                       *)
(* A unit of time is the window in which an award is closing soon.         *)
(***************************************************************************)
EXTENDS SearchServing, TLC

CONSTANTS v1, v2, anyFilter, aKey

MCCycles == {1, 2}
MCVisitors == {v1, v2}
MCFilters == {anyFilter}
MCLimits == {1, 2}
MCKeys == {aKey}
OneSearch == {1}
VisitorSymmetry == Permutations(MCVisitors)

Award0 == [life |-> "published", status |-> "open_verified", deadline |-> NoTime,
           validUntil |-> NoTime, month |-> NoTime, fit |-> [f \in MCFilters |-> "confirmed"]]
MCCatalogue ==
    [c \in MCCycles |-> IF c = 1 THEN Award0 ELSE [Award0 EXCEPT !.deadline = 1]]
MCCorrections ==
    [c \in MCCycles |->
        IF c = 2 THEN {}
        ELSE {[Award0 EXCEPT !.status = "expected_to_reopen", !.month = 3,
                             !.fit = [f \in MCFilters |-> "possible"]]}]
=============================================================================
