-------------------------- MODULE MCApprovalGates --------------------------
(***************************************************************************)
(* Discoveries of feed "one" that state up to two deadlines and one amount,*)
(* with one report of the same identity beside them.  2 is a deadline that *)
(* lies ahead, 3 a later one, 1 one that has passed; a sum of 0 is no award.*)
(***************************************************************************)
EXTENDS ApprovalGates

MCFeeds == {"one", "two"}
MCSupported == {"GB"}

Dates == {<<2>>, <<2, 3>>, <<Unreadable, 2>>, <<3, 2>>, <<1, 2>>, <<Unreadable>>, <<>>}
Sums == {<<5>>, <<0>>, <<Unreadable>>, <<>>}

OneReport ==
    {<<[feed |-> f, amounts |-> a, deadlines |-> d, split |-> s]>> :
        f \in MCFeeds, a \in {<<5>>, <<0>>, <<Unreadable>>}, d \in {<<2>>, <<3>>, <<Unreadable>>}, s \in BOOLEAN}

PageRead ==
    {[fetched |-> TRUE, amounts |-> a, deadlines |-> d, named |-> n] :
        a \in {<<5>>, <<Unreadable>>}, d \in {<<2, 3>>, <<Unreadable>>}, n \in {{}, {"GB"}, {"FR"}}}
PageUnread == [fetched |-> FALSE, amounts |-> <<>>, deadlines |-> <<>>, named |-> {}]

\* With every source enough, and with two of them wanted.
Plain ==
    [feed |-> "one", amounts |-> <<5>>, deadlines |-> <<2>>, levels |-> TRUE,
     named |-> {"GB"}, award |-> TRUE, reports |-> <<>>, page |-> PageUnread,
     providers |-> 1, slug |-> TRUE, graded |-> TRUE]

MCCases ==
    {[Plain EXCEPT !.amounts = a, !.deadlines = d, !.named = n, !.reports = r, !.page = p] :
        a \in Sums, d \in Dates, n \in {{}, {"GB"}},
        r \in OneReport \cup {<<>>}, p \in PageRead}
    \cup {[Plain EXCEPT !.named = n, !.levels = l, !.award = w, !.providers = h, !.slug = s,
                        !.graded = g, !.reports = r, !.page = p] :
        n \in {{"GB"}, {"FR"}, {"GB", "FR"}}, l \in BOOLEAN, w \in BOOLEAN, h \in 0..2,
        s \in BOOLEAN, g \in BOOLEAN,
        r \in {<<[feed |-> "two", amounts |-> <<5>>, deadlines |-> <<2>>, split |-> FALSE]>>},
        p \in {PageUnread, [PageUnread EXCEPT !.fetched = TRUE, !.amounts = <<5>>, !.deadlines = <<2>>]}}
=============================================================================
