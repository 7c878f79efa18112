------------------------------- MODULE MCSeed -------------------------------
(* Instances of SeedScript with the numbers of the local stack. *)
EXTENDS SeedScript

TheAccounts == Roles
TheNames  == {Buckyos} \cup {<<label, n>> : label \in ProjectLabels \ {"release"}, n \in Ids}
SixMonths == 180 * Day
Month == 30 * Day
Week  == 7 * Day
NoDecimals == [t \in SaleTokens |-> IF t = "LSALE" THEN 1 ELSE 10]

\* A third for each, two tokens for three, and two decimals' worth of rounding.
OddOffer == [token |-> "ODD", total |-> 100, ratio |-> <<20, 3>>,
             percents |-> [who \in {"viewer", "contributorA"} |-> 3333],
             step1 |-> 2 * Day, step2 |-> Day, canEndEarly |-> FALSE]
OddOffers == {OddOffer}
=============================================================================
