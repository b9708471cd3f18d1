------------------------- MODULE MCChartOfAccounts -------------------------
(* Values for TLC that a configuration file cannot write down.             *)
EXTENDS ChartOfAccounts, TLC

CONSTANTS c1, c2, p1, p2, n1, n2, h1

OneSpec == {<<<<p1, n1>>>>}
TwoSpecs == <<<<p1, n1>>, <<p2, n2>>>>

Account(p, code, n, c) == [parent |-> p, code |-> code, name |-> n, company |-> c, auto |-> TRUE]

\* Two companies without accounts; one that was opened; one with accounts and no entry yet.
Databases ==
  LET both == [c \in {c1, c2} |-> None] IN
  {[parents |-> {p1}, companies |-> both, accounts |-> [a \in {} |-> 0], entries |-> {}],
   [parents |-> {p1}, companies |-> both, accounts |-> <<Account(p1, 1, n1, c1), Account(p1, 2, n2, c1)>>,
    entries |-> {[company |-> c1, legs |-> {1}, opening |-> TRUE]}],
   [parents |-> {p1, p2}, companies |-> both, accounts |-> <<Account(p1, 1, n1, c1)>>, entries |-> {}]}

WorkerSymmetry == Permutations(Workers)
=============================================================================
