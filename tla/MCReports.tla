------------------------------ MODULE MCReports ------------------------------
(* Two assets of one collective, capital and result of the exercise, a gain *)
(* and a loss.                                                              *)
EXTENDS Reports

MCAccounts == {"cash", "bank", "capital", "result", "sales", "rent"}

MCAccountType ==
  [a \in MCAccounts |-> CASE a \in {"cash", "bank"}      -> "AS"
                          [] a \in {"capital", "result"} -> "EQ"
                          [] a = "sales"                 -> "IN"
                          [] OTHER                       -> "EX"]

MCGroup == [a \in MCAccounts |-> IF a \in {"cash", "bank"} THEN "assets" ELSE a]

MCOpeningAccounts == <<"cash", "capital">>
MCPostingPairs == {<<"cash", "sales">>, <<"rent", "bank">>}
=============================================================================
