--------------------------- MODULE MCClosingPlan ---------------------------
(* A small chart of accounts: two accounts under Cash, one of each other   *)
(* kind a company has, and the support accounts of the closing.            *)
EXTENDS ClosingPlan

MCParentOf ==
  [caja |-> Cash, cajachica |-> Cash, mercaderias |-> Inventory,
   proveedores |-> <<2, 1>>, capital |-> Capital, resultado |-> Result,
   gastos |-> <<4, 2>>, ventas |-> <<5, 1>>,
   faltantecaja |-> CashShortage, faltantemercaderias |-> InventoryShortage,
   sobrantecaja |-> CashSurplus, sobrantemercaderias |-> InventorySurplus]

MCAccounts == DOMAIN MCParentOf

MCSupport ==
  [p \in SupportParents |->
     CHOOSE a \in MCAccounts \ {"cajachica"} : MCParentOf[a] = p]
=============================================================================
