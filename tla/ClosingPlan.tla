----------------------------- MODULE ClosingPlan -----------------------------
(***************************************************************************)
(* The amounts of the simplified closing (apps/closing/services.py): the   *)
(* plan that preview shows and execute posts, exercise after exercise.     *)
(*                                                                         *)
(* The ledger holds the balance of each movement account of the company,   *)
(* debits minus credits over all posted entries.  The plan works on        *)
(* balance nodes: one per account with movements, keyed by its id, and     *)
(* "virtual" ones, keyed by collective and name, for the support accounts  *)
(* the plan writes to without knowing whether the company has them.  A     *)
(* virtual node and the node of the account it will be posted to are       *)
(* DIFFERENT nodes: they meet only in _resolve_line_account_ids.           *)
(*                                                                         *)
(* Amounts are integers (cents).  An entry is a function from the nodes it *)
(* has a line for to the signed amount, debits positive: the drafts never  *)
(* have two lines for one node.  Requests come one at a time here; their   *)
(* interleavings, and dates, are the subject of Journal.                   *)
(***************************************************************************)
EXTENDS Integers, Sequences, SequencesExt, FiniteSets, Functions

CONSTANTS
  Accounts,         \* movement accounts of the company, the support accounts included
  ParentOf,         \* the collective of each account, <<root, number>>
  Support,          \* the support account of each collective in SupportParents
  PostingAccounts,  \* the accounts that clients post to
  MaxAmount,        \* bound: amount of a posting, an opening line or a count
  MaxPostings,      \* bound: postings of the whole behaviour
  MaxClosings       \* bound: executed closings

\* Collectives the plan names: cash 1.01, inventory 1.09, result of the exercise
\* 3.02, shortages 4.12 and 4.13, surpluses 5.06 and 5.07.
Cash              == <<1, 1>>
Inventory         == <<1, 9>>
Result            == <<3, 2>>
CashShortage      == <<4, 12>>
InventoryShortage == <<4, 13>>
CashSurplus       == <<5, 6>>
InventorySurplus  == <<5, 7>>
Capital           == <<3, 1>>

SupportParents == {Cash, Inventory, Result, CashShortage, InventoryShortage,
                   CashSurplus, InventorySurplus}

ASSUME AccountsAssumption ==
  IsFiniteSet(Accounts) /\ ParentOf \in [Accounts -> (1..5) \X Nat]
ASSUME SupportAssumption ==
  \A p \in SupportParents : Support[p] \in Accounts /\ ParentOf[Support[p]] = p
ASSUME PostingAssumption == PostingAccounts \subseteq Accounts
ASSUME BoundsAssumption ==
  MaxAmount \in Nat /\ MaxPostings \in Nat /\ MaxClosings \in Nat

VARIABLES
  ledger,    \* balance of each account, debits minus credits
  snapshot,  \* what the last executed closing stored, NoSnapshot before
  pc,        \* the step the closing request is at, "idle" without one
  request,   \* the counts it was given
  balances,  \* its balance nodes, changed by each draft entry
  entries,   \* its draft entries, in the order they will be posted
  sheet,     \* its draft statements
  moved,     \* an entry was posted after the opening or the last reopening
  postings, closings   \* how much of each bound is used

plan == <<pc, request, balances, entries, sheet>>
vars == <<ledger, snapshot, plan, moved, postings, closings>>

RootOf(a) == ParentOf[a][1]
Patrimonial == {1, 2, 3}

Virtual(p) == [account |-> Support[p], virtual |-> TRUE]
Node == [account : Accounts, virtual : {FALSE}] \cup {Virtual(p) : p \in SupportParents}

-----------------------------------------------------------------------------
(* Balances.  Only the difference of total_debit and total_credit is ever  *)
(* used, so a node is its net balance; a node that is not in the dict and  *)
(* one that is in it with zero behave alike.                               *)

\* _load_balance_nodes
LoadBalanceNodes(L) == [n \in Node |-> IF n.virtual THEN 0 ELSE L[n.account]]

\* _apply_entry_to_balances, for one draft entry after another
Amount(entry, n) == IF n \in DOMAIN entry THEN entry[n] ELSE 0

ApplyAll(b, drafts) ==
  [n \in Node |-> b[n] + SumFunction([i \in DOMAIN drafts |-> Amount(drafts[i], n)])]

\* _aggregate_parent_balance
ParentBalance(b, p) == SumFunctionOnSet(b, {n \in Node : ParentOf[n.account] = p})

NodesOf(b, roots) == {n \in Node : RootOf(n.account) \in roots /\ b[n] # 0}
DebitNodes(b, root)  == {n \in NodesOf(b, {root}) : b[n] > 0}
CreditNodes(b, root) == {n \in NodesOf(b, {root}) : b[n] < 0}
DebitTotal(b, root)  == SumFunctionOnSet(b, DebitNodes(b, root))
CreditTotal(b, root) == -SumFunctionOnSet(b, CreditNodes(b, root))

-----------------------------------------------------------------------------
(* What the steps of build_simplified_closing_plan compute.                *)

\* A count of cash or inventory, or none (the field is optional).
Count == [given : {TRUE}, amount : 0..MaxAmount] \cup {[given |-> FALSE, amount |-> 0]}

\* Mutant: no early return when the count agrees with the books.
Adjustment_Always(b, count, parent, shortage, surplus) ==
  LET difference == count.amount - ParentBalance(b, parent)
      other      == Virtual(IF difference > 0 THEN surplus ELSE shortage)
  IN  IF ~count.given
      THEN << >>
      ELSE << [n \in {Virtual(parent), other} |->
                 IF n = other THEN -difference ELSE difference] >>

\* Mutant: the count is compared with the support account, not with its collective.
Adjustment_OneAccount(b, count, parent, shortage, surplus) ==
  LET difference == count.amount - b[[account |-> Support[parent], virtual |-> FALSE]]
      other      == Virtual(IF difference > 0 THEN surplus ELSE shortage)
  IN  IF ~count.given \/ difference = 0
      THEN << >>
      ELSE << [n \in {Virtual(parent), other} |->
                 IF n = other THEN -difference ELSE difference] >>

\* One half of _build_adjustment_entries: the count differs from the books.
Adjustment(b, count, parent, shortage, surplus) ==
  LET difference == count.amount - ParentBalance(b, parent)
      other      == Virtual(IF difference > 0 THEN surplus ELSE shortage)
  IN  IF ~count.given \/ difference = 0
      THEN << >>
      ELSE << [n \in {Virtual(parent), other} |->
                 IF n = other THEN -difference ELSE difference] >>

\* Mutant: only assets are checked.
NaturalBalances_AssetsOnly(b) ==
  \A a \in Accounts : RootOf(a) = 1 => ParentBalance(b, ParentOf[a]) >= 0

\* _validate_patrimonial_natural_balances: collectives, not accounts, are checked.
NaturalBalances(b) ==
  \A a \in Accounts :
    /\ RootOf(a) = 1        => ParentBalance(b, ParentOf[a]) >= 0
    /\ RootOf(a) \in {2, 3} => ParentBalance(b, ParentOf[a]) <= 0

\* _collect_result_nodes: losses on the debit side, gains on the credit side.
ResultsNatural(b) == CreditNodes(b, 4) = {} /\ DebitNodes(b, 5) = {}

NetResult(b) == CreditTotal(b, 5) - DebitTotal(b, 4)

\* Mutant: the result of the exercise is left out of the equity.
BalanceSheet_NoResult(b) ==
  [assets      |-> DebitTotal(b, 1),
   liabilities |-> CreditTotal(b, 2),
   equity      |-> CreditTotal(b, 3),
   net_result  |-> NetResult(b)]

\* _build_balance_sheet and _build_income_statement
BalanceSheet(b) ==
  [assets      |-> DebitTotal(b, 1),
   liabilities |-> CreditTotal(b, 2),
   equity      |-> CreditTotal(b, 3) + NetResult(b),
   net_result  |-> NetResult(b)]

IsBalanced(s) == s.assets = s.liabilities + s.equity

\* One half of _build_result_closing_entries: nodes are closed against 3.02.
CloseAgainstResult(b, nodes) ==
  IF nodes = {}
  THEN << >>
  ELSE << [n \in nodes \cup {Virtual(Result)} |->
             IF n \in nodes THEN -b[n] ELSE SumFunctionOnSet(b, nodes)] >>

ResultClosingEntries(b) ==
  CloseAgainstResult(b, DebitNodes(b, 4)) \o CloseAgainstResult(b, CreditNodes(b, 5))

\* Mutant: virtual nodes are not closed.
PatrimonialClosing_RealOnly(b) ==
  [n \in {m \in NodesOf(b, Patrimonial) : ~m.virtual} |-> -b[n]]

\* _build_snapshot_lines and _build_patrimonial_closing_and_reopening
SnapshotLines(b)      == [n \in NodesOf(b, Patrimonial) |-> b[n]]
PatrimonialClosing(b) == [n \in NodesOf(b, Patrimonial) |-> -b[n]]
Reopening(closing)    == [n \in DOMAIN closing |-> -closing[n]]

\* _validate_lines of the journal, for the lines of a draft entry.
ValidLines(entry) ==
  /\ {n \in DOMAIN entry : entry[n] > 0} # {}
  /\ {n \in DOMAIN entry : entry[n] < 0} # {}
  /\ \A n \in DOMAIN entry : entry[n] # 0
  /\ SumFunction(entry) = 0

\* _resolve_line_account_ids: a virtual line goes to the support account, which
\* ensure_company_closing_accounts creates if the company does not have it yet.
Posted(entry, a) == SumFunctionOnSet(entry, {n \in DOMAIN entry : n.account = a})

PostAll(L, drafts) ==
  [a \in Accounts |-> L[a] + SumFunction([i \in DOMAIN drafts |-> Posted(drafts[i], a)])]

-----------------------------------------------------------------------------
NoCount    == [given |-> FALSE, amount |-> 0]
NoRequest  == [cash |-> NoCount, inventory |-> NoCount]
NoBalances == [n \in Node |-> 0]
NoSheet    == [assets |-> 0, liabilities |-> 0, equity |-> 0, net_result |-> 0]
NoSnapshot == [sheet |-> NoSheet, lines |-> [n \in {} |-> 0]]

\* _create_opening_entry_from_payload: assets against liabilities and capital,
\* which must be positive.
OpeningLedger(assets, liabilities, capital) ==
  [a \in Accounts |->
     CASE a \in DOMAIN assets      -> assets[a]
       [] a \in DOMAIN liabilities -> -liabilities[a]
       [] a = capital              -> SumFunction(liabilities) - SumFunction(assets)
       [] OTHER                    -> 0]

OfRoot(root) == {a \in PostingAccounts : RootOf(a) = root}

\* An account of the collective Capital, and as much in assets and liabilities as the
\* bounds allow.
Openings ==
  {OpeningLedger(assets, liabilities, capital) :
     assets \in [OfRoot(1) -> 0..MaxAmount], liabilities \in [OfRoot(2) -> 0..MaxAmount],
     capital \in {a \in Accounts : ParentOf[a] = Capital}}

Init ==
  /\ ledger \in {L \in Openings : \E a \in Accounts : ParentOf[a] = Capital /\ L[a] < 0}
  /\ snapshot = NoSnapshot
  /\ pc = "idle" /\ request = NoRequest
  /\ balances = NoBalances /\ entries = << >> /\ sheet = NoSheet
  /\ moved = FALSE
  /\ postings = 0 /\ closings = 0

\* create_journal_entry with one debit and one credit line.
PostEntry(debit, credit, amount) ==
  /\ pc = "idle"
  /\ postings < MaxPostings
  /\ debit # credit
  /\ ledger' = [ledger EXCEPT ![debit] = @ + amount, ![credit] = @ - amount]
  /\ moved' = TRUE
  /\ postings' = postings + 1
  /\ UNCHANGED <<snapshot, plan, closings>>

-----------------------------------------------------------------------------
(* A closing request: build_simplified_closing_plan step by step, then     *)
(* execute_simplified_closing.                                             *)

Draft(new, next) ==
  /\ entries' = entries \o new
  /\ balances' = ApplyAll(balances, new)
  /\ pc' = next
  /\ UNCHANGED <<ledger, snapshot, request, moved, postings, closings>>

StartPlan(cash, inventory) ==
  /\ pc = "idle"
  /\ closings < MaxClosings
  /\ request' = [cash |-> cash, inventory |-> inventory]
  /\ balances' = LoadBalanceNodes(ledger)
  /\ pc' = "cash"
  /\ UNCHANGED <<ledger, snapshot, entries, sheet, moved, postings, closings>>

\* _build_adjustment_entries; the inventory is compared after the cash adjustment.
AdjustCash ==
  /\ pc = "cash"
  /\ Draft(Adjustment(balances, request.cash, Cash, CashShortage, CashSurplus), "inventory")
  /\ UNCHANGED sheet

AdjustInventory ==
  /\ pc = "inventory"
  /\ Draft(Adjustment(balances, request.inventory, Inventory, InventoryShortage,
                      InventorySurplus), "statements")
  /\ UNCHANGED sheet

DropPlan ==
  /\ pc' = "idle" /\ request' = NoRequest
  /\ balances' = NoBalances /\ entries' = << >> /\ sheet' = NoSheet

\* The ConflictErrors of the balance checks.
Refuse ==
  /\ \/ pc = "statements" /\ ~(NaturalBalances(balances) /\ ResultsNatural(balances))
     \/ pc = "patrimonial" /\ NodesOf(balances, Patrimonial) = {}
  /\ DropPlan
  /\ UNCHANGED <<ledger, snapshot, moved, postings, closings>>

\* The statements are drawn before the results are closed.
BuildStatements ==
  /\ pc = "statements"
  /\ NaturalBalances(balances)
  /\ ResultsNatural(balances)
  /\ sheet' = BalanceSheet(balances)
  /\ Draft(<< >>, "results")

CloseResults ==
  /\ pc = "results"
  /\ Draft(ResultClosingEntries(balances), "patrimonial")
  /\ UNCHANGED sheet

\* The last drafts are not applied: the snapshot shows the balances they close.
ClosePatrimony ==
  /\ pc = "patrimonial"
  /\ NodesOf(balances, Patrimonial) # {}
  /\ LET closing == PatrimonialClosing(balances)
     IN  entries' = entries \o << closing, Reopening(closing) >>
  /\ pc' = "planned"
  /\ UNCHANGED <<ledger, snapshot, request, balances, sheet, moved, postings, closings>>

\* execute_simplified_closing: the entries are posted in one transaction, if every
\* one is valid, and the statements are stored.
Execute ==
  /\ pc = "planned"
  /\ \A i \in DOMAIN entries : ValidLines(entries[i])
  /\ ledger' = PostAll(ledger, entries)
  /\ snapshot' = [sheet |-> sheet, lines |-> SnapshotLines(balances)]
  /\ moved' = FALSE
  /\ closings' = closings + 1
  /\ DropPlan
  /\ UNCHANGED postings

\* The request was a preview, or an entry was not valid: nothing is written.
Discard ==
  /\ pc = "planned"
  /\ DropPlan
  /\ UNCHANGED <<ledger, snapshot, moved, postings, closings>>

Next ==
  \/ \E debit, credit \in PostingAccounts, amount \in 1..MaxAmount :
       PostEntry(debit, credit, amount)
  \/ \E cash, inventory \in Count : StartPlan(cash, inventory)
  \/ AdjustCash \/ AdjustInventory \/ Refuse \/ BuildStatements
  \/ CloseResults \/ ClosePatrimony \/ Execute \/ Discard

Spec == Init /\ [][Next]_vars

-----------------------------------------------------------------------------
(* Properties.                                                             *)

\* What preview shows, execute can post: whatever the balances and the counts, a plan
\* that passes the checks of build_simplified_closing_plan consists of entries that
\* _validate_lines accepts, so the closing never fails half way for its amounts.
PlanIsPostable ==
  pc = "planned" => \A i \in DOMAIN entries : ValidLines(entries[i])

\* Up to the reopening, the entries of a closing bring every account to zero,
\* support accounts included, although the plan computed them on separate nodes.
ClosingZeroesLedger ==
  pc = "planned" => \A a \in Accounts : PostAll(ledger, Front(entries))[a] = 0

\* After the reopening: no result is carried over, cash and inventory are what was
\* counted, the result of the exercise went to 3.02, and nothing else has moved.
ReopeningCarriesPatrimony ==
  [][Execute =>
       /\ \A a \in Accounts : RootOf(a) \in {4, 5} => ledger'[a] = 0
       /\ request.cash.given =>
            ParentBalance(LoadBalanceNodes(ledger'), Cash) = request.cash.amount
       /\ request.inventory.given =>
            ParentBalance(LoadBalanceNodes(ledger'), Inventory) = request.inventory.amount
       /\ ledger'[Support[Result]] = ledger[Support[Result]] - sheet.net_result
       /\ \A a \in Accounts \ {Support[p] : p \in SupportParents} :
            RootOf(a) \in Patrimonial => ledger'[a] = ledger[a]]_vars

\* A node on the side opposite to its root: an overdrawn account, or the virtual
\* node of a shortage.
ContraNodes(b) == CreditNodes(b, 1) \cup DebitNodes(b, 2) \cup DebitNodes(b, 3)

\* The drafted balance sheet balances whenever no node is on the wrong side:
\* _build_balance_sheet drops such nodes, the checks look at collectives only.
SheetBalancesUnlessContra ==
  (pc = "results" /\ ContraNodes(balances) = {}) => IsBalanced(sheet)

\* A company that was just opened or reopened can be closed as it is, unless it has
\* accumulated a loss on 3.02: then _validate_patrimonial_natural_balances refuses,
\* and goes on refusing until somebody posts the loss away.
ReopenedCanClose ==
  (pc = "statements" /\ ~moved /\ request = NoRequest) =>
    (NaturalBalances(balances) /\ ResultsNatural(balances)
       <=> ParentBalance(balances, Result) <= 0)
=============================================================================
