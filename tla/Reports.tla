------------------------------- MODULE Reports -------------------------------
(***************************************************************************)
(* The accounting reports (apps/reports, resolve_report_exercise_context): *)
(* the journal book, the ledger and the trial balance of a company, drawn  *)
(* from its dated entries and its logical exercises.                       *)
(*                                                                         *)
(* An entry carries its lines as two functions, what it debits and what it *)
(* credits to each account: lines of one entry on one side of an account   *)
(* are added up.  Amounts are integers (cents).  Requests come one at a    *)
(* time (interleavings are the subject of Journal, the cached copies of    *)
(* ReportCache) and a closing is asked for without counts of cash or       *)
(* inventory (the adjustments are the subject of ClosingPlan).  A report   *)
(* is an operator on the journal: the invariants ask it of every state     *)
(* with every parameter.                                                   *)
(***************************************************************************)
EXTENDS Exercises

CONSTANTS
  Accounts,          \* movement accounts of the company
  AccountType,       \* type of each account: AS, LI, EQ, EX or IN
  Group,             \* the collective of each account
  ResultAccount,     \* the support account of 3.02, result of the exercise
  OpeningAccounts,   \* <<asset, capital>>: the accounts of the opening entry
  PostingPairs,      \* bound: <<debit, credit>> pairs that clients post
  OpeningAmount,     \* bound: amount of the opening entry
  Amounts,           \* bound: amounts of a posting
  LastDay,           \* bound: dates are 1..LastDay
  Today,             \* datetime.date.today() when a report is asked for
  MaxPostings, MaxClosings   \* bounds of the behaviour

Days == 1..LastDay

ASSUME AccountsAssumption ==
  /\ IsFiniteSet(Accounts)
  /\ AccountType \in [Accounts -> {"AS", "LI", "EQ", "EX", "IN"}]
  /\ DOMAIN Group = Accounts
  /\ ResultAccount \in Accounts /\ AccountType[ResultAccount] = "EQ"
  /\ PostingPairs \cup {OpeningAccounts} \subseteq Accounts \X Accounts
ASSUME DaysAssumption ==
  /\ LastDay \in Nat /\ Today \in Days
  /\ Amounts \cup {OpeningAmount} \subseteq Nat \ {0}

VARIABLES
  journal,             \* the entries, in the order they were written
  books_closed_until,  \* Company.books_closed_until, NoDate before a closing
  postings             \* how much of MaxPostings is used

vars == <<journal, books_closed_until, postings>>

Positive(n)  == IF n > 0 THEN n ELSE 0   \* max(n, _ZERO)
Nothing      == [a \in Accounts |-> 0]
Once(account, amount) == [Nothing EXCEPT ![account] = amount]

JournalEntry(number, source_type, date, debit, credit) ==
  [number |-> number, source_type |-> source_type, date |-> date,
   reversal_of |-> NoEntry, debit |-> debit, credit |-> credit]

Entries == Range(journal)
Dated(from, to) == {e \in Entries : from <= e.date /\ e.date <= to}

\* Sum(amount) of the lines of an account in a set of entries, on each side.
Debit(entries, a)  == SumFunctionOnSet([e \in entries |-> e.debit[a]], entries)
Credit(entries, a) == SumFunctionOnSet([e \in entries |-> e.credit[a]], entries)
Net(entries, a) == Debit(entries, a) - Credit(entries, a)

-----------------------------------------------------------------------------
(* The closing, on the balances of the whole history up to its date.       *)

Patrimonial == {"AS", "LI", "EQ"}
OfType(types) == {a \in Accounts : AccountType[a] \in types}

\* Mutant: the balances start with the open exercise.
LoadBalances_Exercise(date_to) ==
  [a \in Accounts |->
     Net(Dated(CurrentLogicalExercise(BuildLogicalExercises(journal).exercises).start_date,
               date_to), a)]

\* _load_balance_nodes
LoadBalances(date_to) == [a \in Accounts |-> Net(Dated(NoDate, date_to), a)]

\* _validate_patrimonial_natural_balances (by collective) and _collect_result_nodes
NaturalBalances(b) ==
  /\ \A a \in OfType(Patrimonial) :
       LET total == SumFunctionOnSet(b, {c \in OfType(Patrimonial) : Group[c] = Group[a]})
       IN  IF AccountType[a] = "AS" THEN total >= 0 ELSE total <= 0
  /\ \A a \in OfType({"EX"}) : b[a] >= 0
  /\ \A a \in OfType({"IN"}) : b[a] <= 0

\* _build_result_closing_entries: losses, then gains, against ResultAccount.
ResultClosings(b, date) ==
  LET losses == OfType({"EX"})
      gains  == OfType({"IN"})
      side(S) == [a \in Accounts |-> IF a \in S THEN Positive(b[a]) + Positive(-b[a]) ELSE 0]
      total(S) == Once(ResultAccount, SumFunctionOnSet(side(S), S))
      draft(S, debit, credit) ==
        IF side(S) = Nothing THEN << >>
        ELSE << JournalEntry(0, "RESULT_CLOSING", date, debit, credit) >>
  IN  draft(losses, total(losses), side(losses)) \o draft(gains, side(gains), total(gains))

\* What the result closings leave on 3.02, on a node of its own.
NetLoss(b) == SumFunctionOnSet(b, OfType({"EX", "IN"}))

\* _build_patrimonial_closing_and_reopening: the sum of the lines that bring every
\* patrimonial node to zero, those of the node of the result included.
ClosingSide(b, sign) ==
  [a \in Accounts |->
     (IF a \in OfType(Patrimonial) THEN Positive(sign * b[a]) ELSE 0)
       + (IF a = ResultAccount THEN Positive(sign * NetLoss(b)) ELSE 0)]

ClosingEntries(b, closing_date, reopening_date) ==
  ResultClosings(b, closing_date) \o
  << JournalEntry(0, "PATRIMONIAL_CLOSING", closing_date, ClosingSide(b, -1), ClosingSide(b, 1)),
     JournalEntry(0, "REOPENING", reopening_date, ClosingSide(b, 1), ClosingSide(b, -1)) >>

\* _next_entry_number, for each entry of the closing in turn
Numbered(entries) ==
  [i \in DOMAIN entries |-> [entries[i] EXCEPT !.number = Len(journal) + i]]

\* _validate_request
RequestValid(closing_date, reopening_date) ==
  LET built   == BuildLogicalExercises(journal)
      current == CurrentLogicalExercise(built.exercises)
  IN  /\ reopening_date > closing_date
      /\ closing_date > books_closed_until
      /\ ~built.invalid
      /\ current.status = "open"
      /\ closing_date >= current.start_date
      /\ \A e \in Entries :
           /\ e.date <= closing_date
           /\ e.source_type = "PATRIMONIAL_CLOSING" => e.date # closing_date
           /\ e.source_type = "REOPENING" => e.date # reopening_date

-----------------------------------------------------------------------------
(* The requests that write.                                                *)

Init ==
  /\ journal = << >>
  /\ books_closed_until = NoDate
  /\ postings = 0

\* create_company_opening_entry: one asset against the capital.
Open(date) ==
  /\ journal = << >>
  /\ journal' = << JournalEntry(1, "OPENING", date, Once(OpeningAccounts[1], OpeningAmount),
                                Once(OpeningAccounts[2], OpeningAmount)) >>
  /\ UNCHANGED <<books_closed_until, postings>>

\* create_journal_entry: after the opening was written, on any date the books are open.
Post(date, pair, amount) ==
  /\ journal # << >>
  /\ date > books_closed_until
  /\ postings < MaxPostings
  /\ journal' = Append(journal, JournalEntry(Len(journal) + 1, "MANUAL", date,
                                             Once(pair[1], amount), Once(pair[2], amount)))
  /\ postings' = postings + 1
  /\ UNCHANGED books_closed_until

\* execute_simplified_closing
Close(closing_date, reopening_date) ==
  LET b == LoadBalances(closing_date)
  IN  /\ Cardinality({e \in Entries : e.source_type = "REOPENING"}) < MaxClosings
      /\ RequestValid(closing_date, reopening_date)
      /\ NaturalBalances(b)
      /\ ClosingSide(b, 1) # Nothing
      /\ journal' = journal \o Numbered(ClosingEntries(b, closing_date, reopening_date))
      /\ books_closed_until' = closing_date
      /\ UNCHANGED postings

Next ==
  \/ \E date \in Days : Open(date)
  \/ \E date \in Days, pair \in PostingPairs, amount \in Amounts : Post(date, pair, amount)
  \/ \E closing_date, reopening_date \in Days : Close(closing_date, reopening_date)

Spec == Init /\ [][Next]_vars

-----------------------------------------------------------------------------
(* The period of a report.                                                 *)

\* ReportParamsSerializer: both dates are optional (NoDate).
Params == {p \in [date_from : {NoDate} \cup Days, date_to : {NoDate} \cup Days] :
             p.date_from = NoDate \/ p.date_to = NoDate \/ p.date_from <= p.date_to}

DateTo(p) == IF p.date_to = NoDate THEN Today ELSE p.date_to

\* Mutant: an exercise that ends on the first day asked for is left out.
Intersected_Strict(exercises, from, to) ==
  {i \in DOMAIN exercises :
     LET x == exercises[i]
     IN  x.start_date <= to /\ (IF x.closing_date = NoDate THEN to ELSE x.closing_date) > from}

\* The exercises a requested range meets, by their index.
Intersected(exercises, from, to) ==
  {i \in DOMAIN exercises :
     LET x == exercises[i]
     IN  x.start_date <= to /\ (IF x.closing_date = NoDate THEN to ELSE x.closing_date) >= from}

\* resolve_report_exercise_context, for a company that has its opening entry.  The answer
\* lists the previous exercises latest first: here they are a set.
Context(exercises, p) ==
  LET from   == IF p.date_from = NoDate THEN exercises[1].start_date ELSE p.date_from
      met    == Intersected(exercises, from, DateTo(p))
      active == exercises[Max(met)]
  IN  IF met = {}
      THEN [active_exercise |-> NoExercise, previous_exercises |-> {},
            visible_from |-> from, computed_from |-> from, to |-> DateTo(p)]
      ELSE [active_exercise    |-> active,
            previous_exercises |-> {exercises[i] : i \in met \ {Max(met)}},
            visible_from  |-> IF from > active.start_date THEN from ELSE active.start_date,
            computed_from |-> active.start_date,
            to            |-> DateTo(p)]

\* The context of every request for a report, and the contexts there are.
ContextOf == LET exercises == BuildLogicalExercises(journal).exercises
             IN  [p \in Params |-> Context(exercises, p)]
Contexts == Range(ContextOf)

-----------------------------------------------------------------------------
(* The reports, for the context c of the request.                          *)

\* get_journal_book
JournalBook(c) == Ordered(Dated(c.visible_from, c.to))

\* _balance_delta
BalanceDelta(a, debit, credit) ==
  IF AccountType[a] \in {"AS", "EX"} THEN debit - credit ELSE credit - debit
Balance(entries, a) == BalanceDelta(a, Debit(entries, a), Credit(entries, a))

\* Opening balance of get_ledger: the exercise up to the first visible day.
OpeningBalance(c, a) == Balance(Dated(c.computed_from, c.visible_from - 1), a)

\* The card of an account in get_ledger: a running balance over its movements.
Card(c, a) ==
  LET moved     == {e \in Dated(c.visible_from, c.to) : e.debit[a] + e.credit[a] > 0}
      movements == Ordered(moved)
      opening   == OpeningBalance(c, a)
      totals    == <<Debit(moved, a), Credit(moved, a)>>
      balance[i \in 0..Len(movements)] ==
        IF i = 0 THEN opening
        ELSE balance[i - 1] + BalanceDelta(a, movements[i].debit[a], movements[i].credit[a])
  IN  [opening_balance |-> opening,
       balances        |-> [i \in DOMAIN movements |-> balance[i]],
       period_totals   |-> totals,
       closing_balance |-> opening + BalanceDelta(a, totals[1], totals[2])]

\* get_ledger: the cards of the accounts asked for (all of them without account_id).
Ledger(c, asked) == [a \in asked |-> Card(c, a)]

\* Mutant: the trial balance covers the visible days only.
TrialEntries_Visible(c) == Dated(c.visible_from, c.to)

\* The entries of a trial balance: the active exercise from its start, whatever
\* the first day asked for.
TrialEntries(c) == Dated(c.computed_from, c.to)

\* Rows of get_trial_balance: total debit and credit of each account with lines.
Rows(entries) ==
  [a \in {b \in Accounts : \E e \in entries : e.debit[b] + e.credit[b] > 0} |->
     <<Debit(entries, a), Credit(entries, a)>>]

GroupNet(rows, g) ==
  SumFunctionOnSet([a \in DOMAIN rows |-> rows[a][1] - rows[a][2]],
                   {a \in DOMAIN rows : Group[a] = g})

\* The totals of get_trial_balance: balances of the collectives, on their sides.
Totals(rows) ==
  LET groups == {Group[a] : a \in DOMAIN rows}
      net    == [g \in groups |-> GroupNet(rows, g)]
  IN  [debit          |-> SumFunction([a \in DOMAIN rows |-> rows[a][1]]),
       credit         |-> SumFunction([a \in DOMAIN rows |-> rows[a][2]]),
       debit_balance  |-> SumFunction([g \in groups |-> Positive(net[g])]),
       credit_balance |-> SumFunction([g \in groups |-> Positive(-net[g])])]

\* get_trial_balance
TrialBalance(c) ==
  LET rows == Rows(TrialEntries(c)) IN [rows |-> rows, totals |-> Totals(rows)]

\* Mutant: the ledger is kept under the start of the exercise.
LedgerKey_Computed(c, asked) ==
  <<c.computed_from, c.to, c.active_exercise.opening_entry, asked>>

\* The parts of the keys the reports are cached under (one version of one company).
LedgerKey(c, asked) == <<c.visible_from, c.to, c.active_exercise.opening_entry, asked>>
BookKey(c)  == <<c.visible_from, c.to, c.active_exercise.opening_entry>>
TrialKey(c) == <<c.computed_from, c.to, c.active_exercise.opening_entry>>

\* account_id: one account of the company, or none for all.
Asked == {Accounts} \cup {{a} : a \in Accounts}

-----------------------------------------------------------------------------
(* The dates of a demo file.  import_demo_company makes the entries and the *)
(* closings of an accepted file with the requests above, one by one.        *)

\* _validate_exercise_entries after the first n entries: expected_start and previous_date.
DemoState(n) ==
  LET start == Max({i \in 1..n : journal[i].source_type \in {"OPENING", "REOPENING"}})
      manual == {i \in start..n : journal[i].source_type = "MANUAL"}
  IN  [expected_start |-> journal[start].date,
       previous_date  |-> IF manual = {} THEN NoDate ELSE journal[Max(manual)].date]

DemoEntryValid(s, date) == date >= s.previous_date /\ date >= s.expected_start

\* Mutant: entries after the closing date are let through.
DemoClosingValid_LateEntries(s, closing_date, reopening_date) ==
  reopening_date > closing_date /\ closing_date >= s.expected_start

DemoClosingValid(s, closing_date, reopening_date) ==
  /\ reopening_date > closing_date
  /\ closing_date >= s.expected_start
  /\ s.previous_date <= closing_date

\* The journal is what the import of an accepted file has written so far.
DemoJournal ==
  \A n \in 2..Len(journal) :
    /\ journal[n].source_type = "MANUAL" => DemoEntryValid(DemoState(n - 1), journal[n].date)
    /\ journal[n].source_type = "PATRIMONIAL_CLOSING" =>
         DemoClosingValid(DemoState(n - 1), journal[n].date, journal[n + 1].date)

-----------------------------------------------------------------------------
(* Properties.  assert_company_accounting_ready: reports need an opening.  *)

Ready == journal # << >>

\* Whatever the period, the trial balance balances twice: the sums of the debits and
\* of the credits, and the debit and the credit balances of the collectives.
TrialBalances ==
  Ready => \A c \in Contexts :
    LET totals == TrialBalance(c).totals
    IN  totals.debit = totals.credit /\ totals.debit_balance = totals.credit_balance

\* The period does not end before it starts.  ReportParamsSerializer compares the dates when
\* both are given: a first day after today and no last one passes.  If an exercise that goes
\* on after today is met, the ledger then opens with days that the trial balance leaves out.
InOrder(c) == c.visible_from <= c.to

\* The ledger goes on where it stopped: within an exercise the balance a period
\* ends with is the balance the next one opens with, however the days are split.
LedgerContinues ==
  Ready => \A c, d \in Contexts :
    (/\ InOrder(c)
     /\ c.active_exercise = d.active_exercise /\ c.active_exercise # NoExercise
     /\ d.visible_from = c.to + 1)
    => \A a \in Accounts : Card(c, a).closing_balance = OpeningBalance(d, a)

\* Ledger and trial balance of one period agree on every account, although they read
\* the exercise in two parts and in one: the closing balance of the card, which is
\* also its last running balance, is the balance of the row.
LedgerAgreesWithTrial ==
  Ready => \A c \in Contexts :
    LET rows == TrialBalance(c).rows
    IN  InOrder(c) => \A a \in Accounts :
          LET card == Card(c, a)
              row  == IF a \in DOMAIN rows THEN rows[a] ELSE <<0, 0>>
          IN  /\ card.closing_balance = BalanceDelta(a, row[1], row[2])
              /\ card.balances # << >> => Last(card.balances) = card.closing_balance

\* get_trial_balance and get_ledger cut the same journal, each at dates of its own: whatever
\* the period, each of them adds up, and they agree with each other.
ReportsAgree == TrialBalances /\ LedgerContinues /\ LedgerAgreesWithTrial

\* Nothing is lost between exercises: since every closing brings the whole history to
\* zero, the trial balance of an exercise differs from the balances of the whole
\* journal by the strays alone, the entries dated after the closing before it (or
\* before the opening) and before its first day, which no exercise contains.
ExerciseCarriesOver ==
  Ready => \A c \in Contexts :
    LET ended == {NoDate} \cup {e.date : e \in {f \in Entries :
                    f.source_type = "PATRIMONIAL_CLOSING" /\ f.date < c.computed_from}}
        strays == Dated(Max(ended) + 1, c.computed_from - 1)
    IN  c.active_exercise # NoExercise =>
          \A a \in Accounts :
            Net(Dated(NoDate, c.to), a) = Net(strays, a) + Net(TrialEntries(c), a)

\* No entry is out of the reader's reach: the journal book of its own day shows it,
\* strays included, and a book that covers its date leaves it out only if it belongs
\* to one of the previous exercises named next to the report, or to no exercise.
EveryEntryFindable ==
  Ready =>
    LET contexts  == ContextOf
        exercises == BuildLogicalExercises(journal).exercises
        within(e, x) == x.start_date <= e.date
                          /\ (x.closing_date = NoDate \/ e.date <= x.closing_date)
    IN  /\ \A e \in Entries :
             Contains(JournalBook(contexts[[date_from |-> e.date, date_to |-> e.date]]), e)
        /\ \A p \in Params :
             LET c == contexts[p]
             IN  \A e \in Dated(p.date_from, c.to) \ Range(JournalBook(c)) :
                   \/ \E x \in c.previous_exercises : within(e, x)
                   \/ \A x \in Range(exercises) : ~within(e, x)

\* Requests that share a cached copy ask for the same report: the key leaves out the
\* requested dates, and the period it keeps instead determines the contents.
SameKeySameReport ==
  Ready =>
    LET one(copies) == Cardinality(copies) = Cardinality({copy[1] : copy \in copies})
        contexts == Contexts
    IN  /\ one({<<BookKey(c), JournalBook(c)>> : c \in contexts})
        /\ one({<<TrialKey(c), TrialBalance(c)>> : c \in contexts})
        /\ one({<<LedgerKey(c, asked), Ledger(c, asked)>> : c \in contexts, asked \in Asked})

\* A demo file that validate_demo_payload accepts is never refused half-way for its dates:
\* the books are open on the date of each entry it may go on with, and _validate_request
\* takes each closing.
DemoDatesImport ==
  Ready /\ DemoJournal =>
    LET s == DemoState(Len(journal))
    IN  /\ \A date \in Days : DemoEntryValid(s, date) => date > books_closed_until
        /\ \A closing_date, reopening_date \in Days :
             DemoClosingValid(s, closing_date, reopening_date)
               => RequestValid(closing_date, reopening_date)
=============================================================================
