------------------------------- MODULE Journal -------------------------------
(***************************************************************************)
(* The journal of one company, written by concurrent requests              *)
(* (apps/journal/services.py, apps/companies/services.py,                  *)
(* apps/closing/services.py).                                              *)
(*                                                                         *)
(* A worker serves one request at a time.  The view loads the company row  *)
(* (with the annotation has_opening_entry) BEFORE the service opens its    *)
(* transaction, and the service trusts that object; only _next_entry_number*)
(* takes the company row lock, which is then held until the transaction    *)
(* ends.  The database runs READ COMMITTED: a statement sees what is       *)
(* committed when it starts, so the rows a transaction inserts become      *)
(* visible to the other workers in its Commit step.                        *)
(*                                                                         *)
(* Actors that fail the permission checks change nothing, so every request *)
(* here is one that passed them.  Amounts are the subject of ClosingPlan.  *)
(***************************************************************************)
EXTENDS Exercises

CONSTANTS
  Workers,      \* the request workers
  Closers,      \* the workers that may serve POST .../closing/execute
  Editors,      \* the workers that may serve PATCH .../companies/{id}
  MaxDate,      \* bound: dates are 1..MaxDate
  MaxEntries,   \* bound: no request starts once the journal has this many entries
  MaxExtras,    \* bound: adjustment and result-closing entries of one closing
  NoWorker      \* nobody holds the company row lock

ASSUME WorkersAssumption  == Closers \subseteq Workers /\ Editors \subseteq Workers
ASSUME NoWorkerAssumption == NoWorker \notin Workers
ASSUME BoundsAssumption   == MaxDate \in Nat /\ MaxEntries \in Nat /\ MaxExtras \in Nat

VARIABLES
  journal,             \* committed JournalEntry rows, in commit order
  snapshots,           \* committed ClosingSnapshot rows
  books_closed_until,  \* Company.books_closed_until, NoDate when NULL
  lock,                \* who holds the row lock of the company (SELECT FOR UPDATE)
  pc,                  \* where each worker is in its request
  req                  \* what each worker's request holds in memory

vars == <<journal, snapshots, books_closed_until, lock, pc, req>>

Dates == 1..MaxDate

Entry == [number : Nat \ {0}, source_type : SourceType, date : Dates, reversal_of : Nat]

JournalEntry(number, source_type, date, reversal_of) ==
  [number |-> number, source_type |-> source_type, date |-> date,
   reversal_of |-> reversal_of]

Snapshot == [first : Nat, closing_entry : Nat, reopening_entry : Nat, loaded : Nat]

Kinds == {"none", "opening", "posting", "reversal", "closing", "update"}

Request ==
  [kind           : Kinds,
   date           : Dates \cup {NoDate},  \* entry date, or closing date
   reopening_date : Dates \cup {NoDate},
   original       : Nat,                  \* the entry to reverse
   closed_seen    : Dates \cup {NoDate},  \* company.books_closed_until as loaded
   opening_seen   : BOOLEAN,              \* company.has_opening_entry as loaded
   loaded         : Nat,                  \* rows committed when balances were loaded
   number         : Nat]                  \* result of _next_entry_number

NoRequest ==
  [kind |-> "none", date |-> NoDate, reopening_date |-> NoDate, original |-> NoEntry,
   closed_seen |-> NoDate, opening_seen |-> FALSE, loaded |-> 0, number |-> 0]

HasOpeningEntry(J) == \E i \in DOMAIN J : J[i].source_type = "OPENING"

-----------------------------------------------------------------------------
(* Initially: create_company_with_optional_opening has committed the       *)
(* company, with its opening entry or without one.                         *)

Init ==
  /\ \/ journal = << >>
     \/ \E d \in Dates : journal = << JournalEntry(1, "OPENING", d, NoEntry) >>
  /\ snapshots = {}
  /\ books_closed_until = NoDate
  /\ lock = NoWorker
  /\ pc = [w \in Workers |-> "idle"]
  /\ req = [w \in Workers |-> NoRequest]

-----------------------------------------------------------------------------
(* get_company: the row and the annotation are read, outside any           *)
(* transaction, and kept in memory for the rest of the request.            *)

LoadedRequest(kind, date, reopening_date, original) ==
  [kind |-> kind, date |-> date, reopening_date |-> reopening_date,
   original     |-> original,
   closed_seen  |-> books_closed_until,
   opening_seen |-> HasOpeningEntry(journal),
   loaded |-> 0, number |-> 0]

Receive(w, request) ==
  /\ pc[w] = "idle"
  /\ Len(journal) < MaxEntries
  /\ pc' = [pc EXCEPT ![w] = "loaded"]
  /\ req' = [req EXCEPT ![w] = request]
  /\ UNCHANGED <<journal, snapshots, books_closed_until, lock>>

ReceiveOpening(w) ==
  \E d \in Dates : Receive(w, LoadedRequest("opening", d, NoDate, NoEntry))

ReceivePosting(w) ==
  \E d \in Dates : Receive(w, LoadedRequest("posting", d, NoDate, NoEntry))

\* The view also loads the original entry; a reversal is dated freely.
ReceiveReversal(w) ==
  \E d \in Dates, i \in DOMAIN journal :
    Receive(w, LoadedRequest("reversal", d, NoDate, journal[i].number))

ReceiveClosing(w) ==
  /\ w \in Closers
  /\ \E d, e \in Dates : Receive(w, LoadedRequest("closing", d, e, NoEntry))

ReceiveUpdate(w) ==
  /\ w \in Editors
  /\ Receive(w, LoadedRequest("update", NoDate, NoDate, NoEntry))

-----------------------------------------------------------------------------
(* The checks of each service.  They read the company from memory and the  *)
(* entries from the database, and take no lock.                            *)

BooksOpen(r) == r.closed_seen = NoDate \/ r.date > r.closed_seen

OpeningAllowed(r) ==
  /\ ~r.opening_seen
  /\ journal = << >>
  /\ BooksOpen(r)

PostingAllowed(r) ==
  /\ r.opening_seen
  /\ BooksOpen(r)

IsReversed(J, number) == \E i \in DOMAIN J : J[i].reversal_of = number

ReversalAllowed(r) ==
  /\ r.opening_seen
  /\ \E i \in DOMAIN journal :
       /\ journal[i].number = r.original
       /\ journal[i].source_type \notin NON_REVERSIBLE_SOURCE_TYPES
  /\ ~IsReversed(journal, r.original)
  /\ BooksOpen(r)

\* list_logical_exercises answers from a cache that may be stale, so the
\* exercises are those of the journal as it was after any of its commits.
SomeOpenExercise(r) ==
  \E k \in 0..Len(journal) :
    LET built   == BuildLogicalExercises(SubSeq(journal, 1, k))
        current == CurrentLogicalExercise(built.exercises)
    IN  /\ ~built.invalid
        /\ current.status = "open"
        /\ r.date >= current.start_date

\* Mutant: entries after the closing date do not prevent it.
ClosingAllowed_LaterEntries(r) ==
  /\ r.opening_seen
  /\ BooksOpen(r)
  /\ r.reopening_date > r.date
  /\ SomeOpenExercise(r)

\* Mutant: the reopening date is not compared with the closing date.
ClosingAllowed_ReopensEarlier(r) ==
  /\ r.opening_seen
  /\ BooksOpen(r)
  /\ \A i \in DOMAIN journal : journal[i].date <= r.date
  /\ SomeOpenExercise(r)

\* _validate_request, whose reads have no effect: the order of the checks is free.
ClosingAllowed(r) ==
  /\ r.opening_seen
  /\ BooksOpen(r)
  /\ r.reopening_date > r.date
  /\ \A i \in DOMAIN journal :
       /\ journal[i].date <= r.date
       /\ ~(journal[i].source_type = "PATRIMONIAL_CLOSING" /\ journal[i].date = r.date)
       /\ ~(journal[i].source_type = "REOPENING" /\ journal[i].date = r.reopening_date)
  /\ SomeOpenExercise(r)

Allowed(r) ==
  \/ r.kind = "opening"  /\ OpeningAllowed(r)
  \/ r.kind = "posting"  /\ PostingAllowed(r)
  \/ r.kind = "reversal" /\ ReversalAllowed(r)
  \/ r.kind = "closing"  /\ ClosingAllowed(r)

Check(w) ==
  /\ pc[w] = "loaded"
  /\ Allowed(req[w])
  /\ pc' = [pc EXCEPT ![w] = IF req[w].kind = "closing" THEN "validated" ELSE "checked"]
  /\ UNCHANGED <<journal, snapshots, books_closed_until, lock, req>>

\* Mutant: the lock outlives the request.
Finish_KeepsLock(w) ==
  /\ pc' = [pc EXCEPT ![w] = "idle"]
  /\ req' = [req EXCEPT ![w] = NoRequest]
  /\ UNCHANGED lock

\* The request ends with an error: the transaction rolls back, the lock is freed.
Finish(w) ==
  /\ pc' = [pc EXCEPT ![w] = "idle"]
  /\ req' = [req EXCEPT ![w] = NoRequest]
  /\ lock' = IF lock = w THEN NoWorker ELSE lock

Reject(w) ==
  /\ pc[w] = "loaded"
  /\ req[w].kind # "update"
  /\ ~Allowed(req[w])
  /\ Finish(w)
  /\ UNCHANGED <<journal, snapshots, books_closed_until>>

\* Mutant: the balances come from a cache, as the exercises do.
LoadBalances_Cached(w) ==
  /\ pc[w] = "validated"
  /\ pc' = [pc EXCEPT ![w] = "checked"]
  /\ \E n \in 0..Len(journal) : req' = [req EXCEPT ![w].loaded = n]
  /\ UNCHANGED <<journal, snapshots, books_closed_until, lock>>

\* build_simplified_closing_plan: computed from the rows committed now.
LoadBalances(w) ==
  /\ pc[w] = "validated"
  /\ pc' = [pc EXCEPT ![w] = "checked"]
  /\ req' = [req EXCEPT ![w].loaded = Len(journal)]
  /\ UNCHANGED <<journal, snapshots, books_closed_until, lock>>

\* The plan is refused: nothing to close, or balances on the wrong side (amounts).
RejectPlan(w) ==
  /\ pc[w] = "validated"
  /\ Finish(w)
  /\ UNCHANGED <<journal, snapshots, books_closed_until>>

-----------------------------------------------------------------------------
(* _next_entry_number: waits for the company row lock, then reads the      *)
(* highest number committed.                                               *)

EntryNumbers(J) == {J[i].number : i \in DOMAIN J}

NextEntryNumber(J) ==
  IF J = << >> THEN 1 ELSE Max(EntryNumbers(J)) + 1

\* Mutant: the row is read without FOR UPDATE.
LockFree_NoWait(w) == TRUE

LockFree(w) == lock = NoWorker

AcquireLock(w) ==
  /\ pc[w] = "checked"
  /\ LockFree(w)
  /\ lock' = w
  /\ pc' = [pc EXCEPT ![w] = "locked"]
  /\ req' = [req EXCEPT ![w].number = NextEntryNumber(journal)]
  /\ UNCHANGED <<journal, snapshots, books_closed_until>>

-----------------------------------------------------------------------------
(* INSERT and COMMIT.  The database enforces three unique constraints on   *)
(* JournalEntry; a violation is an IntegrityError, hence a ConflictError.  *)

UniqueEntryNumber(r) == r.number \notin EntryNumbers(journal)

UniqueOpening(r) == r.kind = "opening" => ~HasOpeningEntry(journal)

\* Mutant: reversal_of is not unique.
UniqueReversal_Dropped(r) == TRUE

UniqueReversal(r) == r.kind = "reversal" => ~IsReversed(journal, r.original)

ConstraintsHold(r) == UniqueEntryNumber(r) /\ UniqueOpening(r) /\ UniqueReversal(r)

\* MANUAL stands for the types a client may choose (MANUAL, INVOICE, RECEIPT, OTHER).
SourceTypeOf(r) ==
  CASE r.kind = "opening" -> "OPENING"
    [] r.kind = "posting" -> "MANUAL"
    [] OTHER              -> "OTHER"

PostedEntry(r) == JournalEntry(r.number, SourceTypeOf(r), r.date, r.original)

CommitEntry(w) ==
  /\ pc[w] = "locked"
  /\ req[w].kind # "closing"
  /\ ConstraintsHold(req[w])
  /\ journal' = Append(journal, PostedEntry(req[w]))
  /\ Finish(w)
  /\ UNCHANGED <<snapshots, books_closed_until>>

\* The entries of execute_simplified_closing, numbered one after the other:
\* adjustments and result closings, the patrimonial closing, the reopening.
ClosingEntries(r, extras) ==
  [i \in 1..Len(extras) |-> JournalEntry(r.number + i - 1, extras[i], r.date, NoEntry)]
    \o << JournalEntry(r.number + Len(extras), "PATRIMONIAL_CLOSING", r.date, NoEntry),
          JournalEntry(r.number + Len(extras) + 1, "REOPENING", r.reopening_date, NoEntry) >>

ClosingSnapshot(r, extras) ==
  [first           |-> r.number,
   closing_entry   |-> r.number + Len(extras),
   reopening_entry |-> r.number + Len(extras) + 1,
   loaded          |-> r.loaded]

\* Adjustments come before result closings; how many there are depends on amounts.
Extras ==
  {[i \in 1..a + c |-> IF i <= a THEN "ADJUSTMENT" ELSE "RESULT_CLOSING"] :
     a \in 0..MaxExtras, c \in 0..MaxExtras}

\* Mutant: without transaction.atomic, a failure leaves the entries posted so far.
CommitClosing_NotAtomic(w) ==
  /\ pc[w] = "locked"
  /\ req[w].kind = "closing"
  /\ ConstraintsHold(req[w])
  /\ \E extras \in Extras : \E n \in 1..Len(extras) + 2 :
       /\ journal' = journal \o SubSeq(ClosingEntries(req[w], extras), 1, n)
       /\ snapshots' = snapshots \cup {ClosingSnapshot(req[w], extras)}
  /\ books_closed_until' = req[w].date
  /\ Finish(w)

CommitClosing(w) ==
  /\ pc[w] = "locked"
  /\ req[w].kind = "closing"
  /\ ConstraintsHold(req[w])
  /\ \E extras \in Extras :
       /\ journal' = journal \o ClosingEntries(req[w], extras)
       /\ snapshots' = snapshots \cup {ClosingSnapshot(req[w], extras)}
  /\ books_closed_until' = req[w].date
  /\ Finish(w)

Conflict(w) ==
  /\ pc[w] = "locked"
  /\ ~ConstraintsHold(req[w])
  /\ Finish(w)
  /\ UNCHANGED <<journal, snapshots, books_closed_until>>

\* update_company: company.save() writes back every column of the row as it
\* was loaded, books_closed_until included.  The UPDATE waits for the row lock.
SavedBooksClosed(r) == r.closed_seen

SaveCompany(w) ==
  /\ pc[w] = "loaded"
  /\ req[w].kind = "update"
  /\ LockFree(w)
  /\ books_closed_until' = SavedBooksClosed(req[w])
  /\ Finish(w)
  /\ UNCHANGED <<journal, snapshots>>

\* The worker dies or loses its connection, or a check of the lines or accounts
\* of the entry fails: the transaction rolls back.
Crash(w) ==
  /\ pc[w] # "idle"
  /\ Finish(w)
  /\ UNCHANGED <<journal, snapshots, books_closed_until>>

-----------------------------------------------------------------------------
Serve(w) ==
  \/ Check(w) \/ Reject(w) \/ LoadBalances(w) \/ RejectPlan(w)
  \/ CommitEntry(w) \/ CommitClosing(w) \/ Conflict(w)

Wait(w) == AcquireLock(w) \/ SaveCompany(w)

ReceiveAny(w) ==
  \/ ReceiveOpening(w) \/ ReceivePosting(w) \/ ReceiveReversal(w)
  \/ ReceiveClosing(w) \/ ReceiveUpdate(w)

Next == \E w \in Workers : ReceiveAny(w) \/ Serve(w) \/ Wait(w) \/ Crash(w)

Spec == Init /\ [][Next]_vars

\* A worker that is running keeps running, and the lock queue of the database
\* is served in order; clients and crashes are under no obligation.
Fairness ==
  \A w \in Workers : WF_vars(Serve(w)) /\ SF_vars(Wait(w))

FairSpec == Spec /\ Fairness
-----------------------------------------------------------------------------
(* Properties.                                                             *)

PCs == {"idle", "loaded", "validated", "checked", "locked"}

\* Every variable holds values of its type.
TypeOK ==
  /\ journal \in Seq(Entry)
  /\ snapshots \subseteq Snapshot
  /\ books_closed_until \in Dates \cup {NoDate}
  /\ lock \in Workers \cup {NoWorker}
  /\ pc \in [Workers -> PCs]
  /\ req \in [Workers -> Request]

\* _next_entry_number numbers the entries of a company 1, 2, 3, ... in commit
\* order, without a gap or a duplicate, whatever requests interleave or crash.
NumbersGapless == \A i \in DOMAIN journal : journal[i].number = i

\* The number a request took under the row lock is still the next one when it
\* inserts its entry: the unique (company, entry_number) constraint never fires,
\* so no caller is told to retry because of the numbering.
NumberStaysFree ==
  \A w \in Workers : pc[w] = "locked" => req[w].number = Len(journal) + 1

\* A company that has entries has exactly one opening entry and it is the
\* first, although the check for it runs before the lock on stale data.
OpeningIsFirst ==
  \A i \in DOMAIN journal : journal[i].source_type = "OPENING" <=> i = 1

\* An entry is reversed at most once, by a later entry, and only if its source
\* type is reversible, although two requests may both find it not yet reversed.
ReversedOnce ==
  \A i \in DOMAIN journal : journal[i].reversal_of # NoEntry =>
    /\ journal[i].reversal_of < i
    /\ journal[journal[i].reversal_of].source_type \notin NON_REVERSIBLE_SOURCE_TYPES
    /\ \A j \in DOMAIN journal :
         journal[j].reversal_of = journal[i].reversal_of => j = i

\* The patrimonial closing and the reopening of one closing are committed
\* together and stay adjacent, with the snapshot that names them: no posting
\* gets a number between them and no crash leaves one without the other.
ClosingIsWhole ==
  /\ \A i \in DOMAIN journal : journal[i].source_type = "PATRIMONIAL_CLOSING" =>
       /\ i + 1 \in DOMAIN journal
       /\ journal[i + 1].source_type = "REOPENING"
       /\ journal[i + 1].date > journal[i].date
       /\ \E s \in snapshots : s.closing_entry = i /\ s.reopening_entry = i + 1
  /\ \A i \in DOMAIN journal : journal[i].source_type = "REOPENING" =>
       i > 1 /\ journal[i - 1].source_type = "PATRIMONIAL_CLOSING"

\* docs/accounting-rules.md:68: "exercise chains must remain canonical and
\* non-overlapping".  The boundary entries always parse as a chain, and each
\* exercise ends before the next one starts: so it is as long as one worker closes,
\* however stale its exercises are and whatever is saved over books_closed_until.
\* Two closings that are validated against the same journal break it.
ExerciseChainCanonical ==
  LET built == BuildLogicalExercises(journal)
      ex    == built.exercises
  IN  /\ ~built.invalid
      /\ \A i \in DOMAIN ex : ex[i].status = "closed" =>
           /\ ex[i].closing_date >= ex[i].start_date
           /\ i + 1 \in DOMAIN ex
           /\ ex[i + 1].start_date > ex[i].closing_date

\* Boundary entries are committed in the order of their dates, which is what makes
\* the chain canonical: a closing never dates its entries before an earlier
\* boundary, although the exercise it validates against may come from a stale cache.
\* Of one closer, like the chain.
BoundariesAscend ==
  \A i, j \in DOMAIN journal :
    (IsBoundary(journal[i]) /\ IsBoundary(journal[j]) /\ i < j) =>
      journal[i].date <= journal[j].date

\* Company.books_closed_until: "Entries on or before this date are locked."
\* An entry is committed only with a date after the closed period.
ClosedPeriodLocked ==
  [][\A i \in DOMAIN journal' : i > Len(journal) =>
       journal'[i].date > books_closed_until]_vars

\* README.md:1039: "after execution, `books_closed_until` is moved to
\* `closing_date`".  Every executed closing is behind the date up to which the books
\* are closed.  update_company breaks it: its company.save() writes the date back that
\* was loaded before the closing.
ClosingsAreLocked ==
  \A s \in snapshots : books_closed_until >= journal[s.closing_entry].date

\* docs/accounting-rules.md:94: a snapshot preserves "closed balances".  They are read
\* before the row lock is taken, so an entry of the closed period may be committed too
\* late to be among them.  What one closing misses in this way the next one finds: it
\* is in the balances that are closed then.  Of one closer.
MissedIsClosedNext ==
  \A s, t \in snapshots : s.first < t.first =>
    \A i \in DOMAIN journal :
      (i < s.first /\ journal[i].date <= journal[s.closing_entry].date) =>
        i <= t.loaded /\ journal[i].date <= journal[t.closing_entry].date

\* No request waits for the company row lock for ever: each one ends.
EveryRequestEnds ==
  \A w \in Workers : pc[w] # "idle" ~> pc[w] = "idle"

-----------------------------------------------------------------------------
(* The journal implements the append-only book: forget everything but the  *)
(* committed rows.                                                         *)
Abstract == INSTANCE Books WITH Day <- Dates, book <- journal

\* Whatever requests interleave, fail or crash, the committed rows change only
\* as the sequential book allows: no entry is edited, lost or renumbered, and
\* every commit of create_journal_entry, reverse_journal_entry and
\* execute_simplified_closing is one step of the book.
ImplementsBooks == Abstract!BookSpec
=============================================================================
