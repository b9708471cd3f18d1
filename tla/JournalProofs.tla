---------------------------- MODULE JournalProofs ----------------------------
(***************************************************************************)
(* Proofs about Journal, for any workers, closers, editors and bounds.     *)
(***************************************************************************)
EXTENDS Journal, FiniteSetTheorems, WellFoundedInduction, TLAPS

(***************************************************************************)
(* Facts about sequences.                                                  *)
(***************************************************************************)

\* Append keeps the old elements in place and puts the new one last.
LEMMA AppendFacts ==
  ASSUME NEW S, NEW s \in Seq(S), NEW e \in S
  PROVE  /\ Append(s, e) \in Seq(S)
         /\ Len(s) \in Nat
         /\ Len(Append(s, e)) = Len(s) + 1
         /\ DOMAIN s = 1..Len(s)
         /\ DOMAIN Append(s, e) = 1..(Len(s) + 1)
         /\ \A i \in 1..Len(s) : Append(s, e)[i] = s[i]
         /\ Append(s, e)[Len(s) + 1] = e
  OBVIOUS

\* Concatenation keeps the old elements in place and adds the others after them.
LEMMA ConcatFacts ==
  ASSUME NEW S, NEW s \in Seq(S), NEW t \in Seq(S)
  PROVE  /\ s \o t \in Seq(S)
         /\ Len(s) \in Nat
         /\ Len(t) \in Nat
         /\ Len(s \o t) = Len(s) + Len(t)
         /\ DOMAIN s = 1..Len(s)
         /\ DOMAIN (s \o t) = 1..(Len(s) + Len(t))
         /\ \A i \in 1..Len(s) : (s \o t)[i] = s[i]
         /\ \A i \in (Len(s) + 1)..(Len(s) + Len(t)) : (s \o t)[i] = t[i - Len(s)]
  OBVIOUS

\* Under gapless numbering, the next number is the length of the journal plus one.
LEMMA NextNumberFact ==
  ASSUME journal \in Seq(Entry), NumbersGapless
  PROVE  NextEntryNumber(journal) = Len(journal) + 1
<1>1. CASE journal = << >>
  BY <1>1 DEF NextEntryNumber
<1>2. CASE journal # << >>
  <2>1. Len(journal) \in Nat \ {0} /\ DOMAIN journal = 1..Len(journal)
    BY <1>2
  <2>2. EntryNumbers(journal) = 1..Len(journal)
    BY <2>1 DEF EntryNumbers, NumbersGapless
  <2>3. Max(EntryNumbers(journal)) = Len(journal)
    <3> DEFINE P(x) == x \in EntryNumbers(journal)
                       /\ \A y \in EntryNumbers(journal) : x >= y
    <3>1. P(Len(journal))
      BY <2>1, <2>2
    <3>2. \A x : P(x) => x = Len(journal)
      BY <2>1, <2>2
    <3> QED
      BY <3>1, <3>2 DEF Max
  <2> QED
    BY <1>2, <2>3 DEF NextEntryNumber
<1> QED
  BY <1>1, <1>2

(***************************************************************************)
(* The inductive invariant.  None of the properties is inductive alone:    *)
(* what a request will commit was decided earlier, from the row it loaded  *)
(* and the checks it made, so the invariant says what a request in flight  *)
(* may rely on (RequestInv) and who owns the lock (LockInv).               *)
(***************************************************************************)

InFlight == {"validated", "checked", "locked"}

\* Exactly the holder of the company row lock is past _next_entry_number.
LockInv == \A w \in Workers : pc[w] = "locked" <=> lock = w

\* What a request holds in memory and what its checks have established.
RequestInv ==
  \A w \in Workers :
    /\ req[w].opening_seen => journal # << >>
    /\ req[w].kind \in {"opening", "posting", "reversal", "closing"} => req[w].date \in Dates
    /\ req[w].kind = "closing" => req[w].reopening_date \in Dates
    /\ req[w].kind # "reversal" => req[w].original = NoEntry
    /\ pc[w] = "validated" => req[w].kind = "closing"
    /\ pc[w] \in InFlight =>
         /\ req[w].kind \in {"opening", "posting", "reversal", "closing"}
         /\ req[w].kind # "opening" => journal # << >>
         /\ req[w].kind = "closing" => req[w].reopening_date > req[w].date
         /\ req[w].kind = "reversal" =>
              /\ req[w].original \in DOMAIN journal
              /\ journal[req[w].original].source_type \notin NON_REVERSIBLE_SOURCE_TYPES

IInv ==
  /\ TypeOK
  /\ NumbersGapless
  /\ OpeningIsFirst
  /\ ReversedOnce
  /\ ClosingIsWhole
  /\ LockInv
  /\ NumberStaysFree
  /\ RequestInv

\* The initial states, a company with or without its opening entry, satisfy it.
LEMMA InitIInv == Init => IInv
<1> SUFFICES ASSUME Init PROVE IInv
  OBVIOUS
<1> USE BoundsAssumption, NoWorkerAssumption
<1>0. journal \in Seq(Entry) /\ NumbersGapless /\ OpeningIsFirst /\ ReversedOnce /\ ClosingIsWhole
  <2>1. CASE journal = << >>
    BY <2>1 DEF NumbersGapless, OpeningIsFirst, ReversedOnce, ClosingIsWhole
  <2>2. CASE \E d \in Dates : journal = << JournalEntry(1, "OPENING", d, NoEntry) >>
    <3>1. PICK d \in Dates : journal = << JournalEntry(1, "OPENING", d, NoEntry) >>
      BY <2>2
    <3>2. JournalEntry(1, "OPENING", d, NoEntry) \in Entry
      BY DEF JournalEntry, Entry, SourceType, NoEntry
    <3> QED
      BY <3>1, <3>2 DEF NumbersGapless, OpeningIsFirst, ReversedOnce, ClosingIsWhole,
                        JournalEntry, NoEntry
  <2> QED
    BY <2>1, <2>2 DEF Init
<1>1. NoRequest \in Request
  BY DEF NoRequest, Request, Kinds, NoDate, NoEntry
<1>2. TypeOK
  BY <1>0, <1>1 DEF Init, TypeOK, PCs
<1>3. LockInv /\ NumberStaysFree /\ RequestInv
  BY DEF Init, LockInv, NumberStaysFree, RequestInv, NoRequest, InFlight, NoEntry
<1> QED
  BY <1>0, <1>2, <1>3 DEF IInv

\* A step that commits no row only has to look after the requests and the lock.
LEMMA QuietStep ==
  ASSUME IInv, UNCHANGED <<journal, snapshots>>,
         books_closed_until' \in Dates \cup {NoDate},
         lock' \in Workers \cup {NoWorker}, pc' \in [Workers -> PCs],
         req' \in [Workers -> Request],
         LockInv', NumberStaysFree', RequestInv'
  PROVE  IInv'
  BY DEF IInv, TypeOK, NumbersGapless, OpeningIsFirst, ReversedOnce, ClosingIsWhole

\* The request as the view builds it: the annotation has_opening_entry is true
\* only of a company that has entries.
LEMMA LoadedFacts ==
  ASSUME IInv, NEW k \in Kinds, NEW d \in Dates \cup {NoDate},
         NEW e \in Dates \cup {NoDate}, NEW n \in Nat
  PROVE  LET r == LoadedRequest(k, d, e, n)
         IN  /\ r \in Request
             /\ r.kind = k /\ r.date = d /\ r.reopening_date = e /\ r.original = n
             /\ r.opening_seen => journal # << >>
<1>1. books_closed_until \in Dates \cup {NoDate}
  BY DEF IInv, TypeOK
<1>2. HasOpeningEntry(journal) \in BOOLEAN /\ (HasOpeningEntry(journal) => journal # << >>)
  BY DEF HasOpeningEntry
<1> QED
  BY <1>1, <1>2 DEF LoadedRequest, Request

\* Receiving a request whose in-memory company is the row just read.
LEMMA ReceiveIInv ==
  ASSUME IInv, NEW w \in Workers, NEW r \in Request, Receive(w, r),
         r.opening_seen => journal # << >>,
         r.kind \in {"opening", "posting", "reversal", "closing"} => r.date \in Dates,
         r.kind = "closing" => r.reopening_date \in Dates,
         r.kind # "reversal" => r.original = NoEntry
  PROVE  IInv'
<1> USE DEF Receive
<1>1. /\ lock' \in Workers \cup {NoWorker} /\ pc' \in [Workers -> PCs]
      /\ req' \in [Workers -> Request] /\ books_closed_until' \in Dates \cup {NoDate}
  BY DEF IInv, TypeOK, PCs
<1>2. pc[w] = "idle" /\ lock # w
  BY DEF IInv, LockInv
<1>3. LockInv'
  BY <1>2 DEF IInv, LockInv, TypeOK
<1>4. NumberStaysFree'
  BY DEF IInv, NumberStaysFree, TypeOK
<1>5. RequestInv'
  BY DEF IInv, RequestInv, TypeOK, InFlight
<1> QED
  BY <1>1, <1>3, <1>4, <1>5, QuietStep

\* Ending a request without a commit.
LEMMA FinishFacts ==
  ASSUME TypeOK, LockInv, NEW w \in Workers, Finish(w)
  PROVE  /\ lock' \in Workers \cup {NoWorker}
         /\ pc' \in [Workers -> PCs]
         /\ req' \in [Workers -> Request]
         /\ LockInv'
         /\ pc'[w] = "idle"
         /\ req'[w] = NoRequest
         /\ \A v \in Workers \ {w} : pc'[v] = pc[v] /\ req'[v] = req[v]
<1>1. NoRequest \in Request
  BY BoundsAssumption DEF NoRequest, Request, Kinds, NoDate, NoEntry
<1> QED
  BY <1>1, NoWorkerAssumption DEF Finish, TypeOK, LockInv, PCs

\* Rejections, conflicts, crashes and saves of the company commit no row.
LEMMA FinishIInv ==
  ASSUME IInv, NEW w \in Workers, Finish(w), UNCHANGED <<journal, snapshots>>,
         books_closed_until' \in Dates \cup {NoDate}
  PROVE  IInv'
<1>1. TypeOK /\ LockInv
  BY DEF IInv
<1>2. NumberStaysFree'
  BY <1>1, FinishFacts DEF IInv, NumberStaysFree
<1>3. RequestInv'
  BY <1>1, FinishFacts DEF IInv, RequestInv, NoRequest, InFlight
<1> QED
  BY <1>1, <1>2, <1>3, FinishFacts, QuietStep

-----------------------------------------------------------------------------
(* One lemma per action that changes what a request knows.                 *)

\* Whatever request a worker receives, the invariant is kept.
LEMMA ReceiveAnyIInv ==
  ASSUME IInv, NEW w \in Workers, ReceiveAny(w)
  PROVE  IInv'
<1> USE DEF Kinds, NoDate, NoEntry
<1>1. CASE ReceiveOpening(w)
  BY <1>1, LoadedFacts, ReceiveIInv DEF ReceiveOpening
<1>2. CASE ReceivePosting(w)
  BY <1>2, LoadedFacts, ReceiveIInv DEF ReceivePosting
<1>3. CASE ReceiveReversal(w)
  <2>1. \A i \in DOMAIN journal : journal[i] \in Entry
    BY DEF IInv, TypeOK
  <2>2. \A i \in DOMAIN journal : journal[i].number \in Nat
    BY <2>1 DEF Entry
  <2> QED
    BY <1>3, <2>2, LoadedFacts, ReceiveIInv, SMTT(30) DEF ReceiveReversal
<1>4. CASE ReceiveClosing(w)
  BY <1>4, LoadedFacts, ReceiveIInv DEF ReceiveClosing
<1>5. CASE ReceiveUpdate(w)
  BY <1>5, LoadedFacts, ReceiveIInv, SMTT(30) DEF ReceiveUpdate
<1> QED
  BY <1>1, <1>2, <1>3, <1>4, <1>5 DEF ReceiveAny

\* The checks establish what the commit relies on.
LEMMA CheckIInv ==
  ASSUME IInv, NEW w \in Workers, Check(w)
  PROVE  IInv'
<1> USE DEF Check
<1>1. /\ lock' \in Workers \cup {NoWorker} /\ pc' \in [Workers -> PCs]
      /\ req' \in [Workers -> Request] /\ books_closed_until' \in Dates \cup {NoDate}
  BY DEF IInv, TypeOK, PCs
<1>2. LockInv' /\ NumberStaysFree'
  BY DEF IInv, LockInv, NumberStaysFree, TypeOK
<1>3. /\ req[w].kind \in {"opening", "posting", "reversal", "closing"}
      /\ req[w].kind # "opening" => journal # << >>
      /\ req[w].kind = "closing" => req[w].reopening_date > req[w].date
  BY DEF IInv, RequestInv, Allowed, OpeningAllowed, PostingAllowed, ReversalAllowed,
         ClosingAllowed
<1>4. req[w].kind = "reversal" =>
        /\ req[w].original \in DOMAIN journal
        /\ journal[req[w].original].source_type \notin NON_REVERSIBLE_SOURCE_TYPES
  BY DEF IInv, NumbersGapless, Allowed, ReversalAllowed
<1>5. RequestInv'
  BY <1>3, <1>4 DEF IInv, RequestInv, TypeOK, InFlight
<1> QED
  BY <1>1, <1>2, <1>5, QuietStep

\* build_simplified_closing_plan only reads the journal.
LEMMA LoadBalancesIInv ==
  ASSUME IInv, NEW w \in Workers, LoadBalances(w)
  PROVE  IInv'
<1> USE DEF LoadBalances
<1>0. Len(journal) \in Nat
  BY DEF IInv, TypeOK
<1>1. /\ lock' \in Workers \cup {NoWorker} /\ pc' \in [Workers -> PCs]
      /\ req' \in [Workers -> Request] /\ books_closed_until' \in Dates \cup {NoDate}
  BY <1>0 DEF IInv, TypeOK, PCs, Request
<1>2. LockInv' /\ NumberStaysFree'
  BY DEF IInv, LockInv, NumberStaysFree, TypeOK
<1>3. RequestInv'
  BY DEF IInv, RequestInv, TypeOK, InFlight, Request
<1> QED
  BY <1>1, <1>2, <1>3, QuietStep

\* Under the lock, the number read is the next one.
LEMMA AcquireLockIInv ==
  ASSUME IInv, NEW w \in Workers, AcquireLock(w)
  PROVE  IInv'
<1> USE DEF AcquireLock
<1>0. NextEntryNumber(journal) = Len(journal) + 1 /\ Len(journal) \in Nat
  BY NextNumberFact DEF IInv, TypeOK
<1>1. /\ lock' \in Workers \cup {NoWorker} /\ pc' \in [Workers -> PCs]
      /\ req' \in [Workers -> Request] /\ books_closed_until' \in Dates \cup {NoDate}
  <2>1. NextEntryNumber(journal) \in Nat
    BY <1>0
  <2> QED
    BY <2>1 DEF IInv, TypeOK, PCs, Request
<1>2. LockInv'
  BY NoWorkerAssumption DEF IInv, LockInv, TypeOK, LockFree
<1>3. NumberStaysFree'
  BY <1>0 DEF IInv, NumberStaysFree, TypeOK, Request
<1>4. RequestInv'
  BY DEF IInv, RequestInv, TypeOK, InFlight, Request
<1> QED
  BY <1>1, <1>2, <1>3, <1>4, QuietStep

-----------------------------------------------------------------------------
(* The commits.                                                            *)

\* Rows committed earlier keep their place, so the other requests may still rely
\* on what they have seen; the lock is free, so no other number is pending.
LEMMA OthersAfterCommit ==
  ASSUME IInv, NEW w \in Workers, pc[w] = "locked", Finish(w),
         journal' # << >>, DOMAIN journal \subseteq DOMAIN journal',
         \A i \in DOMAIN journal : journal'[i] = journal[i]
  PROVE  /\ lock' \in Workers \cup {NoWorker}
         /\ pc' \in [Workers -> PCs]
         /\ req' \in [Workers -> Request]
         /\ LockInv' /\ NumberStaysFree' /\ RequestInv'
<1>1. TypeOK /\ LockInv
  BY DEF IInv
<1>2. \A v \in Workers : pc'[v] # "locked"
  BY <1>1, FinishFacts DEF LockInv
<1>3. NumberStaysFree'
  BY <1>2 DEF NumberStaysFree
<1>4. RequestInv'
  BY <1>1, FinishFacts DEF IInv, RequestInv, NoRequest, InFlight
<1> QED
  BY <1>1, <1>3, <1>4, FinishFacts

\* The commit of create_journal_entry, reverse_journal_entry or an opening.
LEMMA CommitEntryIInv ==
  ASSUME IInv, NEW w \in Workers, CommitEntry(w)
  PROVE  IInv'
<1> DEFINE r == req[w]
           n == Len(journal)
           e == PostedEntry(req[w])
<1>1. /\ pc[w] = "locked" /\ r.kind # "closing" /\ ConstraintsHold(r)
      /\ journal' = Append(journal, e) /\ Finish(w)
      /\ snapshots' = snapshots /\ books_closed_until' = books_closed_until
  BY DEF CommitEntry
<1>2. /\ journal \in Seq(Entry) /\ n \in Nat /\ DOMAIN journal = 1..n
      /\ \A i \in DOMAIN journal : journal[i] \in Entry
  BY DEF IInv, TypeOK
<1>3. /\ r \in Request /\ r.number = n + 1 /\ r.date \in Dates
      /\ r.kind \in {"opening", "posting", "reversal"}
      /\ r.kind # "opening" => journal # << >>
      /\ r.kind # "reversal" => r.original = NoEntry
      /\ r.kind = "reversal" =>
           /\ r.original \in DOMAIN journal
           /\ journal[r.original].source_type \notin NON_REVERSIBLE_SOURCE_TYPES
  BY <1>1 DEF IInv, TypeOK, NumberStaysFree, RequestInv, InFlight
<1>4. /\ e \in Entry /\ e.number = n + 1 /\ e.reversal_of = r.original
      /\ e.source_type = SourceTypeOf(r)
  <2>1. SourceTypeOf(r) \in SourceType
    BY DEF SourceTypeOf, SourceType
  <2>2. r.original \in Nat
    BY <1>3 DEF Request
  <2> QED
    BY <1>2, <1>3, <2>1, <2>2 DEF PostedEntry, JournalEntry, Entry
<1>5. /\ journal' \in Seq(Entry) /\ Len(journal') = n + 1
      /\ DOMAIN journal' = 1..(n + 1)
      /\ \A i \in 1..n : journal'[i] = journal[i]
      /\ journal'[n + 1] = e
  BY <1>1, <1>2, <1>4, AppendFacts
<1> HIDE DEF e
<1>6. NumbersGapless'
  BY <1>2, <1>4, <1>5 DEF IInv, NumbersGapless
<1>7. OpeningIsFirst'
  <2>1. r.kind = "opening" => n = 0
    BY <1>1, <1>2 DEF IInv, OpeningIsFirst, ConstraintsHold, UniqueOpening, HasOpeningEntry
  <2>2. r.kind # "opening" => n # 0
    BY <1>2, <1>3
  <2>3. e.source_type = "OPENING" <=> n + 1 = 1
    BY <1>2, <1>3, <1>4, <2>1, <2>2 DEF SourceTypeOf
  <2> QED
    BY <1>2, <1>5, <2>3 DEF IInv, OpeningIsFirst
<1>8. ReversedOnce'
  <2> SUFFICES ASSUME NEW i \in 1..(n + 1), journal'[i].reversal_of # NoEntry
               PROVE  /\ journal'[i].reversal_of < i
                      /\ journal'[journal'[i].reversal_of].source_type
                           \notin NON_REVERSIBLE_SOURCE_TYPES
                      /\ \A j \in 1..(n + 1) :
                           journal'[j].reversal_of = journal'[i].reversal_of => j = i
    BY <1>5 DEF ReversedOnce
  <2>1. \A j \in 1..n : journal[j].reversal_of \in Nat
    BY <1>2 DEF Entry
  <2>2. \A j \in 1..n : journal[j].reversal_of # NoEntry => journal[j].reversal_of \in 1..n
    BY <1>2, <2>1 DEF IInv, ReversedOnce, NoEntry
  <2>3. r.original # NoEntry =>
          /\ r.kind = "reversal" /\ r.original \in 1..n
          /\ \A j \in 1..n : journal[j].reversal_of # r.original
    BY <1>1, <1>2, <1>3 DEF ConstraintsHold, UniqueReversal, IsReversed
  <2>4. CASE i = n + 1
    BY <1>2, <1>3, <1>4, <1>5, <2>3, <2>4
  <2>5. CASE i \in 1..n
    <3>1. journal'[i] = journal[i] /\ journal[i].reversal_of \in 1..n
      BY <1>5, <2>2, <2>5
    <3>2. e.reversal_of # journal[i].reversal_of
      BY <1>4, <2>3, <2>5, <3>1 DEF NoEntry
    <3> QED
      BY <1>2, <1>5, <2>5, <3>1, <3>2 DEF IInv, ReversedOnce
  <2> QED
    BY <1>2, <2>4, <2>5
<1>9. ClosingIsWhole'
  <2>1. e.source_type \notin {"PATRIMONIAL_CLOSING", "REOPENING"}
    BY <1>4 DEF SourceTypeOf
  <2> QED
    BY <1>1, <1>2, <1>5, <2>1 DEF IInv, ClosingIsWhole
<1>10. /\ journal' # << >> /\ DOMAIN journal \subseteq DOMAIN journal'
       /\ \A i \in DOMAIN journal : journal'[i] = journal[i]
  BY <1>2, <1>5
<1>11. TypeOK' /\ LockInv' /\ NumberStaysFree' /\ RequestInv'
  BY <1>1, <1>5, <1>10, OthersAfterCommit DEF IInv, TypeOK
<1> QED
  BY <1>6, <1>7, <1>8, <1>9, <1>11 DEF IInv

\* The entries a closing commits, by position.
LEMMA ClosingEntriesFacts ==
  ASSUME NEW r \in Request, NEW n \in Nat, r.number = n + 1, r.date \in Dates,
         r.reopening_date \in Dates, NEW extras \in Extras
  PROVE  LET b == ClosingEntries(r, extras)
             m == Len(extras)
         IN  /\ m \in Nat /\ b \in Seq(Entry) /\ Len(b) = m + 2
             /\ \A i \in 1..m :
                  /\ extras[i] \in {"ADJUSTMENT", "RESULT_CLOSING"}
                  /\ b[i] = JournalEntry(n + i, extras[i], r.date, NoEntry)
             /\ b[m + 1] = JournalEntry(n + m + 1, "PATRIMONIAL_CLOSING", r.date, NoEntry)
             /\ b[m + 2] = JournalEntry(n + m + 2, "REOPENING", r.reopening_date, NoEntry)
<1> DEFINE m == Len(extras)
           f == [i \in 1..m |-> JournalEntry(r.number + i - 1, extras[i], r.date, NoEntry)]
           c == JournalEntry(r.number + m, "PATRIMONIAL_CLOSING", r.date, NoEntry)
           o == JournalEntry(r.number + m + 1, "REOPENING", r.reopening_date, NoEntry)
<1>1. PICK a \in 0..MaxExtras, k \in 0..MaxExtras :
        extras = [i \in 1..a + k |-> IF i <= a THEN "ADJUSTMENT" ELSE "RESULT_CLOSING"]
  BY DEF Extras
<1>2. a \in Nat /\ k \in Nat /\ m = a + k /\ m \in Nat
  BY <1>1, BoundsAssumption
<1>3. \A i \in 1..m : extras[i] \in {"ADJUSTMENT", "RESULT_CLOSING"}
  BY <1>1, <1>2
<1>4. \A p \in Nat \ {0}, t \in SourceType, d \in Dates : JournalEntry(p, t, d, NoEntry) \in Entry
  BY DEF JournalEntry, Entry, NoEntry
<1>5. \A i \in 1..m : f[i] \in Entry
  BY <1>2, <1>3, <1>4 DEF SourceType
<1>6. c \in Entry /\ o \in Entry
  BY <1>2, <1>4 DEF SourceType
<1>11. /\ c = JournalEntry(n + m + 1, "PATRIMONIAL_CLOSING", r.date, NoEntry)
      /\ o = JournalEntry(n + m + 2, "REOPENING", r.reopening_date, NoEntry)
      /\ \A i \in 1..m : f[i] = JournalEntry(n + i, extras[i], r.date, NoEntry)
  <2>1. r.number + m = n + m + 1 /\ r.number + m + 1 = n + m + 2
    BY <1>2
  <2>2. \A i \in 1..m : r.number + i - 1 = n + i
    BY <1>2
  <2> QED
    BY <2>1, <2>2
<1> HIDE DEF c, o
<1>7. f \in Seq(Entry) /\ Len(f) = m
  BY <1>2, <1>5
<1>8. <<c, o>> \in Seq(Entry) /\ Len(<<c, o>>) = 2 /\ <<c, o>>[1] = c /\ <<c, o>>[2] = o
  BY <1>6
<1>9. /\ f \o <<c, o>> \in Seq(Entry) /\ Len(f \o <<c, o>>) = m + 2
      /\ \A i \in 1..m : (f \o <<c, o>>)[i] = f[i]
      /\ (f \o <<c, o>>)[m + 1] = c /\ (f \o <<c, o>>)[m + 2] = o
  BY <1>2, <1>7, <1>8, ConcatFacts
<1>10. ClosingEntries(r, extras) = f \o <<c, o>>
  BY DEF ClosingEntries, c, o
<1> QED
  BY <1>2, <1>3, <1>9, <1>10, <1>11

\* The rows a closing commits: n earlier rows stay, then come m adjustments and
\* result closings, the patrimonial closing and the reopening.
LEMMA CommitClosingRows ==
  ASSUME IInv, NEW w \in Workers, CommitClosing(w)
  PROVE  LET n == Len(journal)
             r == req[w]
         IN  \E m \in Nat :
               /\ journal' \in Seq(Entry) /\ Len(journal') = n + m + 2
               /\ DOMAIN journal' = 1..(n + m + 2)
               /\ \A i \in 1..n : journal'[i] = journal[i]
               /\ \A i \in (n + 1)..(n + m) :
                    journal'[i] \in {JournalEntry(i, "ADJUSTMENT", r.date, NoEntry),
                                    JournalEntry(i, "RESULT_CLOSING", r.date, NoEntry)}
               /\ journal'[n + m + 1]
                    = JournalEntry(n + m + 1, "PATRIMONIAL_CLOSING", r.date, NoEntry)
               /\ journal'[n + m + 2]
                    = JournalEntry(n + m + 2, "REOPENING", r.reopening_date, NoEntry)
               /\ \E s \in Snapshot :
                    /\ snapshots' = snapshots \cup {s}
                    /\ s.closing_entry = n + m + 1 /\ s.reopening_entry = n + m + 2
<1> DEFINE r == req[w]
           n == Len(journal)
<1>1. PICK extras \in Extras :
        /\ journal' = journal \o ClosingEntries(r, extras)
        /\ snapshots' = snapshots \cup {ClosingSnapshot(r, extras)}
  BY DEF CommitClosing
<1>2. /\ pc[w] = "locked" /\ r.kind = "closing" /\ Finish(w)
      /\ books_closed_until' = r.date
  BY DEF CommitClosing
<1>3. /\ journal \in Seq(Entry) /\ n \in Nat /\ DOMAIN journal = 1..n
      /\ \A i \in DOMAIN journal : journal[i] \in Entry
  BY DEF IInv, TypeOK
<1>4. /\ r \in Request /\ r.number = n + 1 /\ r.date \in Dates
      /\ r.reopening_date \in Dates /\ r.reopening_date > r.date
      /\ journal # << >>
  BY <1>2 DEF IInv, TypeOK, NumberStaysFree, RequestInv, InFlight
<1> DEFINE b == ClosingEntries(r, extras)
           m == Len(extras)
<1>6. /\ m \in Nat /\ b \in Seq(Entry) /\ Len(b) = m + 2
      /\ \A i \in 1..m :
           /\ extras[i] \in {"ADJUSTMENT", "RESULT_CLOSING"}
           /\ b[i] = JournalEntry(n + i, extras[i], r.date, NoEntry)
      /\ b[m + 1] = JournalEntry(n + m + 1, "PATRIMONIAL_CLOSING", r.date, NoEntry)
      /\ b[m + 2] = JournalEntry(n + m + 2, "REOPENING", r.reopening_date, NoEntry)
  BY <1>3, <1>4, ClosingEntriesFacts
<1>16. journal' = journal \o b
  BY <1>1
<1> HIDE DEF b, m
<1>7. /\ journal' \in Seq(Entry) /\ Len(journal') = n + m + 2
      /\ DOMAIN journal' = 1..(n + m + 2)
      /\ \A i \in 1..n : journal'[i] = journal[i]
      /\ \A i \in (n + 1)..(n + m + 2) : journal'[i] = b[i - n]
  <2>1. m \in Nat /\ b \in Seq(Entry) /\ Len(b) = m + 2
    BY <1>6
  <2>2. n + (m + 2) = n + m + 2
    BY <1>3, <2>1
  <2>3. /\ journal \o b \in Seq(Entry)
        /\ Len(journal \o b) = n + Len(b)
        /\ DOMAIN (journal \o b) = 1..(n + Len(b))
        /\ \A i \in 1..n : (journal \o b)[i] = journal[i]
        /\ \A i \in (n + 1)..(n + Len(b)) : (journal \o b)[i] = b[i - n]
    <3>1. journal \in Seq(Entry) /\ b \in Seq(Entry)
      BY <1>3, <2>1
    <3> QED BY <3>1, ConcatFacts
  <2>4. n + Len(b) = n + m + 2
    BY <2>1, <2>2
  <2> QED
    BY <1>16, <2>3, <2>4
<1>19. n \in Nat /\ m \in Nat /\ DOMAIN journal = 1..n
  BY <1>3, <1>6
<1>17. snapshots' = snapshots \cup {ClosingSnapshot(r, extras)} /\ extras \in Extras
  BY <1>1
<1>18. /\ ClosingSnapshot(r, extras) \in Snapshot
       /\ ClosingSnapshot(r, extras).closing_entry = n + m + 1
       /\ ClosingSnapshot(r, extras).reopening_entry = n + m + 2
  <2>1. r.loaded \in Nat
    BY <1>4 DEF Request
  <2>2. m \in Nat
    BY <1>6
  <2> QED
    BY <1>3, <1>4, <2>1, <2>2 DEF ClosingSnapshot, Snapshot, m
<1> HIDE DEF n, r
<1>8. \A i \in (n + 1)..(n + m) :
        journal'[i] \in {JournalEntry(i, "ADJUSTMENT", r.date, NoEntry),
                         JournalEntry(i, "RESULT_CLOSING", r.date, NoEntry)}
  <2> SUFFICES ASSUME NEW i \in (n + 1)..(n + m)
               PROVE  journal'[i] \in {JournalEntry(i, "ADJUSTMENT", r.date, NoEntry),
                                       JournalEntry(i, "RESULT_CLOSING", r.date, NoEntry)}
    OBVIOUS
  <2>1. i - n \in 1..m /\ n + (i - n) = i /\ i \in (n + 1)..(n + m + 2)
    BY <1>19
  <2> QED
    BY <1>6, <1>7, <2>1
<1>9. /\ journal'[n + m + 1] = JournalEntry(n + m + 1, "PATRIMONIAL_CLOSING", r.date, NoEntry)
      /\ journal'[n + m + 2] = JournalEntry(n + m + 2, "REOPENING", r.reopening_date, NoEntry)
  <2>1. /\ n + m + 1 \in (n + 1)..(n + m + 2) /\ (n + m + 1) - n = m + 1
        /\ n + m + 2 \in (n + 1)..(n + m + 2) /\ (n + m + 2) - n = m + 2
    BY <1>19
  <2> QED
    BY <1>6, <1>7, <2>1
<1>20. \E s \in Snapshot :
         /\ snapshots' = snapshots \cup {s}
         /\ s.closing_entry = n + m + 1 /\ s.reopening_entry = n + m + 2
  BY <1>17, <1>18
<1> QED
  BY <1>7, <1>8, <1>9, <1>19, <1>20 DEF n, r

\* The commit of execute_simplified_closing.
LEMMA CommitClosingIInv ==
  ASSUME IInv, NEW w \in Workers, CommitClosing(w)
  PROVE  IInv'
<1> DEFINE r == req[w]
           n == Len(journal)
<1>1. /\ pc[w] = "locked" /\ r.kind = "closing" /\ Finish(w)
      /\ books_closed_until' = r.date
  BY DEF CommitClosing
<1>2. /\ journal \in Seq(Entry) /\ n \in Nat /\ DOMAIN journal = 1..n
      /\ \A i \in DOMAIN journal : journal[i] \in Entry
  BY DEF IInv, TypeOK
<1>3. r.date \in Dates /\ r.reopening_date > r.date /\ journal # << >>
  BY <1>1 DEF IInv, TypeOK, NumberStaysFree, RequestInv, InFlight
<1>4. n >= 1
  BY <1>2, <1>3
<1>5. PICK m \in Nat :
        /\ journal' \in Seq(Entry) /\ Len(journal') = n + m + 2
        /\ DOMAIN journal' = 1..(n + m + 2)
        /\ \A i \in 1..n : journal'[i] = journal[i]
        /\ \A i \in (n + 1)..(n + m) :
             journal'[i] \in {JournalEntry(i, "ADJUSTMENT", r.date, NoEntry),
                              JournalEntry(i, "RESULT_CLOSING", r.date, NoEntry)}
        /\ journal'[n + m + 1]
             = JournalEntry(n + m + 1, "PATRIMONIAL_CLOSING", r.date, NoEntry)
        /\ journal'[n + m + 2]
             = JournalEntry(n + m + 2, "REOPENING", r.reopening_date, NoEntry)
        /\ \E s \in Snapshot :
             /\ snapshots' = snapshots \cup {s}
             /\ s.closing_entry = n + m + 1 /\ s.reopening_entry = n + m + 2
  BY CommitClosingRows
<1>6. n \in Nat /\ m \in Nat /\ DOMAIN journal = 1..n
  BY <1>2
<1>7. /\ DOMAIN journal' = 1..(n + m + 2)
      /\ \A i \in 1..n : journal'[i] = journal[i]
  BY <1>5
<1> HIDE DEF n, r
<1>8. \A i \in (n + 1)..(n + m + 2) :
        /\ journal'[i].number = i /\ journal'[i].reversal_of = NoEntry
        /\ i <= n + m => journal'[i].source_type \in {"ADJUSTMENT", "RESULT_CLOSING"}
        /\ i = n + m + 1 => journal'[i].source_type = "PATRIMONIAL_CLOSING"
                            /\ journal'[i].date = r.date
        /\ i = n + m + 2 => journal'[i].source_type = "REOPENING"
                            /\ journal'[i].date = r.reopening_date
  <2>1. \A i \in (n + 1)..(n + m + 2) : i \in (n + 1)..(n + m) \/ i = n + m + 1 \/ i = n + m + 2
    BY <1>6
  <2> QED
    BY <1>5, <1>6, <2>1 DEF JournalEntry
<1>9. NumbersGapless'
  BY <1>6, <1>7, <1>8 DEF IInv, NumbersGapless
<1>10. OpeningIsFirst'
  <2>1. \A i \in 1..n : journal'[i].source_type = "OPENING" <=> i = 1
    BY <1>6, <1>7 DEF IInv, OpeningIsFirst
  <2>2. \A i \in (n + 1)..(n + m + 2) : journal'[i].source_type # "OPENING" /\ i # 1
    BY <1>4, <1>6, <1>8
  <2>3. \A i \in 1..(n + m + 2) : i \in 1..n \/ i \in (n + 1)..(n + m + 2)
    BY <1>6
  <2> QED
    BY <1>7, <2>1, <2>2, <2>3 DEF OpeningIsFirst
<1>11. ReversedOnce'
  <2>1. \A i \in 1..n : journal[i].reversal_of \in Nat
    BY <1>2, <1>6 DEF Entry
  <2>2. \A i \in 1..n : journal[i].reversal_of # NoEntry => journal[i].reversal_of \in 1..n
    BY <1>6, <2>1 DEF IInv, ReversedOnce, NoEntry
  <2> QED
    BY <1>6, <1>7, <1>8, <2>2 DEF IInv, ReversedOnce
<1>12. ClosingIsWhole'
  <2>1. \A s \in snapshots : s \in snapshots'
    BY <1>5
  <2>2. \E s \in snapshots' : s.closing_entry = n + m + 1 /\ s.reopening_entry = n + m + 2
    BY <1>5
  <2>3. ASSUME NEW i \in 1..(n + m + 2), journal'[i].source_type = "PATRIMONIAL_CLOSING"
        PROVE  /\ i + 1 \in DOMAIN journal'
               /\ journal'[i + 1].source_type = "REOPENING"
               /\ journal'[i + 1].date > journal'[i].date
               /\ \E s \in snapshots' : s.closing_entry = i /\ s.reopening_entry = i + 1
    <3>1. CASE i \in 1..n
      BY <1>6, <1>7, <2>1, <2>3, <3>1 DEF IInv, ClosingIsWhole
    <3>2. CASE i \in (n + 1)..(n + m + 2)
      <4>1. i = n + m + 1 /\ i + 1 = n + m + 2
        BY <1>6, <1>8, <2>3, <3>2
      <4> QED
        BY <1>3, <1>6, <1>7, <1>8, <2>2, <4>1
    <3> QED
      BY <1>6, <3>1, <3>2
  <2>4. ASSUME NEW i \in 1..(n + m + 2), journal'[i].source_type = "REOPENING"
        PROVE  i > 1 /\ journal'[i - 1].source_type = "PATRIMONIAL_CLOSING"
    <3>1. CASE i \in 1..n
      <4>1. i > 1 /\ journal[i - 1].source_type = "PATRIMONIAL_CLOSING"
        BY <1>6, <1>7, <2>4, <3>1 DEF IInv, ClosingIsWhole
      <4>2. i - 1 \in 1..n
        BY <1>6, <3>1, <4>1
      <4> QED
        BY <1>7, <4>1, <4>2
    <3>2. CASE i \in (n + 1)..(n + m + 2)
      <4>1. i = n + m + 2 /\ i - 1 = n + m + 1
        BY <1>6, <1>8, <2>4, <3>2
      <4> QED
        BY <1>4, <1>6, <1>8, <4>1
    <3> QED
      BY <1>6, <3>1, <3>2
  <2> QED
    BY <1>7, <2>3, <2>4 DEF ClosingIsWhole
<1>13. /\ journal' # << >> /\ DOMAIN journal \subseteq DOMAIN journal'
       /\ \A i \in DOMAIN journal : journal'[i] = journal[i]
  BY <1>6, <1>7
<1>15. TypeOK' /\ LockInv' /\ NumberStaysFree' /\ RequestInv'
  BY <1>1, <1>3, <1>5, <1>13, OthersAfterCommit DEF IInv, TypeOK
<1> QED
  BY <1>9, <1>10, <1>11, <1>12, <1>15 DEF IInv

-----------------------------------------------------------------------------
\* Every step keeps the invariant.
LEMMA NextIInv == IInv /\ [Next]_vars => IInv'
<1> SUFFICES ASSUME IInv, [Next]_vars PROVE IInv'
  OBVIOUS
<1>1. CASE UNCHANGED vars
  BY <1>1 DEF vars, IInv, TypeOK, NumbersGapless, OpeningIsFirst, ReversedOnce,
              ClosingIsWhole, LockInv, NumberStaysFree, RequestInv
<1>2. CASE Next
  <2>1. PICK w \in Workers : ReceiveAny(w) \/ Serve(w) \/ Wait(w) \/ Crash(w)
    BY <1>2 DEF Next
  <2>2. TypeOK
    BY DEF IInv
  <2>3. CASE ReceiveAny(w)
    BY <2>3, ReceiveAnyIInv
  <2>4. CASE Check(w)
    BY <2>4, CheckIInv
  <2>5. CASE LoadBalances(w)
    BY <2>5, LoadBalancesIInv
  <2>6. CASE AcquireLock(w)
    BY <2>6, AcquireLockIInv
  <2>7. CASE CommitEntry(w)
    BY <2>7, CommitEntryIInv
  <2>8. CASE CommitClosing(w)
    BY <2>8, CommitClosingIInv
  <2>9. CASE Reject(w) \/ RejectPlan(w) \/ Conflict(w) \/ Crash(w)
    BY <2>2, <2>9, FinishIInv DEF Reject, RejectPlan, Conflict, Crash, TypeOK
  <2>10. CASE SaveCompany(w)
    <3>1. req[w].closed_seen \in Dates \cup {NoDate}
      BY <2>2 DEF TypeOK, Request
    <3> QED
      BY <2>10, <3>1, FinishIInv DEF SaveCompany, SavedBooksClosed
  <2> QED
    BY <2>1, <2>3, <2>4, <2>5, <2>6, <2>7, <2>8, <2>9, <2>10 DEF Serve, Wait
<1> QED
  BY <1>1, <1>2

\* The invariant holds in every reachable state.
THEOREM Invariance == Spec => []IInv
  BY InitIInv, NextIInv, PTL DEF Spec

\* Every variable keeps its type, for any number of workers and any bounds.
THEOREM TypeCorrect == Spec => []TypeOK
<1>1. IInv => TypeOK
  BY DEF IInv
<1> QED
  BY <1>1, Invariance, PTL

\* _next_entry_number under the company row lock: entries are numbered 1, 2, 3, ...
\* in commit order and a number, once read, stays free until it is used.
THEOREM NumberingCorrect == Spec => [](NumbersGapless /\ NumberStaysFree)
<1>1. IInv => NumbersGapless /\ NumberStaysFree
  BY DEF IInv
<1> QED
  BY <1>1, Invariance, PTL

\* create_journal_entry: the opening entry is unique and first, although the check
\* for it precedes the lock.
THEOREM OpeningCorrect == Spec => []OpeningIsFirst
<1>1. IInv => OpeningIsFirst
  BY DEF IInv
<1> QED
  BY <1>1, Invariance, PTL

\* reverse_journal_entry: an entry is reversed at most once, by a later entry, and
\* only if its source type allows it.
THEOREM ReversalCorrect == Spec => []ReversedOnce
<1>1. IInv => ReversedOnce
  BY DEF IInv
<1> QED
  BY <1>1, Invariance, PTL

\* execute_simplified_closing: a patrimonial closing, its reopening and its snapshot
\* are committed together and stay adjacent.
THEOREM ClosingCorrect == Spec => []ClosingIsWhole
<1>1. IInv => ClosingIsWhole
  BY DEF IInv
<1> QED
  BY <1>1, Invariance, PTL

-----------------------------------------------------------------------------
(* The journal implements the append-only book.                            *)

\* The company starts with an empty journal or with its opening entry only.
LEMMA InitBooks == Init => Abstract!Start
  BY DEF Init, Abstract!Start, JournalEntry, Abstract!Row, NoEntry, Abstract!NoEntry

\* A commit of one entry is an Open, a Post or a ReverseEntry of the book.
LEMMA CommitEntryBooks ==
  ASSUME IInv, NEW w \in Workers, CommitEntry(w)
  PROVE  Abstract!Step
<1> DEFINE r == req[w]
<1>1. /\ pc[w] = "locked" /\ r.kind # "closing" /\ ConstraintsHold(r)
      /\ journal' = Append(journal, PostedEntry(r))
  BY DEF CommitEntry
<1>2. /\ journal \in Seq(Entry) /\ Len(journal) \in Nat /\ DOMAIN journal = 1..Len(journal)
  BY DEF IInv, TypeOK
<1>3. /\ r.number = Len(journal) + 1 /\ r.date \in Dates
      /\ r.kind \in {"opening", "posting", "reversal"}
      /\ r.kind # "opening" => journal # << >>
      /\ r.kind # "reversal" => r.original = NoEntry
      /\ r.kind = "reversal" =>
           /\ r.original \in DOMAIN journal
           /\ journal[r.original].source_type \notin NON_REVERSIBLE_SOURCE_TYPES
  BY <1>1 DEF IInv, NumberStaysFree, RequestInv, InFlight
<1>4. journal' = Append(journal, Abstract!Row(Len(journal) + 1, SourceTypeOf(r), r.date, r.original))
  BY <1>1, <1>3 DEF PostedEntry, JournalEntry, Abstract!Row
<1>5. CASE r.kind = "opening"
  <2>1. journal = << >>
    BY <1>1, <1>2, <1>5 DEF IInv, OpeningIsFirst, ConstraintsHold, UniqueOpening, HasOpeningEntry
  <2>2. SourceTypeOf(r) = "OPENING" /\ r.original = NoEntry
    BY <1>3, <1>5 DEF SourceTypeOf
  <2> QED
    BY <1>3, <1>4, <2>1, <2>2 DEF Abstract!Step, Abstract!Open, Abstract!Write, NoEntry, Abstract!NoEntry
<1>6. CASE r.kind = "posting"
  <2>1. SourceTypeOf(r) = "MANUAL" /\ r.original = NoEntry /\ journal # << >>
    BY <1>3, <1>6 DEF SourceTypeOf
  <2> QED
    BY <1>3, <1>4, <2>1 DEF Abstract!Step, Abstract!Post, Abstract!Write, NoEntry, Abstract!NoEntry
<1>7. CASE r.kind = "reversal"
  <2>1. SourceTypeOf(r) = "OTHER"
    BY <1>7 DEF SourceTypeOf
  <2>2. \A j \in DOMAIN journal : journal[j].reversal_of # r.original
    BY <1>1, <1>7 DEF ConstraintsHold, UniqueReversal, IsReversed
  <2>3. Abstract!ReverseEntry(r.original)
    BY <1>3, <1>4, <1>7, <2>1, <2>2 DEF Abstract!ReverseEntry, Abstract!Write,
       NON_REVERSIBLE_SOURCE_TYPES, Abstract!NON_REVERSIBLE_SOURCE_TYPES
  <2> QED
    BY <1>3, <1>7, <2>3 DEF Abstract!Step
<1> QED
  BY <1>3, <1>5, <1>6, <1>7

\* A commit of a closing is one Close of the book.
LEMMA CommitClosingBooks ==
  ASSUME IInv, NEW w \in Workers, CommitClosing(w)
  PROVE  Abstract!Step
<1> DEFINE r == req[w]
           n == Len(journal)
<1>1. /\ r.date \in Dates /\ r.reopening_date \in Dates
      /\ r.reopening_date > r.date /\ journal # << >>
  BY DEF CommitClosing, IInv, RequestInv, InFlight
<1>2. PICK m \in Nat :
        /\ journal' \in Seq(Entry) /\ Len(journal') = n + m + 2
        /\ DOMAIN journal' = 1..(n + m + 2)
        /\ \A i \in 1..n : journal'[i] = journal[i]
        /\ \A i \in (n + 1)..(n + m) :
             journal'[i] \in {JournalEntry(i, "ADJUSTMENT", r.date, NoEntry),
                              JournalEntry(i, "RESULT_CLOSING", r.date, NoEntry)}
        /\ journal'[n + m + 1]
             = JournalEntry(n + m + 1, "PATRIMONIAL_CLOSING", r.date, NoEntry)
        /\ journal'[n + m + 2]
             = JournalEntry(n + m + 2, "REOPENING", r.reopening_date, NoEntry)
  BY CommitClosingRows
<1>3. n \in Nat
  BY DEF IInv, TypeOK
<1>4. \A k, t, d : JournalEntry(k, t, d, NoEntry) = Abstract!Row(k, t, d, NoEntry)
  BY DEF JournalEntry, Abstract!Row
<1> HIDE DEF n
<1>5. /\ n + m + 2 >= n + 2
      /\ (n + m + 2) - 1 = n + m + 1
      /\ \A i \in 1..(n + m + 2) : i <= n => i \in 1..n
      /\ \A i \in 1..(n + m + 2) : (i > n /\ i < (n + m + 2) - 1) => i \in (n + 1)..(n + m)
  BY <1>3
<1>6. Abstract!Close(r.date, r.reopening_date)
  BY <1>1, <1>2, <1>4, <1>5 DEF Abstract!Close, n, NoEntry, Abstract!NoEntry
<1> QED
  BY <1>1, <1>6 DEF Abstract!Step

\* Only commits write rows, and each one is a step of the book.
LEMMA StepBooks == IInv /\ [Next]_vars => [Abstract!Step]_journal
<1> SUFFICES ASSUME IInv, [Next]_vars, journal' # journal PROVE Abstract!Step
  OBVIOUS
<1>1. PICK w \in Workers : CommitEntry(w) \/ CommitClosing(w)
  BY DEF Next, vars, ReceiveAny, Serve, Wait, Crash, ReceiveOpening, ReceivePosting,
         ReceiveReversal, ReceiveClosing, ReceiveUpdate, Receive, Check, Reject,
         LoadBalances, RejectPlan, Conflict, AcquireLock, SaveCompany
<1> QED
  BY <1>1, CommitEntryBooks, CommitClosingBooks

\* Every commit of a request is one step of the append-only book, and nothing else
\* changes a committed row: the concurrent journal implements the sequential book.
THEOREM JournalImplementsBooks == Spec => ImplementsBooks
  BY InitBooks, StepBooks, Invariance, PTL DEF Spec, ImplementsBooks, Abstract!BookSpec

-----------------------------------------------------------------------------
(* With one closer at a time, boundary entries are committed in date order.*)

SingleCloser == \A v, w \in Closers : v = w

\* Only closers close, and a closing that passed _validate_request is still not
\* before any boundary: nobody else adds one once the company has entries.
CloserInv ==
  \A w \in Workers : req[w].kind = "closing" =>
    /\ w \in Closers
    /\ pc[w] \in InFlight =>
         \A i \in DOMAIN journal : IsBoundary(journal[i]) => journal[i].date <= req[w].date

\* A company that has just been created has at most one boundary entry.
LEMMA InitAscend == Init => CloserInv /\ BoundariesAscend
<1> SUFFICES ASSUME Init PROVE CloserInv /\ BoundariesAscend
  OBVIOUS
<1>1. CloserInv
  BY DEF Init, CloserInv, NoRequest
<1>2. \A i, j \in DOMAIN journal : i = j
  BY DEF Init
<1>3. DOMAIN journal \subseteq Nat
  BY DEF Init
<1> QED
  BY <1>1, <1>2, <1>3 DEF BoundariesAscend

\* Steps that commit no row keep the boundaries; Check establishes CloserInv.
LEMMA QuietAscend ==
  ASSUME IInv, CloserInv, BoundariesAscend, [Next]_vars, UNCHANGED journal
  PROVE  CloserInv' /\ BoundariesAscend'
<1>1. BoundariesAscend'
  BY DEF BoundariesAscend
<1> USE DEF IInv, TypeOK
<1>2. CASE UNCHANGED vars
  BY <1>1, <1>2 DEF vars, CloserInv
<1>3. ASSUME NEW w \in Workers, Finish(w) PROVE CloserInv'
  BY <1>3, FinishFacts DEF CloserInv, NoRequest
<1>4. ASSUME NEW w \in Workers, ReceiveAny(w) PROVE CloserInv'
  <2>1. /\ \A v \in Workers \ {w} : pc'[v] = pc[v] /\ req'[v] = req[v]
        /\ pc'[w] = "loaded"
        /\ req'[w].kind = "closing" => w \in Closers
    BY <1>4 DEF ReceiveAny, ReceiveOpening, ReceivePosting, ReceiveReversal,
                ReceiveClosing, ReceiveUpdate, Receive, LoadedRequest
  <2> QED
    BY <2>1 DEF CloserInv, InFlight
<1>5. ASSUME NEW w \in Workers, Check(w) PROVE CloserInv'
  <2>1. /\ req' = req
        /\ \A v \in Workers \ {w} : pc'[v] = pc[v]
    BY <1>5 DEF Check
  <2>2. req[w].kind = "closing" => \A i \in DOMAIN journal : journal[i].date <= req[w].date
    BY <1>5 DEF Check, Allowed, ClosingAllowed
  <2> QED
    BY <2>1, <2>2 DEF CloserInv
<1>6. ASSUME NEW w \in Workers, LoadBalances(w) PROVE CloserInv'
  BY <1>6 DEF LoadBalances, CloserInv, InFlight, Request
<1>7. ASSUME NEW w \in Workers, AcquireLock(w) PROVE CloserInv'
  BY <1>7 DEF AcquireLock, CloserInv, InFlight, Request
<1>8. CloserInv'
  BY <1>2, <1>3, <1>4, <1>5, <1>6, <1>7
     DEF Next, Serve, Wait, Reject, RejectPlan, CommitEntry, CommitClosing, Conflict,
         SaveCompany, Crash
<1> QED
  BY <1>1, <1>8

\* An opening is the first entry; postings and reversals are no boundaries.
LEMMA CommitEntryAscend ==
  ASSUME IInv, CloserInv, BoundariesAscend, NEW w \in Workers, CommitEntry(w)
  PROVE  CloserInv' /\ BoundariesAscend'
<1> DEFINE n == Len(journal)
           r == req[w]
<1>1. /\ journal \in Seq(Entry) /\ PostedEntry(r) \in Entry
      /\ journal' = Append(journal, PostedEntry(r))
  <2>1. /\ r.kind \in {"opening", "posting", "reversal"} /\ r.date \in Dates
        /\ r.number \in Nat \ {0} /\ r.original \in Nat
    BY DEF CommitEntry, IInv, TypeOK, RequestInv, InFlight, NumberStaysFree, Request
  <2> QED
    BY <2>1 DEF CommitEntry, IInv, TypeOK, PostedEntry, JournalEntry, Entry, SourceTypeOf, SourceType
<1>2. /\ n \in Nat /\ DOMAIN journal = 1..n /\ DOMAIN journal' = 1..(n + 1)
      /\ \A i \in 1..n : journal'[i] = journal[i]
      /\ journal'[n + 1] = PostedEntry(r)
  BY <1>1, AppendFacts
<1>3. r.kind = "opening" => n = 0
  BY <1>2 DEF CommitEntry, ConstraintsHold, UniqueOpening, HasOpeningEntry, IInv, OpeningIsFirst
<1>4. n # 0 => ~IsBoundary(journal'[n + 1])
  <2>1. r.kind \in {"posting", "reversal"} => SourceTypeOf(r) \in {"MANUAL", "OTHER"}
    BY DEF SourceTypeOf
  <2>2. r.kind \in {"opening", "posting", "reversal"}
    BY DEF CommitEntry, IInv, RequestInv, InFlight
  <2> QED
    BY <1>2, <1>3, <2>1, <2>2 DEF PostedEntry, JournalEntry, IsBoundary, BoundaryType
<1>5. /\ \A v \in Workers \ {w} : pc'[v] = pc[v] /\ req'[v] = req[v]
      /\ req'[w].kind # "closing"
  BY FinishFacts DEF CommitEntry, IInv, NoRequest
<1>6. \A v \in Workers : (req[v].kind = "closing" /\ pc[v] \in InFlight) => n # 0
  BY <1>2 DEF IInv, RequestInv
<1> HIDE DEF n, r
<1>7. CloserInv'
  <2> SUFFICES ASSUME NEW v \in Workers, req'[v].kind = "closing"
               PROVE  /\ v \in Closers
                      /\ pc'[v] \in InFlight => \A i \in DOMAIN journal' :
                           IsBoundary(journal'[i]) => journal'[i].date <= req'[v].date
    BY DEF CloserInv
  <2>1. v # w /\ pc'[v] = pc[v] /\ req'[v] = req[v]
    BY <1>5
  <2>2. \A i \in 1..(n + 1) : i \in 1..n \/ i = n + 1
    BY <1>2
  <2> QED
    BY <1>2, <1>4, <1>6, <2>1, <2>2 DEF CloserInv
<1>8. BoundariesAscend'
  <2> SUFFICES ASSUME NEW i \in 1..(n + 1), NEW j \in 1..(n + 1), i < j,
                      IsBoundary(journal'[i]), IsBoundary(journal'[j])
               PROVE  journal'[i].date <= journal'[j].date
    BY <1>2 DEF BoundariesAscend
  <2>1. i \in 1..n /\ j \in 1..n
    BY <1>2, <1>4
  <2> QED
    BY <1>2, <2>1 DEF BoundariesAscend
<1> QED
  BY <1>7, <1>8

\* A closing dates its boundaries on its closing date and after it, and no boundary
\* is later than the closing date.
LEMMA CommitClosingAscend ==
  ASSUME SingleCloser, IInv, CloserInv, BoundariesAscend, NEW w \in Workers, CommitClosing(w)
  PROVE  CloserInv' /\ BoundariesAscend'
<1> DEFINE r == req[w]
           n == Len(journal)
<1>1. /\ r.kind = "closing" /\ w \in Closers
      /\ r.date \in Dates /\ r.reopening_date \in Dates /\ r.reopening_date > r.date
      /\ \A i \in DOMAIN journal : IsBoundary(journal[i]) => journal[i].date <= r.date
  BY DEF CommitClosing, IInv, RequestInv, InFlight, CloserInv
<1>2. CloserInv'
  <2>1. /\ \A v \in Workers \ {w} : req'[v] = req[v]
        /\ req'[w].kind # "closing"
    BY FinishFacts DEF CommitClosing, IInv, NoRequest
  <2>2. \A v \in Workers \ {w} : req[v].kind # "closing"
    BY <1>1 DEF CloserInv, SingleCloser
  <2> QED
    BY <2>1, <2>2 DEF CloserInv
<1>3. PICK m \in Nat :
        /\ DOMAIN journal' = 1..(n + m + 2)
        /\ \A i \in 1..n : journal'[i] = journal[i]
        /\ \A i \in (n + 1)..(n + m) :
             journal'[i] \in {JournalEntry(i, "ADJUSTMENT", r.date, NoEntry),
                              JournalEntry(i, "RESULT_CLOSING", r.date, NoEntry)}
        /\ journal'[n + m + 1]
             = JournalEntry(n + m + 1, "PATRIMONIAL_CLOSING", r.date, NoEntry)
        /\ journal'[n + m + 2]
             = JournalEntry(n + m + 2, "REOPENING", r.reopening_date, NoEntry)
  BY CommitClosingRows
<1>4. n \in Nat /\ m \in Nat /\ DOMAIN journal = 1..n
  BY DEF IInv, TypeOK
<1>5. /\ r.date \in Int /\ r.reopening_date \in Int
      /\ \A i \in 1..n : journal[i].date \in Int
  <2>1. Dates \subseteq Int
    BY BoundsAssumption DEF Dates
  <2>2. \A i \in 1..n : journal[i] \in Entry
    BY <1>4 DEF IInv, TypeOK
  <2> QED
    BY <1>1, <2>1, <2>2 DEF Entry
<1> HIDE DEF n, r
<1>6. /\ \A i \in 1..n : IsBoundary(journal'[i]) => journal'[i].date <= r.date
      /\ \A i \in (n + 1)..(n + m) : ~IsBoundary(journal'[i])
      /\ journal'[n + m + 1].date = r.date
      /\ journal'[n + m + 2].date = r.reopening_date
  BY <1>1, <1>3, <1>4 DEF JournalEntry, IsBoundary, BoundaryType, r
<1>7. BoundariesAscend'
  <2> SUFFICES ASSUME NEW i \in 1..(n + m + 2), NEW j \in 1..(n + m + 2), i < j,
                      IsBoundary(journal'[i]), IsBoundary(journal'[j])
               PROVE  journal'[i].date <= journal'[j].date
    BY <1>3 DEF BoundariesAscend
  <2>1. \/ i \in 1..n /\ j \in 1..n
        \/ i \in 1..n /\ j \in {n + m + 1, n + m + 2}
        \/ i = n + m + 1 /\ j = n + m + 2
    <3>1. \A k \in 1..(n + m + 2) : k \in 1..n \/ k \in (n + 1)..(n + m) \/ k \in {n + m + 1, n + m + 2}
      BY <1>4
    <3> QED
      BY <1>4, <1>6, <3>1
  <2>2. CASE i \in 1..n /\ j \in 1..n
    BY <1>3, <1>4, <2>2 DEF BoundariesAscend
  <2>3. CASE i \in 1..n /\ j \in {n + m + 1, n + m + 2}
    <3>1. journal'[i].date <= r.date /\ journal'[i].date \in Int
      BY <1>3, <1>5, <1>6, <2>3
    <3> QED
      BY <1>1, <1>5, <1>6, <2>3, <3>1 DEF r
  <2>4. CASE i = n + m + 1 /\ j = n + m + 2
    BY <1>1, <1>5, <1>6, <2>4 DEF r
  <2> QED
    BY <2>1, <2>2, <2>3, <2>4
<1> QED
  BY <1>2, <1>7

\* No step takes a boundary before an earlier one.
LEMMA CloserStep ==
  ASSUME SingleCloser, IInv, CloserInv, BoundariesAscend, [Next]_vars
  PROVE  CloserInv' /\ BoundariesAscend'
<1>1. CASE UNCHANGED journal
  BY <1>1, QuietAscend
<1>2. CASE journal' # journal
  <2>1. PICK w \in Workers : CommitEntry(w) \/ CommitClosing(w)
    BY <1>2 DEF Next, vars, ReceiveAny, Serve, Wait, Crash, ReceiveOpening, ReceivePosting,
       ReceiveReversal, ReceiveClosing, ReceiveUpdate, Receive, Check, Reject,
       LoadBalances, RejectPlan, Conflict, AcquireLock, SaveCompany
  <2> QED
    BY <2>1, CommitEntryAscend, CommitClosingAscend
<1> QED
  BY <1>1, <1>2

\* If only one worker ever closes the books of a company, its boundary entries are
\* committed in date order: the stale cache of list_logical_exercises and the
\* validation outside the lock do no harm.  (Of two closers that both passed
\* _validate_request, the one that commits last may close the earlier date.)
THEOREM SingleCloserAscends ==
  ASSUME SingleCloser
  PROVE  Spec => []BoundariesAscend
<1>1. IInv /\ CloserInv /\ BoundariesAscend /\ [Next]_vars => CloserInv' /\ BoundariesAscend'
  BY CloserStep
<1> QED
  BY <1>1, InitAscend, Invariance, PTL DEF Spec

-----------------------------------------------------------------------------
(* With one closer at a time, the exercises inferred from the journal are  *)
(* a chain.  First, what the sort and the loop of                          *)
(* _build_logical_exercises do with a row that is later than all others.   *)

\* What the order needs of rows: dates and numbers that compare, and no number twice.
Rowset(S) ==
  /\ IsFiniteSet(S)
  /\ \A e \in S : e.date \in Int /\ e.number \in Int
  /\ \A e, f \in S : e.number = f.number => e = f

\* How many rows of S come before e.
Before(S, e) == Cardinality({f \in S : DateThenNumber(f, e)})

\* The rows of S stand behind 0, 1, 2, ... others, each behind another number of them.
LEMMA BeforeRanks ==
  ASSUME NEW S, Rowset(S)
  PROVE  /\ Cardinality(S) \in Nat
         /\ \A e \in S : Before(S, e) \in 0..Cardinality(S) - 1
         /\ \A e, f \in S : Before(S, e) = Before(S, f) => e = f
         /\ \A i \in 0..Cardinality(S) - 1 : \E e \in S : Before(S, e) = i
<1> DEFINE n == Cardinality(S)
           less(e) == {f \in S : DateThenNumber(f, e)}
<1>1. n \in Nat /\ IsFiniteSet(S)
  BY FS_CardinalityType DEF Rowset
<1>2. ASSUME NEW e \in S
      PROVE  IsFiniteSet(less(e)) /\ Before(S, e) \in 0..n - 1
  <2>1. less(e) \in SUBSET (S \ {e})
    BY DEF Rowset, DateThenNumber
  <2>2. IsFiniteSet(S \ {e}) /\ Cardinality(S \ {e}) = n - 1
    BY <1>1, FS_RemoveElement
  <2>3. IsFiniteSet(less(e)) /\ Cardinality(less(e)) <= n - 1
    <3> HIDE DEF less, n
    <3> QED BY <2>1, <2>2, FS_Subset
  <2>4. Cardinality(less(e)) \in Nat
    BY <2>3, FS_CardinalityType
  <2> QED BY <1>1, <2>3, <2>4 DEF Before
<1>3. ASSUME NEW e \in S, NEW f \in S, DateThenNumber(e, f)
      PROVE  Before(S, e) < Before(S, f)
  <2>1. less(e) \cup {e} \in SUBSET less(f)
    BY <1>3 DEF Rowset, DateThenNumber
  <2>2. e \notin less(e)
    BY DEF Rowset, DateThenNumber
  <2>3. IsFiniteSet(less(e)) /\ IsFiniteSet(less(f))
    BY <1>2
  <2> HIDE DEF less
  <2>4. Cardinality(less(e) \cup {e}) = Cardinality(less(e)) + 1
    BY <2>2, <2>3, FS_AddElement
  <2>5. Cardinality(less(e) \cup {e}) <= Cardinality(less(f))
    BY <2>1, <2>3, FS_Subset
  <2>6. Cardinality(less(e)) \in Nat /\ Cardinality(less(f)) \in Nat
    BY <2>3, FS_CardinalityType
  <2> QED BY <2>4, <2>5, <2>6 DEF Before, less
<1>4. ASSUME NEW e \in S, NEW f \in S, Before(S, e) = Before(S, f)
      PROVE  e = f
  <2>1. e = f \/ DateThenNumber(e, f) \/ DateThenNumber(f, e)
    BY DEF Rowset, DateThenNumber
  <2>2. Before(S, e) \in 0..n - 1 /\ Before(S, f) \in 0..n - 1
    <3> HIDE DEF n, less
    <3> QED BY <1>2
  <2>3. \A a \in 0..n - 1 : ~(a < a)
    OBVIOUS
  <2> QED BY <1>3, <1>4, <2>1, <2>2, <2>3
<1> DEFINE T == 0..n - 1
           rank == [e \in S |-> Before(S, e)]
<1>5. rank \in Injection(S, T)
  BY <1>2, <1>4 DEF Injection, IsInjective
<1>6. IsFiniteSet(T) /\ Cardinality(T) = n
  BY <1>1, FS_Interval
<1>7. rank \in Surjection(S, T)
  <2> HIDE DEF T, rank
  <2> QED BY <1>5, <1>6, FS_Injection
<1>8. \A i \in T : \E e \in S : Before(S, e) = i
  BY <1>7 DEF Surjection
<1> QED BY <1>1, <1>2, <1>4, <1>8

\* Ordered lists every row once, in the order of the rows before it.
LEMMA OrderedLists ==
  ASSUME NEW S, Rowset(S)
  PROVE  /\ Cardinality(S) \in Nat
         /\ Ordered(S) \in [1..Cardinality(S) -> S]
         /\ Ordered(S) \in Seq(S) /\ Len(Ordered(S)) = Cardinality(S)
         /\ \A i \in 1..Cardinality(S) : Before(S, Ordered(S)[i]) = i - 1
         /\ \A i, j \in 1..Cardinality(S) : Ordered(S)[i] = Ordered(S)[j] => i = j
         /\ \A e \in S : \E i \in 1..Cardinality(S) : Ordered(S)[i] = e
<1> DEFINE n == Cardinality(S)
           before == [e \in S |-> Cardinality({f \in S : DateThenNumber(f, e)})]
<1>0. /\ n \in Nat
      /\ \A e \in S : Before(S, e) \in 0..n - 1
      /\ \A e, f \in S : Before(S, e) = Before(S, f) => e = f
      /\ \A i \in 0..n - 1 : \E e \in S : Before(S, e) = i
  BY BeforeRanks
<1>1. \A e \in S : before[e] = Before(S, e)
  BY DEF Before
<1>2. Ordered(S) = [i \in 1..n |-> CHOOSE e \in S : before[e] = i - 1]
  BY DEF Ordered
<1> HIDE DEF before, n
<1>3. ASSUME NEW i \in 1..n
      PROVE  Ordered(S)[i] \in S /\ Before(S, Ordered(S)[i]) = i - 1
  <2>1. \E e \in S : before[e] = i - 1
    BY <1>0, <1>1
  <2> QED BY <1>1, <1>2, <2>1
<1>4. Ordered(S) \in [1..n -> S]
  BY <1>2, <1>3
<1>5. Ordered(S) \in Seq(S) /\ Len(Ordered(S)) = n
  BY <1>0, <1>4
<1>6. ASSUME NEW e \in S PROVE \E i \in 1..n : Ordered(S)[i] = e
  <2>1. Before(S, e) + 1 \in 1..n /\ (Before(S, e) + 1) - 1 = Before(S, e)
    BY <1>0
  <2>2. Before(S, Ordered(S)[Before(S, e) + 1]) = Before(S, e)
    BY <1>3, <2>1
  <2> QED BY <1>0, <1>3, <2>1, <2>2
<1>7. \A i, j \in 1..n : Ordered(S)[i] = Ordered(S)[j] => i = j
  <2> TAKE i, j \in 1..n
  <2> HAVE Ordered(S)[i] = Ordered(S)[j]
  <2>1. i - 1 = j - 1
    BY <1>3
  <2> QED BY <1>0, <2>1
<1> QED BY <1>0, <1>3, <1>4, <1>5, <1>6, <1>7 DEF n

\* Sequences of one length with the same members are equal.
LEMMA SequencesEqual ==
  ASSUME NEW T, NEW s \in Seq(T), NEW t \in Seq(T), Len(s) = Len(t),
         \A i \in 1..Len(s) : s[i] = t[i]
  PROVE  s = t
<1>1. s \in [1..Len(s) -> T] /\ t \in [1..Len(s) -> T]
  OBVIOUS
<1> QED BY <1>1

\* A row after all others is listed after them.
LEMMA OrderedAppend ==
  ASSUME NEW S, NEW x, Rowset(S \cup {x}), x \notin S, \A e \in S : DateThenNumber(e, x)
  PROVE  Ordered(S \cup {x}) = Append(Ordered(S), x)
<1> DEFINE T == S \cup {x}
           n == Cardinality(S)
           p == Ordered(S)
           q == Ordered(T)
<1>1. Rowset(S) /\ IsFiniteSet(S)
  BY FS_Subset DEF Rowset
<1>2. n \in Nat /\ Cardinality(T) = n + 1
  BY <1>1, FS_CardinalityType, FS_AddElement
<1>3. ASSUME NEW e \in S PROVE Before(T, e) = Before(S, e)
  <2>1. ~DateThenNumber(x, e)
    BY DEF Rowset, DateThenNumber
  <2>2. {f \in T : DateThenNumber(f, e)} = {f \in S : DateThenNumber(f, e)}
    BY <2>1
  <2> QED BY <2>2 DEF Before
<1>4. Before(T, x) = n
  <2>1. ~DateThenNumber(x, x)
    BY DEF Rowset, DateThenNumber
  <2>2. {f \in T : DateThenNumber(f, x)} = S
    BY <2>1
  <2> QED BY <2>2 DEF Before
<1>5. /\ p \in [1..n -> S] /\ p \in Seq(S) /\ Len(p) = n
      /\ \A i \in 1..n : Before(S, p[i]) = i - 1
  BY <1>1, OrderedLists
<1>6. q \in [1..n + 1 -> T] /\ \A i \in 1..n + 1 : Before(T, q[i]) = i - 1
  <2> HIDE DEF n
  <2> QED BY <1>2, OrderedLists
<1>7. \A e, f \in T : Before(T, e) = Before(T, f) => e = f
  <2> HIDE DEF T
  <2> QED BY BeforeRanks DEF T
<1>8. ASSUME NEW i \in 1..n + 1 PROVE q[i] = IF i <= n THEN p[i] ELSE x
  <2>0. q[i] \in T /\ Before(T, q[i]) = i - 1
    BY <1>6
  <2>1. CASE i <= n
    <3>1. i \in 1..n
      BY <1>2, <2>1
    <3>2. p[i] \in S
      BY <1>5, <3>1
    <3>3. Before(T, p[i]) = i - 1
      BY <1>3, <1>5, <3>1, <3>2
    <3> QED BY <1>7, <2>0, <2>1, <3>2, <3>3
  <2>2. CASE ~(i <= n)
    <3>1. i - 1 = n
      BY <1>2, <2>2
    <3> QED BY <1>4, <1>7, <2>0, <2>2, <3>1
  <2> QED BY <2>1, <2>2
<1>9. /\ Append(p, x) \in Seq(T) /\ Len(Append(p, x)) = n + 1
      /\ \A i \in 1..n + 1 : Append(p, x)[i] = IF i <= n THEN p[i] ELSE x
  <2>1. p \in Seq(T) /\ x \in T
    BY <1>5
  <2> HIDE DEF p, n, T
  <2> QED BY <1>2, <1>5, <2>1
<1>10. q \in Seq(T) /\ Len(q) = n + 1
  <2> HIDE DEF n
  <2> QED BY <1>2, OrderedLists
<1>11. \A i \in 1..n + 1 : q[i] = Append(p, x)[i]
  BY <1>8, <1>9
<1> HIDE DEF p, q, n, T
<1>12. q = Append(p, x)
  BY <1>9, <1>10, <1>11, SequencesEqual
<1> QED BY <1>12 DEF p, q, T

\* Without rows there is nothing to list.
LEMMA OrderedEmpty == Ordered({}) = << >>
<1>1. Cardinality({}) = 0
  BY FS_EmptySet
<1> QED BY <1>1 DEF Ordered

(***************************************************************************)
(* The loop over the boundary entries.                                     *)
(***************************************************************************)

\* Induction up to m, for the set P of the numbers that have the property.
LEMMA UpTo ==
  ASSUME NEW m \in Nat, NEW P, 0 \in P, \A n \in 0..m - 1 : n \in P => n + 1 \in P
  PROVE  \A n \in 0..m : n \in P
<1> DEFINE Bad == {n \in 0..m : n \notin P}
<1> SUFFICES ASSUME Bad # {} PROVE FALSE
  OBVIOUS
<1>1. PICK k \in Bad : \A n \in Bad : ~(<<n, k>> \in OpToRel(<, Nat))
  <2>1. Bad \subseteq Nat
    OBVIOUS
  <2> HIDE DEF Bad
  <2> QED BY <2>1, WFMin, NatLessThanWellFounded
<1>2. k - 1 \in Nat /\ k - 1 \in 0..m - 1 /\ k \in Nat /\ (k - 1) + 1 = k
  OBVIOUS
<1>3. k - 1 \notin P
  BY <1>2
<1>4. k - 1 \in Bad
  BY <1>2, <1>3
<1>5. <<k - 1, k>> \in OpToRel(<, Nat)
  BY <1>2 DEF OpToRel
<1> QED BY <1>1, <1>4, <1>5

\* What h has to be to hold the steps of the loop over the first n members of s.
LoopSteps(h, s, n) ==
  [i \in 0..n |-> IF i = 0 THEN ScanStart ELSE ScanEntry(h[i - 1], s[i])]

\* The loop has its steps, and what it returns is the last one.
LEMMA LoopRuns ==
  ASSUME NEW T, NEW s \in Seq(T)
  PROVE  \E h : h = LoopSteps(h, s, Len(s)) /\ ScanEntries(s) = h[Len(s)]
<1> DEFINE P == {n \in Nat : \E h : h = LoopSteps(h, s, n)}
<1>1. 0 \in P
  <2> DEFINE h == [i \in 0..0 |-> ScanStart]
  <2>1. h = LoopSteps(h, s, 0)
    BY DEF LoopSteps
  <2> QED BY <2>1
<1>2. ASSUME NEW n \in Nat, n \in P PROVE n + 1 \in P
  <2>1. PICK g : g = LoopSteps(g, s, n)
    BY <1>2
  <2> DEFINE h == [i \in 0..n + 1 |-> IF i = n + 1 THEN ScanEntry(g[n], s[n + 1]) ELSE g[i]]
  <2>2. ASSUME NEW i \in 0..n + 1
        PROVE  h[i] = IF i = 0 THEN ScanStart ELSE ScanEntry(h[i - 1], s[i])
    <3>1. CASE i = n + 1
      <4>1. h[i - 1] = g[n]
        BY <3>1
      <4> QED BY <3>1, <4>1
    <3>2. CASE i # n + 1
      <4>1. i \in 0..n /\ h[i] = g[i]
        BY <3>2
      <4>2. g[i] = IF i = 0 THEN ScanStart ELSE ScanEntry(g[i - 1], s[i])
        BY <2>1, <4>1 DEF LoopSteps
      <4>3. i # 0 => h[i - 1] = g[i - 1]
        BY <4>1
      <4> HIDE DEF h
      <4> QED BY <4>1, <4>2, <4>3
    <3> QED BY <3>1, <3>2
  <2>3. h = LoopSteps(h, s, n + 1)
    BY <2>2 DEF LoopSteps
  <2> QED BY <2>3
<1>3. Len(s) \in P
  <2>1. Len(s) \in Nat /\ \A n \in 0..Len(s) - 1 : n \in P => n + 1 \in P
    BY <1>2
  <2> HIDE DEF P
  <2>2. \A n \in 0..Len(s) : n \in P
    BY <1>1, <2>1, UpTo
  <2> QED BY <2>1, <2>2
<1>4. \E h : h = LoopSteps(h, s, Len(s))
  BY <1>3
<1> QED BY <1>4 DEF ScanEntries, LoopSteps

\* Without boundary entries the loop ends as it starts.
LEMMA ScanEmpty == ScanEntries(<< >>) = ScanStart
<1>1. << >> \in Seq({}) /\ Len(<< >>) = 0
  OBVIOUS
<1>2. PICK h : h = LoopSteps(h, << >>, 0) /\ ScanEntries(<< >>) = h[0]
  BY <1>1, LoopRuns
<1> QED BY <1>2 DEF LoopSteps

\* One entry more is one step more.
LEMMA ScanAppend ==
  ASSUME NEW T, NEW s \in Seq(T), NEW x \in T
  PROVE  ScanEntries(Append(s, x)) = ScanEntry(ScanEntries(s), x)
<1> DEFINE n == Len(s)
           t == Append(s, x)
<1>1. /\ n \in Nat /\ t \in Seq(T) /\ Len(t) = n + 1 /\ t[n + 1] = x
      /\ \A i \in 1..n : t[i] = s[i]
  OBVIOUS
<1> HIDE DEF n, t
<1>2. PICK g : g = LoopSteps(g, s, n) /\ ScanEntries(s) = g[n]
  BY LoopRuns DEF n
<1>3. PICK h : h = LoopSteps(h, t, n + 1) /\ ScanEntries(t) = h[n + 1]
  BY <1>1, LoopRuns
<1>4. /\ \A i \in 0..n : g[i] = IF i = 0 THEN ScanStart ELSE ScanEntry(g[i - 1], s[i])
      /\ \A i \in 0..n + 1 : h[i] = IF i = 0 THEN ScanStart ELSE ScanEntry(h[i - 1], t[i])
  BY <1>2, <1>3 DEF LoopSteps
<1> DEFINE P == {i \in 0..n : g[i] = h[i]}
<1>5. 0 \in P
  BY <1>1, <1>4
<1>6. ASSUME NEW i \in 0..n - 1, i \in P PROVE i + 1 \in P
  <2>1. /\ i + 1 \in 0..n /\ i + 1 \in 0..n + 1 /\ i + 1 # 0 /\ (i + 1) - 1 = i
        /\ t[i + 1] = s[i + 1]
    BY <1>1
  <2>2. g[i + 1] = ScanEntry(g[i], s[i + 1]) /\ h[i + 1] = ScanEntry(h[i], t[i + 1])
    BY <1>4, <2>1
  <2> QED BY <1>6, <2>1, <2>2
<1>7. n \in P
  <2>1. \A i \in 0..n - 1 : i \in P => i + 1 \in P
    BY <1>6
  <2> HIDE DEF P
  <2>2. \A i \in 0..n : i \in P
    BY <1>1, <1>5, <2>1, UpTo
  <2> QED BY <1>1, <2>2
<1>8. h[n + 1] = ScanEntry(h[n], x)
  <2>1. n + 1 \in 0..n + 1 /\ n + 1 # 0 /\ (n + 1) - 1 = n
    BY <1>1
  <2> QED BY <1>1, <1>4, <2>1
<1> QED BY <1>2, <1>3, <1>7, <1>8 DEF t

\* A boundary entry after all others is one step more of the loop.
LEMMA ScanGrows ==
  ASSUME NEW S, NEW x, Rowset(S \cup {x}), x \notin S, \A e \in S : DateThenNumber(e, x)
  PROVE  ScanEntries(Ordered(S \cup {x})) = ScanEntry(ScanEntries(Ordered(S)), x)
<1>1. Rowset(S)
  BY FS_Subset DEF Rowset
<1>2. Ordered(S) \in Seq(S \cup {x})
  <2>1. Ordered(S) \in Seq(S)
    BY <1>1, OrderedLists
  <2> QED BY <2>1
<1>3. ScanEntries(Append(Ordered(S), x)) = ScanEntry(ScanEntries(Ordered(S)), x)
  BY <1>2, ScanAppend
<1> QED BY <1>3, OrderedAppend

\* The loop keeps four variables.
LEMMA ScanFields ==
  ASSUME NEW T, NEW s \in Seq(T)
  PROVE  DOMAIN ScanEntries(s) = {"exercises", "current", "seen_opening", "invalid"}
<1> DEFINE F == {"exercises", "current", "seen_opening", "invalid"}
<1>1. PICK h : h = LoopSteps(h, s, Len(s)) /\ ScanEntries(s) = h[Len(s)]
  BY LoopRuns
<1>2. \A i \in 0..Len(s) : h[i] = IF i = 0 THEN ScanStart ELSE ScanEntry(h[i - 1], s[i])
  BY <1>1 DEF LoopSteps
<1>3. DOMAIN ScanStart = F
  BY DEF ScanStart
<1>4. ASSUME NEW scan, DOMAIN scan = F, NEW x PROVE DOMAIN ScanEntry(scan, x) = F
  BY <1>4 DEF ScanEntry, ScanOpening, ScanReopening, ScanClosing
<1> DEFINE P == {i \in 0..Len(s) : DOMAIN h[i] = F}
<1> HIDE DEF F
<1>5. 0 \in P
  BY <1>2, <1>3
<1>6. ASSUME NEW i \in 0..Len(s) - 1, i \in P PROVE i + 1 \in P
  <2>1. i + 1 \in 0..Len(s) /\ i + 1 # 0 /\ (i + 1) - 1 = i
    OBVIOUS
  <2>2. h[i + 1] = ScanEntry(h[i], s[i + 1])
    BY <1>2, <2>1
  <2> QED BY <1>4, <1>6, <2>1, <2>2
<1>7. Len(s) \in Nat /\ \A i \in 0..Len(s) - 1 : i \in P => i + 1 \in P
  BY <1>6
<1>8. \A i \in 0..Len(s) : i \in P
  <2> HIDE DEF P
  <2> QED BY <1>5, <1>7, UpTo
<1> QED BY <1>1, <1>7, <1>8 DEF F

\* A journal numbered without gaps is a set of rows, and so is each of its parts.
LEMMA JournalRows ==
  ASSUME NEW J \in Seq(Entry), \A i \in DOMAIN J : J[i].number = i
  PROVE  /\ Rowset(Range(J)) /\ Range(J) \subseteq Entry
         /\ \A S \in SUBSET Range(J) : Rowset(S)
<1>1. DOMAIN J = 1..Len(J) /\ Len(J) \in Nat
  OBVIOUS
<1>2. \A i \in 1..Len(J) : J[i] \in Entry
  OBVIOUS
<1>3. Range(J) = {J[i] : i \in 1..Len(J)} /\ Range(J) \subseteq Entry
  BY <1>1, <1>2 DEF Range
<1>4. IsFiniteSet(Range(J))
  <2> DEFINE D == 1..Len(J)
             R == Range(J)
             f == [i \in D |-> J[i]]
  <2>1. f \in Surjection(D, R)
    BY <1>3 DEF Surjection
  <2>2. IsFiniteSet(D)
    BY <1>1, FS_Interval
  <2>3. IsFiniteSet(R)
    <3> HIDE DEF D, R, f
    <3> QED BY <2>1, <2>2, FS_Surjection
  <2> QED BY <2>3
<1>5. \A e \in Entry : e.date \in Int /\ e.number \in Int
  BY DEF Entry, Dates
<1>6. \A e, f \in Range(J) : e.number = f.number => e = f
  BY <1>1, <1>3
<1>7. Rowset(Range(J))
  BY <1>3, <1>4, <1>5, <1>6 DEF Rowset
<1>8. ASSUME NEW S \in SUBSET Range(J) PROVE Rowset(S)
  BY <1>7, FS_Subset DEF Rowset
<1> QED BY <1>3, <1>7, <1>8

\* An entry with the next number is a new one, and goes to the end.
LEMMA RowAdded ==
  ASSUME NEW J \in Seq(Entry), \A i \in DOMAIN J : J[i].number = i,
         NEW x \in Entry, x.number = Len(J) + 1
  PROVE  LET K == Append(J, x)
         IN  /\ K \in Seq(Entry) /\ Len(K) = Len(J) + 1 /\ K # << >>
             /\ DOMAIN J = 1..Len(J) /\ DOMAIN K = 1..Len(J) + 1
             /\ K[Len(J) + 1] = x /\ \A i \in 1..Len(J) : K[i] = J[i]
             /\ \A i \in DOMAIN K : K[i].number = i
             /\ Range(K) = Range(J) \cup {x} /\ x \notin Range(J)
<1> DEFINE K == Append(J, x)
           n == Len(J)
<1>1. /\ n \in Nat /\ K \in Seq(Entry) /\ Len(K) = n + 1 /\ K[n + 1] = x /\ K # << >>
      /\ DOMAIN J = 1..n /\ DOMAIN K = 1..n + 1 /\ \A i \in 1..n : K[i] = J[i]
  OBVIOUS
<1>2. \A i \in DOMAIN K : K[i].number = i
  BY <1>1
<1>3. \A i \in 1..n + 1 : i \in 1..n \/ i = n + 1
  BY <1>1
<1> HIDE DEF K
<1>4. Range(K) = Range(J) \cup {x}
  BY <1>1, <1>3 DEF Range
<1>5. x \notin Range(J)
  BY <1>1 DEF Range
<1> QED BY <1>1, <1>2, <1>4, <1>5 DEF K

-----------------------------------------------------------------------------
(* The chain, while requests interleave.                                   *)

\* The entries the loop over a journal J reads.
Boundaries(J) == {e \in Range(J) : IsBoundary(e)}

\* What _build_logical_exercises has read when it is through with the journal.
Scan == ScanEntries(BoundaryEntries(journal))

ClosedExercise ==
  [exercise_index : Nat, opening_entry : Nat \ {0}, start_date : Dates,
   closing_entry : Nat \ {0}, closing_date : Dates, status : {"closed"}]

\* The loop has raised nothing, an exercise is open, and each of those it has closed ends
\* before the next one, or the open one, starts.
InLine(scan) ==
  /\ scan.seen_opening /\ ~scan.invalid /\ scan.current \in Entry
  /\ scan.exercises \in Seq(ClosedExercise)
  /\ \A k \in 1..Len(scan.exercises) :
       LET x == scan.exercises[k]
       IN  /\ x.start_date <= x.closing_date
           /\ x.closing_date < IF k < Len(scan.exercises) THEN scan.exercises[k + 1].start_date
                                                          ELSE scan.current.date

ChainInv == journal # << >> => InLine(Scan) /\ Scan.current \in Boundaries(journal)

\* The chain is canonical when the loop is through.
LEMMA ChainIsCanonical ==
  ASSUME IInv, ChainInv PROVE ExerciseChainCanonical
<1> DEFINE scan == Scan
           N == Len(scan.exercises)
           x == Exercise(scan.current, NoOpening, N + 1, "open")
           X == Append(scan.exercises, x)
<1>1. CASE journal = << >>
  <2>1. Range(journal) = {}
    BY <1>1 DEF Range
  <2>2. Scan = ScanStart
    <3>1. {e \in Range(journal) : IsBoundary(e)} = {}
      BY <2>1
    <3> QED BY <3>1, OrderedEmpty, ScanEmpty DEF Scan, BoundaryEntries
  <2>3. ~HasCurrent(Scan) /\ Scan.exercises = << >> /\ ~Scan.invalid
    BY <2>2 DEF ScanStart, HasCurrent
  <2>4. BuildLogicalExercises(journal) = [exercises |-> << >>, invalid |-> FALSE]
    BY <1>1, <2>3 DEF BuildLogicalExercises, Scan
  <2> QED BY <2>4 DEF ExerciseChainCanonical
<1>2. CASE journal # << >>
  <2>1. InLine(scan)
    BY <1>2 DEF ChainInv
  <2>2. HasCurrent(scan)
    BY <2>1 DEF InLine, HasCurrent, Entry, NoOpening, NoEntry
  <2>3. N \in Nat /\ scan.exercises \in Seq(ClosedExercise) /\ scan.current.date \in Dates
    BY <2>1 DEF InLine, Entry
  <2>4. /\ x.start_date = scan.current.date /\ x.status = "open"
    BY DEF Exercise
  <2> DEFINE R == BuildLogicalExercises(journal)
  <2>5. R = [exercises |-> X, invalid |-> scan.invalid \/ (journal # << >> /\ X = << >>)]
    BY <2>2 DEF BuildLogicalExercises, Scan
  <2> HIDE DEF R, x, scan
  <2>6. /\ Len(X) = N + 1 /\ DOMAIN X = 1..N + 1 /\ X[N + 1] = x /\ X # << >>
        /\ \A k \in 1..N : X[k] = scan.exercises[k]
    <3> DEFINE c == scan.exercises
    <3> HIDE DEF c
    <3> QED BY <2>3 DEF N, X, c
  <2> HIDE DEF X
  <2>7. ~R.invalid
    <3>1. ~scan.invalid
      BY <2>1 DEF InLine
    <3> QED BY <2>5, <2>6, <3>1
  <2>8. R.exercises = X
    BY <2>5
  <2> HIDE DEF N
  <2>9. ASSUME NEW i \in 1..N + 1, X[i].status = "closed"
        PROVE  /\ X[i].closing_date >= X[i].start_date /\ i + 1 \in 1..N + 1
               /\ X[i + 1].start_date > X[i].closing_date
    <3>1. i \in 1..N
      BY <2>3, <2>4, <2>6, <2>9
    <3>2. i + 1 \in 1..N + 1 /\ X[i] = scan.exercises[i]
      BY <2>3, <2>6, <3>1
    <3>3. X[i + 1] = IF i < N THEN scan.exercises[i + 1] ELSE x
      BY <2>3, <2>6, <3>1
    <3>4. /\ X[i].start_date <= X[i].closing_date
          /\ X[i].closing_date < X[i + 1].start_date
      BY <2>1, <2>4, <3>1, <3>2, <3>3 DEF InLine, N
    <3>5. X[i].start_date \in Int /\ X[i].closing_date \in Int /\ X[i + 1].start_date \in Int
      <4>1. \A k \in 1..N : scan.exercises[k] \in ClosedExercise
        BY <2>3 DEF N
      <4>2. Dates \subseteq Int
        BY DEF Dates
      <4>3. \A e \in ClosedExercise : e.start_date \in Int /\ e.closing_date \in Int
        BY <4>2 DEF ClosedExercise
      <4>4. i < N => i + 1 \in 1..N
        BY <2>3, <3>1
      <4> QED BY <2>3, <2>4, <3>1, <3>2, <3>3, <4>1, <4>2, <4>3, <4>4
    <3> QED BY <3>2, <3>4, <3>5
  <2> QED BY <2>6, <2>7, <2>8, <2>9 DEF ExerciseChainCanonical, R
<1> QED BY <1>1, <1>2

\* A closing that is not before the open exercise, and a reopening after it, continue the line.
LEMMA ScanClose ==
  ASSUME NEW scan, InLine(scan), DOMAIN scan = {"exercises", "current", "seen_opening", "invalid"},
         NEW c \in Entry, c.source_type = "PATRIMONIAL_CLOSING", scan.current.date <= c.date,
         NEW o \in Entry, o.source_type = "REOPENING", c.date < o.date
  PROVE  /\ InLine(ScanEntry(ScanEntry(scan, c), o))
         /\ ScanEntry(ScanEntry(scan, c), o).current = o
<1> DEFINE N == Len(scan.exercises)
           x == Exercise(scan.current, c, N + 1, "closed")
           X == Append(scan.exercises, x)
           one == [scan EXCEPT !.exercises = X, !.current = NoOpening]
           two == [one EXCEPT !.current = o]
<1>1. scan.seen_opening /\ ~scan.invalid /\ scan.current \in Entry
      /\ scan.exercises \in Seq(ClosedExercise)
  BY DEF InLine
<1>2. HasCurrent(scan)
  BY <1>1 DEF HasCurrent, Entry, NoOpening, NoEntry
<1>3. ScanEntry(scan, c) = one
  BY <1>1, <1>2 DEF ScanEntry, ScanClosing
<1>4. /\ one.exercises = X /\ one.current = NoOpening /\ one.seen_opening = scan.seen_opening
      /\ one.invalid = scan.invalid
      /\ DOMAIN one = {"exercises", "current", "seen_opening", "invalid"}
  OBVIOUS
<1>5. x \in ClosedExercise /\ x.start_date = scan.current.date /\ x.closing_date = c.date
  <2>1. N \in Nat
    BY <1>1
  <2> HIDE DEF N
  <2> QED BY <1>1, <2>1 DEF Exercise, ClosedExercise, Entry
<1> HIDE DEF x
<1>6. /\ X \in Seq(ClosedExercise) /\ Len(X) = N + 1 /\ N \in Nat /\ X[N + 1] = x
      /\ \A k \in 1..N : X[k] = scan.exercises[k]
  <2> DEFINE e == scan.exercises
  <2> HIDE DEF e
  <2> QED BY <1>1, <1>5 DEF e
<1> HIDE DEF X, one
<1>7. ScanEntry(one, o) = two
  BY <1>1, <1>4 DEF ScanEntry, ScanReopening, HasCurrent
<1>8. /\ two.exercises = X /\ two.current = o /\ two.seen_opening = scan.seen_opening
      /\ two.invalid = scan.invalid
  BY <1>4
<1>9. two.seen_opening /\ ~two.invalid
  <2> HIDE DEF two
  <2> QED BY <1>1, <1>8, Zenon
<1> HIDE DEF two
<1>10. ASSUME NEW k \in 1..N + 1
       PROVE  /\ X[k].start_date <= X[k].closing_date
              /\ X[k].closing_date < IF k < N + 1 THEN X[k + 1].start_date ELSE o.date
  <2>1. CASE k = N + 1
    BY <1>5, <1>6, <2>1
  <2>2. CASE k \in 1..N
    <3>1. /\ scan.exercises[k].start_date <= scan.exercises[k].closing_date
          /\ scan.exercises[k].closing_date < IF k < N THEN scan.exercises[k + 1].start_date
                                                       ELSE scan.current.date
      BY <2>2 DEF InLine
    <3>2. /\ X[k] = scan.exercises[k]
          /\ X[k + 1] = IF k < N THEN scan.exercises[k + 1] ELSE x
      <4> HIDE DEF N
      <4> QED BY <1>6, <2>2
    <3> HIDE DEF N
    <3> QED BY <1>5, <1>6, <2>2, <3>1, <3>2
  <2> HIDE DEF N
  <2> QED BY <1>6, <2>1, <2>2
<1> HIDE DEF N
<1>11. InLine(two)
  BY <1>6, <1>8, <1>9, <1>10 DEF InLine
<1> QED BY <1>3, <1>7, <1>8, <1>11

\* The opening entry of a company starts the line.
LEMMA ScanOpens ==
  ASSUME NEW x \in Entry, x.source_type = "OPENING"
  PROVE  InLine(ScanEntries(BoundaryEntries(<<x>>))) /\ ScanEntries(BoundaryEntries(<<x>>)).current = x
<1>1. Range(<<x>>) = {x}
  BY DEF Range
<1>2. {e \in Range(<<x>>) : IsBoundary(e)} = {} \cup {x}
  BY <1>1 DEF IsBoundary, BoundaryType
<1>3. Rowset({} \cup {x})
  <2>1. {} \cup {x} = {x} /\ IsFiniteSet({x})
    BY FS_Singleton
  <2>2. x.date \in Int /\ x.number \in Int
    BY DEF Entry, Dates
  <2> QED BY <2>1, <2>2 DEF Rowset
<1>4. ScanEntries(Ordered({} \cup {x})) = ScanEntry(ScanEntries(Ordered({})), x)
  BY <1>3, ScanGrows
<1>5. ScanEntries(BoundaryEntries(<<x>>)) = ScanEntry(ScanStart, x)
  BY <1>2, <1>4, OrderedEmpty, ScanEmpty DEF BoundaryEntries
<1>6. ScanEntry(ScanStart, x) = [exercises |-> << >>, current |-> x, seen_opening |-> TRUE,
                                 invalid |-> FALSE]
  BY DEF ScanEntry, ScanOpening, ScanStart, HasCurrent
<1>7. << >> \in Seq(ClosedExercise) /\ Len(<< >>) = 0
  OBVIOUS
<1> DEFINE scan == ScanEntries(BoundaryEntries(<<x>>))
<1>8. /\ scan.exercises = << >> /\ scan.current = x /\ scan.seen_opening = TRUE
      /\ scan.invalid = FALSE
  BY <1>5, <1>6
<1> HIDE DEF scan
<1>9. InLine(scan)
  <2>1. scan.seen_opening /\ ~scan.invalid
    BY <1>8, Zenon
  <2> QED BY <1>7, <1>8, <2>1 DEF InLine
<1> QED BY <1>8, <1>9 DEF scan

\* The company is created without entries, or with its opening.
LEMMA InitChain == Init => ChainInv
<1> SUFFICES ASSUME Init, journal # << >> PROVE InLine(Scan) /\ Scan.current \in Boundaries(journal)
  BY DEF ChainInv
<1>1. PICK d \in Dates : journal = << JournalEntry(1, "OPENING", d, NoEntry) >>
  BY DEF Init
<1> DEFINE x == JournalEntry(1, "OPENING", d, NoEntry)
<1>2. x \in Entry /\ x.source_type = "OPENING"
  BY DEF JournalEntry, Entry, SourceType, NoEntry
<1> HIDE DEF x
<1>3. journal = <<x>> /\ Range(<<x>>) = {x}
  BY <1>1 DEF x, Range
<1> QED BY <1>2, <1>3, ScanOpens DEF Scan, Boundaries, IsBoundary, BoundaryType

\* An opening is the first entry; postings and reversals are no boundaries.
LEMMA CommitEntryChain ==
  ASSUME IInv, ChainInv, NEW w \in Workers, CommitEntry(w)
  PROVE  ChainInv'
<1> DEFINE r == req[w]
           n == Len(journal)
           x == PostedEntry(r)
<1>1. journal \in Seq(Entry) /\ \A i \in DOMAIN journal : journal[i].number = i
  BY DEF IInv, TypeOK, NumbersGapless
<1>2. /\ r.kind \in {"opening", "posting", "reversal"} /\ r.date \in Dates /\ r.original \in Nat
      /\ r.number = n + 1
      /\ r.kind # "opening" => journal # << >>
      /\ r.kind = "opening" => ~HasOpeningEntry(journal)
      /\ journal' = Append(journal, x)
  <2>1. /\ r.kind \in {"opening", "posting", "reversal"} /\ r.date \in Dates /\ r.original \in Nat
        /\ r.kind # "opening" => journal # << >>
        /\ r.kind = "opening" => ~HasOpeningEntry(journal)
        /\ journal' = Append(journal, x)
    BY DEF CommitEntry, ConstraintsHold, UniqueOpening, IInv, TypeOK, RequestInv, InFlight, Request
  <2>2. r.number = n + 1
    BY DEF CommitEntry, IInv, NumberStaysFree
  <2> QED BY <2>1, <2>2
<1>3. n \in Nat /\ n + 1 \in Nat \ {0} /\ (n = 0 <=> journal = << >>)
  BY <1>1
<1> HIDE DEF r, n
<1>4. /\ x \in Entry /\ x.number = n + 1
      /\ x.source_type = IF r.kind = "opening" THEN "OPENING"
                         ELSE IF r.kind = "posting" THEN "MANUAL" ELSE "OTHER"
  BY <1>2, <1>3 DEF PostedEntry, JournalEntry, Entry, SourceTypeOf, SourceType
<1> HIDE DEF x
<1>5. CASE r.kind = "opening"
  <2>1. journal = << >>
    BY <1>2, <1>3, <1>5 DEF IInv, OpeningIsFirst, HasOpeningEntry
  <2>2. journal' = <<x>> /\ Range(<<x>>) = {x}
    BY <1>2, <2>1 DEF Range
  <2>3. x.source_type = "OPENING"
    BY <1>4, <1>5
  <2> QED BY <1>4, <2>2, <2>3, ScanOpens DEF ChainInv, Scan, Boundaries, IsBoundary, BoundaryType
<1>6. CASE r.kind # "opening"
  <2>1. Range(journal') = Range(journal) \cup {x}
    BY <1>1, <1>2, <1>4, RowAdded DEF n
  <2>2. ~IsBoundary(x)
    BY <1>4, <1>6 DEF IsBoundary, BoundaryType
  <2>3. Boundaries(journal') = Boundaries(journal)
    BY <2>1, <2>2 DEF Boundaries
  <2>4. Scan' = Scan
    BY <2>3 DEF Scan, BoundaryEntries, Boundaries
  <2>5. InLine(Scan) /\ Scan.current \in Boundaries(journal)
    BY <1>2, <1>6 DEF ChainInv
  <2> QED BY <2>3, <2>4, <2>5 DEF ChainInv
<1> QED BY <1>5, <1>6

\* A closing ends the exercise that is open and opens the next one behind it: CloserInv keeps
\* its boundaries behind all others, the current opening among them.
LEMMA CommitClosingChain ==
  ASSUME IInv, CloserInv, ChainInv, NEW w \in Workers, CommitClosing(w)
  PROVE  ChainInv'
<1> DEFINE r == req[w]
           n == Len(journal)
           K == journal'
           B == Boundaries(journal)
<1>1. /\ r.kind = "closing" /\ journal # << >>
      /\ r.date \in Dates /\ r.reopening_date \in Dates /\ r.reopening_date > r.date
      /\ \A i \in DOMAIN journal : IsBoundary(journal[i]) => journal[i].date <= r.date
  BY DEF CommitClosing, IInv, RequestInv, InFlight, CloserInv
<1>2. PICK m \in Nat :
        /\ K \in Seq(Entry) /\ Len(K) = n + m + 2 /\ DOMAIN K = 1..n + m + 2
        /\ \A i \in 1..n : K[i] = journal[i]
        /\ \A i \in n + 1..n + m : K[i] \in {JournalEntry(i, "ADJUSTMENT", r.date, NoEntry),
                                             JournalEntry(i, "RESULT_CLOSING", r.date, NoEntry)}
        /\ K[n + m + 1] = JournalEntry(n + m + 1, "PATRIMONIAL_CLOSING", r.date, NoEntry)
        /\ K[n + m + 2] = JournalEntry(n + m + 2, "REOPENING", r.reopening_date, NoEntry)
  BY CommitClosingRows
<1> DEFINE c == K[n + m + 1]
           o == K[n + m + 2]
<1>3. /\ journal \in Seq(Entry) /\ n \in Nat /\ DOMAIN journal = 1..n
      /\ \A i \in DOMAIN journal : journal[i].number = i
  BY DEF IInv, TypeOK, NumbersGapless
<1>4. \A i \in DOMAIN K : K[i].number = i
  <2>1. \A i \in 1..n + m + 2 : i \in 1..n \/ i \in n + 1..n + m \/ i = n + m + 1 \/ i = n + m + 2
    BY <1>3
  <2> QED BY <1>2, <1>3, <2>1 DEF JournalEntry
<1>5. /\ c \in Entry /\ c.number = n + m + 1 /\ c.source_type = "PATRIMONIAL_CLOSING"
      /\ c.date = r.date
      /\ o \in Entry /\ o.number = n + m + 2 /\ o.source_type = "REOPENING"
      /\ o.date = r.reopening_date
  <2>1. n + m + 1 \in 1..n + m + 2 /\ n + m + 2 \in 1..n + m + 2
    BY <1>3
  <2> QED BY <1>2, <2>1 DEF JournalEntry
<1> HIDE DEF r, n, K
<1>6. Rowset(Range(K)) /\ (\A S \in SUBSET Range(K) : Rowset(S)) /\ Rowset(Range(journal))
      /\ (\A S \in SUBSET Range(journal) : Rowset(S))
  BY <1>2, <1>3, <1>4, JournalRows
<1>7. Range(K) = {K[i] : i \in 1..n + m + 2} /\ Range(journal) = {journal[i] : i \in 1..n}
  BY <1>2, <1>3 DEF Range
<1>8. Boundaries(K) = (B \cup {c}) \cup {o}
  <2>1. \A i \in 1..n : i \in 1..n + m + 2 /\ journal[i] \in Range(K)
    <3>1. \A i \in 1..n : i \in 1..n + m + 2
      BY <1>3
    <3> QED BY <1>2, <1>7, <3>1
  <2>2. c \in Range(K) /\ o \in Range(K) /\ IsBoundary(c) /\ IsBoundary(o)
    <3>1. n + m + 1 \in 1..n + m + 2 /\ n + m + 2 \in 1..n + m + 2
      BY <1>3
    <3> QED BY <1>5, <1>7, <3>1 DEF IsBoundary, BoundaryType
  <2>3. \A i \in n + 1..n + m : ~IsBoundary(K[i])
    BY <1>2 DEF JournalEntry, IsBoundary, BoundaryType
  <2>4. B = {e \in Range(journal) : IsBoundary(e)} /\ Boundaries(K) = {e \in Range(K) : IsBoundary(e)}
    BY DEF Boundaries
  <2>5. \A i \in 1..n + m + 2 : K[i] \in Range(journal) \/ ~IsBoundary(K[i]) \/ K[i] = c \/ K[i] = o
    <3>1. \A i \in 1..n + m + 2 : i \in 1..n \/ i \in n + 1..n + m \/ i = n + m + 1 \/ i = n + m + 2
      BY <1>3
    <3> QED BY <1>2, <1>7, <2>3, <3>1
  <2> HIDE DEF c, o, B
  <2> QED BY <1>7, <2>1, <2>2, <2>4, <2>5
<1>9. \A e \in B : e.date <= r.date /\ e.number \in 1..n /\ e.date \in Int
  <2> SUFFICES ASSUME NEW e \in B PROVE e.date <= r.date /\ e.number \in 1..n /\ e.date \in Int
    OBVIOUS
  <2>1. PICK i \in 1..n : e = journal[i]
    BY <1>7 DEF Boundaries
  <2>2. IsBoundary(journal[i]) /\ journal[i] \in Entry
    BY <1>3, <2>1 DEF Boundaries
  <2> QED BY <1>1, <1>3, <2>1, <2>2, SMTT(30) DEF Entry, Dates
<1>10. r.date \in Int /\ r.reopening_date \in Int
  BY <1>1 DEF Dates
<1>11. /\ \A e \in B : DateThenNumber(e, c) /\ e # c
       /\ \A e \in B \cup {c} : DateThenNumber(e, o) /\ e # o
  <2>1. \A e \in B : e.number < n + m + 1 /\ e.number # n + m + 1
    BY <1>3, <1>9
  <2>2. \A e \in B : DateThenNumber(e, c) /\ e # c
    BY <1>3, <1>5, <1>9, <1>10, <2>1 DEF DateThenNumber
  <2>3. \A e \in B : DateThenNumber(e, o) /\ e # o
    BY <1>1, <1>5, <1>9, <1>10 DEF DateThenNumber
  <2>4. DateThenNumber(c, o) /\ c # o
    BY <1>1, <1>5, <1>10 DEF DateThenNumber
  <2> QED BY <2>2, <2>3, <2>4
<1>12. InLine(Scan) /\ Scan.current \in B
  BY <1>1 DEF ChainInv
<1>13. Scan.current.date <= c.date /\ c.date < o.date
  BY <1>1, <1>5, <1>9, <1>10, <1>12
<1> HIDE DEF B, c, o
<1>14. ScanEntries(Ordered((B \cup {c}) \cup {o})) = ScanEntry(ScanEntry(ScanEntries(Ordered(B)), c), o)
  <2>1. Rowset((B \cup {c}) \cup {o}) /\ Rowset(B \cup {c})
    <3>1. (B \cup {c}) \cup {o} \subseteq Range(K)
      BY <1>8 DEF Boundaries
    <3> QED BY <1>6, <3>1
  <2>2. ScanEntries(Ordered(B \cup {c})) = ScanEntry(ScanEntries(Ordered(B)), c)
    BY <1>11, <2>1, ScanGrows
  <2> DEFINE C == B \cup {c}
  <2>3. o \notin C /\ (\A e \in C : DateThenNumber(e, o)) /\ Rowset(C \cup {o})
    BY <1>11, <2>1
  <2> HIDE DEF C
  <2>4. ScanEntries(Ordered(C \cup {o})) = ScanEntry(ScanEntries(Ordered(C)), o)
    BY <2>3, ScanGrows
  <2> QED BY <2>2, <2>4 DEF C
<1>15. Scan = ScanEntries(Ordered(B)) /\ Scan' = ScanEntries(Ordered((B \cup {c}) \cup {o}))
  BY <1>8 DEF Scan, BoundaryEntries, Boundaries, B, K
<1>16. DOMAIN Scan = {"exercises", "current", "seen_opening", "invalid"}
  <2>1. Rowset(B)
    <3>1. B \subseteq Range(journal)
      BY DEF B, Boundaries
    <3> QED BY <1>6, <3>1
  <2>2. Ordered(B) \in Seq(B)
    BY <2>1, OrderedLists
  <2> QED BY <1>15, <2>2, ScanFields
<1>17. Scan' = ScanEntry(ScanEntry(Scan, c), o)
  BY <1>14, <1>15
<1>18. InLine(Scan') /\ Scan'.current = o
  BY <1>5, <1>12, <1>13, <1>16, <1>17, ScanClose
<1>19. o \in Boundaries(K)
  BY <1>8
<1>20. InLine(Scan)' /\ Scan'.current \in Boundaries(journal')
  BY <1>18, <1>19 DEF K, InLine
<1> QED BY <1>20 DEF ChainInv

\* docs/accounting-rules.md:68: if only one worker ever closes the books of a company, its
\* boundary entries always parse as a chain, and each exercise ends before the next one
\* starts.  (Two closings that both passed _validate_request are both committed, and their
\* boundary entries then need not alternate.)
THEOREM SingleCloserCanonical ==
  ASSUME SingleCloser
  PROVE  Spec => []ExerciseChainCanonical
<1>1. Init => CloserInv /\ BoundariesAscend /\ ChainInv
  BY InitAscend, InitChain
<1>2. IInv /\ CloserInv /\ BoundariesAscend /\ ChainInv /\ [Next]_vars
        => CloserInv' /\ BoundariesAscend' /\ ChainInv'
  <2> SUFFICES ASSUME IInv, CloserInv, BoundariesAscend, ChainInv, [Next]_vars
               PROVE  CloserInv' /\ BoundariesAscend' /\ ChainInv'
    OBVIOUS
  <2>1. CASE UNCHANGED journal
    <3>1. ChainInv'
      BY <2>1 DEF ChainInv, Scan, Boundaries, InLine
    <3> QED BY <2>1, <3>1, QuietAscend
  <2>2. CASE journal' # journal
    <3>1. PICK w \in Workers : CommitEntry(w) \/ CommitClosing(w)
      BY <2>2 DEF Next, vars, ReceiveAny, Serve, Wait, Crash, ReceiveOpening, ReceivePosting,
         ReceiveReversal, ReceiveClosing, ReceiveUpdate, Receive, Check, Reject,
         LoadBalances, RejectPlan, Conflict, AcquireLock, SaveCompany
    <3> QED
      BY <3>1, CommitEntryAscend, CommitClosingAscend, CommitEntryChain, CommitClosingChain
  <2> QED
    BY <2>1, <2>2
<1>3. IInv /\ ChainInv => ExerciseChainCanonical
  BY ChainIsCanonical
<1> QED
  BY <1>1, <1>2, <1>3, Invariance, PTL DEF Spec

-----------------------------------------------------------------------------
(* What the steps of a request do to it.                                   *)

\* What a request holds of the company is the row as it is committed now.
LEMMA ReceiveSees ==
  ASSUME IInv, NEW w \in Workers, ReceiveAny(w)
  PROVE  /\ \A v \in Workers \ {w} : pc'[v] = pc[v] /\ req'[v] = req[v]
         /\ UNCHANGED <<journal, snapshots, books_closed_until, lock>>
         /\ pc'[w] = "loaded"
         /\ req'[w].closed_seen = books_closed_until
         /\ req'[w].kind = "closing" => w \in Closers
         /\ req'[w].kind = "update" => w \in Editors
  BY DEF IInv, TypeOK, ReceiveAny, ReceiveOpening, ReceivePosting,
         ReceiveReversal, ReceiveClosing, ReceiveUpdate, Receive, LoadedRequest

\* Whatever a service checks, it checks the date against the books it has seen.
LEMMA CheckOpens ==
  ASSUME IInv, NEW w \in Workers, Check(w)
  PROVE  /\ UNCHANGED <<journal, snapshots, books_closed_until, req>>
         /\ \A v \in Workers \ {w} : pc'[v] = pc[v]
         /\ pc'[w] \in {"validated", "checked"}
         /\ pc'[w] = "checked" => req[w].kind # "closing"
         /\ BooksOpen(req[w])
  BY DEF IInv, TypeOK, Check, Allowed, OpeningAllowed, PostingAllowed, ReversalAllowed,
         ClosingAllowed

\* The plan and the number are added to the request; the rest of it stays.
LEMMA ProceedKeeps ==
  ASSUME IInv, NEW w \in Workers, LoadBalances(w) \/ AcquireLock(w)
  PROVE  /\ UNCHANGED <<journal, snapshots, books_closed_until>>
         /\ \A v \in Workers \ {w} : pc'[v] = pc[v] /\ req'[v] = req[v]
         /\ pc[w] \in {"validated", "checked"}
         /\ pc'[w] \in {"checked", "locked"}
         /\ req'[w].kind = req[w].kind /\ req'[w].date = req[w].date
         /\ req'[w].closed_seen = req[w].closed_seen
         /\ pc[w] = "validated" => req'[w].loaded = Len(journal)
         /\ pc[w] = "checked" => req'[w].loaded = req[w].loaded
<1>1. req[w] \in Request
  BY DEF IInv, TypeOK
<1>2. CASE LoadBalances(w)
  BY <1>1, <1>2 DEF LoadBalances, IInv, TypeOK, Request
<1>3. CASE AcquireLock(w)
  BY <1>1, <1>3 DEF AcquireLock, IInv, TypeOK, Request
<1> QED
  BY <1>2, <1>3

\* Every other step ends the request.
LEMMA Steps ==
  ASSUME [Next]_vars
  PROVE  \/ UNCHANGED vars
         \/ \E w \in Workers :
              \/ ReceiveAny(w) \/ Check(w) \/ LoadBalances(w) \/ AcquireLock(w)
              \/ CommitEntry(w) \/ CommitClosing(w) \/ SaveCompany(w)
              \/ Finish(w) /\ UNCHANGED <<journal, snapshots, books_closed_until>>
  BY DEF Next, Serve, Wait, Reject, RejectPlan, Conflict, Crash

-----------------------------------------------------------------------------
(* The balances of a closing are loaded before the lock is taken: it may   *)
(* miss an entry of its period.  The next closing does not.                *)

\* A snapshot names committed rows, and was loaded after the snapshots before it.
SnapshotInv ==
  /\ \A s \in snapshots :
       /\ s.first \in 1..s.closing_entry
       /\ s.closing_entry \in DOMAIN journal
       /\ journal[s.closing_entry].source_type = "PATRIMONIAL_CLOSING"
  /\ \A s, t \in snapshots : s.first < t.first =>
       s.closing_entry < t.closing_entry /\ s.first <= t.loaded + 1

\* A closing has loaded its balances after every closing that is committed.
LoadedInv ==
  \A w \in Workers : (req[w].kind = "closing" /\ pc[w] \in {"checked", "locked"}) =>
    \A s \in snapshots : s.first <= req[w].loaded + 1

\* Rows are only added.
LEMMA RowsStay ==
  ASSUME IInv, NEW w \in Workers, CommitEntry(w) \/ CommitClosing(w)
  PROVE  \A i \in DOMAIN journal : i \in DOMAIN journal' /\ journal'[i] = journal[i]
<1>1. journal \in Seq(Entry) /\ Len(journal) \in Nat /\ DOMAIN journal = 1..Len(journal)
  BY DEF IInv, TypeOK
<1>2. CASE CommitEntry(w)
  BY <1>1, <1>2, AppendFacts DEF CommitEntry
<1>3. CASE CommitClosing(w)
  <2>1. PICK m \in Nat :
          /\ DOMAIN journal' = 1..(Len(journal) + m + 2)
          /\ \A i \in 1..Len(journal) : journal'[i] = journal[i]
    BY <1>3, CommitClosingRows
  <2> QED
    BY <1>1, <2>1
<1> QED
  BY <1>2, <1>3

\* The snapshot of a closing comes behind all others, in its entries and in what it loaded.
LEMMA ClosingSnapshots ==
  ASSUME SingleCloser, IInv, CloserInv, SnapshotInv, LoadedInv,
         NEW w \in Workers, CommitClosing(w)
  PROVE  SnapshotInv' /\ LoadedInv'
<1> DEFINE r == req[w]
           n == Len(journal)
<1>1. /\ r.kind = "closing" /\ w \in Closers /\ pc[w] = "locked" /\ Finish(w)
      /\ r.number = n + 1 /\ n \in Nat /\ DOMAIN journal = 1..n
      /\ r.loaded \in Nat
  BY DEF CommitClosing, IInv, TypeOK, NumberStaysFree, CloserInv, Request
<1>2. LoadedInv'
  <2>1. /\ \A v \in Workers \ {w} : req'[v] = req[v]
        /\ req'[w].kind # "closing"
    BY <1>1, FinishFacts DEF IInv, NoRequest
  <2>2. \A v \in Workers \ {w} : req[v].kind # "closing"
    BY <1>1 DEF CloserInv, SingleCloser
  <2> QED
    BY <2>1, <2>2 DEF LoadedInv
<1>3. PICK extras \in Extras :
        /\ journal' = journal \o ClosingEntries(r, extras)
        /\ snapshots' = snapshots \cup {ClosingSnapshot(r, extras)}
  BY DEF CommitClosing
<1> DEFINE t == ClosingSnapshot(r, extras)
           c == n + 1 + Len(extras)
<1>4. /\ t.first = n + 1 /\ t.closing_entry = c /\ t.loaded = r.loaded
      /\ c \in Nat /\ c >= n + 1
  <2>1. Len(extras) \in Nat
    BY DEF Extras
  <2> QED
    BY <1>1, <2>1 DEF ClosingSnapshot
<1>5. c \in DOMAIN journal' /\ journal'[c].source_type = "PATRIMONIAL_CLOSING"
  <2> DEFINE b == ClosingEntries(r, extras)
             m == Len(extras)
  <2>1. r \in Request /\ r.date \in Dates /\ r.reopening_date \in Dates /\ journal \in Seq(Entry)
    BY <1>1 DEF IInv, TypeOK, RequestInv
  <2>2. /\ m \in Nat /\ b \in Seq(Entry) /\ Len(b) = m + 2
        /\ b[m + 1] = JournalEntry(n + m + 1, "PATRIMONIAL_CLOSING", r.date, NoEntry)
    BY <1>1, <2>1, ClosingEntriesFacts
  <2> HIDE DEF b, r
  <2>3. journal' = journal \o b
    BY <1>3 DEF b
  <2>4. DOMAIN journal' = 1..(n + Len(b)) /\ journal'[n + (m + 1)] = b[(n + (m + 1)) - n]
    <3>1. /\ DOMAIN (journal \o b) = 1..(n + Len(b))
          /\ \A i \in (n + 1)..(n + Len(b)) : (journal \o b)[i] = b[i - n]
      <4>1. journal \in Seq(Entry) /\ b \in Seq(Entry)
        BY <2>1, <2>2
      <4> QED
        BY <4>1, ConcatFacts, Zenon
    <3>2. n + (m + 1) \in (n + 1)..(n + Len(b))
      BY <1>1, <2>2
    <3> QED
      BY <2>3, <3>1, <3>2
  <2>5. (n + (m + 1)) - n = m + 1 /\ c = n + (m + 1) /\ c \in 1..(n + Len(b))
    BY <1>1, <2>2
  <2> QED
    BY <2>2, <2>4, <2>5 DEF JournalEntry
<1>6. \A s \in snapshots :
        /\ s.first \in 1..s.closing_entry /\ s.closing_entry \in 1..n
        /\ s.closing_entry \in DOMAIN journal'
        /\ journal'[s.closing_entry] = journal[s.closing_entry]
        /\ s.first <= r.loaded + 1
  BY <1>1, RowsStay DEF SnapshotInv, LoadedInv
<1> HIDE DEF t, c, n, r
<1>7. ASSUME NEW s \in snapshots'
      PROVE  /\ s.first \in 1..s.closing_entry
             /\ s.closing_entry \in DOMAIN journal'
             /\ journal'[s.closing_entry].source_type = "PATRIMONIAL_CLOSING"
  <2>1. CASE s \in snapshots
    BY <1>6, <2>1 DEF SnapshotInv
  <2>2. CASE s = t
    BY <1>1, <1>4, <1>5, <2>2
  <2> QED
    BY <1>3, <2>1, <2>2 DEF t
<1>8. ASSUME NEW s \in snapshots', NEW u \in snapshots', s.first < u.first
      PROVE  s.closing_entry < u.closing_entry /\ s.first <= u.loaded + 1
  <2>1. CASE s \in snapshots /\ u \in snapshots
    BY <1>8, <2>1 DEF SnapshotInv
  <2>2. CASE s \in snapshots /\ u = t
    BY <1>1, <1>4, <1>6, <2>2
  <2>3. CASE s = t /\ u \in snapshots
    BY <1>1, <1>4, <1>6, <1>8, <2>3
  <2>4. CASE s = t /\ u = t
    BY <1>1, <1>4, <1>8, <2>4
  <2> QED
    BY <1>3, <2>1, <2>2, <2>3, <2>4 DEF t
<1> QED
  BY <1>2, <1>7, <1>8 DEF SnapshotInv

LEMMA SnapshotStep ==
  ASSUME SingleCloser, IInv, CloserInv, SnapshotInv, LoadedInv, [Next]_vars
  PROVE  SnapshotInv' /\ LoadedInv'
<1>1. CASE UNCHANGED vars
  BY <1>1 DEF vars, SnapshotInv, LoadedInv
<1>2. ASSUME NEW w \in Workers, ReceiveAny(w) PROVE SnapshotInv' /\ LoadedInv'
  BY <1>2, ReceiveSees DEF SnapshotInv, LoadedInv
<1>3. ASSUME NEW w \in Workers, Check(w) PROVE SnapshotInv' /\ LoadedInv'
  BY <1>3, CheckOpens DEF SnapshotInv, LoadedInv
<1>4. ASSUME NEW w \in Workers, LoadBalances(w) \/ AcquireLock(w)
      PROVE  SnapshotInv' /\ LoadedInv'
  <2>1. \A s \in snapshots : s.first <= Len(journal) + 1
    <3>1. Len(journal) \in Nat /\ DOMAIN journal = 1..Len(journal)
      BY DEF IInv, TypeOK
    <3> QED
      BY <3>1 DEF SnapshotInv
  <2> QED
    BY <1>4, <2>1, ProceedKeeps DEF SnapshotInv, LoadedInv
<1>5. ASSUME NEW w \in Workers, Finish(w), UNCHANGED snapshots,
             UNCHANGED journal \/ CommitEntry(w)
      PROVE  SnapshotInv' /\ LoadedInv'
  <2>1. \A i \in DOMAIN journal : i \in DOMAIN journal' /\ journal'[i] = journal[i]
    BY <1>5, RowsStay
  <2>2. /\ \A v \in Workers \ {w} : pc'[v] = pc[v] /\ req'[v] = req[v]
        /\ req'[w].kind # "closing"
    BY <1>5, FinishFacts DEF IInv, NoRequest
  <2> QED
    BY <1>5, <2>1, <2>2 DEF SnapshotInv, LoadedInv
<1>6. ASSUME NEW w \in Workers, CommitClosing(w) PROVE SnapshotInv' /\ LoadedInv'
  BY <1>6, ClosingSnapshots
<1> QED
  BY <1>1, <1>2, <1>3, <1>4, <1>5, <1>6, Steps DEF CommitEntry, SaveCompany

\* build_simplified_closing_plan reads the balances before the row lock is taken, so
\* an entry may be committed in between, inside the period and outside the balances
\* that are closed.  If one worker closes, the next closing has it in the balances
\* that it loads, whatever is posted, reversed and saved meanwhile.
THEOREM MissedClosedNext ==
  ASSUME SingleCloser
  PROVE  Spec => []MissedIsClosedNext
<1>1. Init => CloserInv /\ BoundariesAscend /\ SnapshotInv /\ LoadedInv
  <2>1. Init => SnapshotInv /\ LoadedInv
    BY DEF Init, SnapshotInv, LoadedInv, NoRequest
  <2> QED
    BY <2>1, InitAscend
<1>2. IInv /\ CloserInv /\ BoundariesAscend /\ SnapshotInv /\ LoadedInv /\ [Next]_vars
        => CloserInv' /\ BoundariesAscend' /\ SnapshotInv' /\ LoadedInv'
  BY CloserStep, SnapshotStep
<1>3. IInv /\ BoundariesAscend /\ SnapshotInv => MissedIsClosedNext
  <2> SUFFICES ASSUME IInv, BoundariesAscend, SnapshotInv,
                      NEW s \in snapshots, NEW t \in snapshots, s.first < t.first,
                      NEW i \in DOMAIN journal, i < s.first,
                      journal[i].date <= journal[s.closing_entry].date
               PROVE  i <= t.loaded /\ journal[i].date <= journal[t.closing_entry].date
    BY DEF MissedIsClosedNext
  <2>1. /\ s.closing_entry \in DOMAIN journal /\ t.closing_entry \in DOMAIN journal
        /\ s.closing_entry < t.closing_entry /\ s.first <= t.loaded + 1
        /\ IsBoundary(journal[s.closing_entry]) /\ IsBoundary(journal[t.closing_entry])
    BY DEF SnapshotInv, IsBoundary, BoundaryType
  <2>2. journal[s.closing_entry].date <= journal[t.closing_entry].date
    BY <2>1 DEF BoundariesAscend
  <2>3. \A k \in DOMAIN journal : journal[k].date \in Int
    <3>1. Dates \subseteq Int
      BY BoundsAssumption DEF Dates
    <3>2. \A k \in DOMAIN journal : journal[k] \in Entry
      BY DEF IInv, TypeOK
    <3> QED
      BY <3>1, <3>2 DEF Entry
  <2>4. i \in Int /\ s.first \in Int /\ t.loaded \in Int
    BY DEF IInv, TypeOK, Snapshot
  <2> QED
    BY <2>1, <2>2, <2>3, <2>4
<1> QED
  BY <1>1, <1>2, <1>3, Invariance, PTL DEF Spec

-----------------------------------------------------------------------------
(* One request at a time.  The checks run before the lock on what was      *)
(* loaded earlier; when no other request runs in between, that is still    *)
(* the committed state when the entries are inserted.  (With two workers   *)
(* it is not: MCJournalLatePosting.)                                       *)

SingleWorker == \A v, w \in Workers : v = w

AloneInv ==
  \A w \in Workers :
    /\ req[w].kind # "none" => req[w].closed_seen = books_closed_until
    /\ pc[w] \in InFlight => BooksOpen(req[w])

\* A commit and every other end of the only request leave nothing in memory.
LEMMA FinishAlone ==
  ASSUME SingleWorker, IInv, NEW w \in Workers, Finish(w)
  PROVE  AloneInv'
<1>1. \A v \in Workers : req'[v].kind = "none" /\ pc'[v] = "idle"
  BY FinishFacts DEF IInv, NoRequest, SingleWorker
<1> QED
  BY <1>1 DEF AloneInv, InFlight

\* What the only request has seen stays true until it ends.
LEMMA AloneStep ==
  ASSUME SingleWorker, IInv, AloneInv, [Next]_vars
  PROVE  AloneInv'
<1>1. CASE UNCHANGED vars
  BY <1>1 DEF vars, AloneInv, BooksOpen
<1>2. ASSUME NEW w \in Workers, ReceiveAny(w) PROVE AloneInv'
  BY <1>2, ReceiveSees DEF AloneInv, InFlight
<1>3. ASSUME NEW w \in Workers, Check(w) PROVE AloneInv'
  BY <1>3, CheckOpens DEF AloneInv
<1>4. ASSUME NEW w \in Workers, LoadBalances(w) \/ AcquireLock(w) PROVE AloneInv'
  <2>1. pc[w] \in InFlight
    BY <1>4, ProceedKeeps DEF InFlight
  <2> QED
    BY <1>4, <2>1, ProceedKeeps DEF AloneInv, BooksOpen
<1>5. ASSUME NEW w \in Workers, Finish(w) PROVE AloneInv'
  BY <1>5, FinishAlone
<1> QED
  BY <1>1, <1>2, <1>3, <1>4, <1>5, Steps DEF CommitEntry, CommitClosing, SaveCompany

\* The rows a commit adds are dated after the books that are closed.
LEMMA AloneLocked ==
  ASSUME IInv, AloneInv, [Next]_vars,
         NEW i \in DOMAIN journal', i > Len(journal)
  PROVE  journal'[i].date > books_closed_until
<1> DEFINE n == Len(journal)
<1>1. /\ n \in Nat /\ DOMAIN journal = 1..n /\ journal \in Seq(Entry)
      /\ Dates \subseteq Int /\ \A d \in Dates : d > 0
      /\ books_closed_until \in Int
  BY BoundsAssumption DEF IInv, TypeOK, Dates, NoDate
<1>2. journal' # journal
  BY <1>1
<1>3. PICK w \in Workers : CommitEntry(w) \/ CommitClosing(w)
  BY <1>2 DEF Next, vars, ReceiveAny, Serve, Wait, Crash, ReceiveOpening, ReceivePosting,
         ReceiveReversal, ReceiveClosing, ReceiveUpdate, Receive, Check, Reject,
         LoadBalances, RejectPlan, Conflict, AcquireLock, SaveCompany
<1> DEFINE r == req[w]
<1>4. /\ r.kind \in {"opening", "posting", "reversal", "closing"} /\ r.date \in Dates
      /\ r.kind = "closing" => r.reopening_date \in Dates /\ r.reopening_date > r.date
      /\ BooksOpen(r) /\ r.closed_seen = books_closed_until
  BY <1>3 DEF CommitEntry, CommitClosing, IInv, RequestInv, InFlight, AloneInv
<1>5. r.date > books_closed_until
  BY <1>1, <1>4 DEF BooksOpen, NoDate
<1> HIDE DEF n, r
<1>6. CASE CommitEntry(w)
  <2>1. PostedEntry(r) \in Entry /\ journal' = Append(journal, PostedEntry(r))
    <3>1. r.number \in Nat \ {0} /\ r.original \in Nat /\ SourceTypeOf(r) \in SourceType
      BY <1>6 DEF r, CommitEntry, IInv, TypeOK, NumberStaysFree, Request, SourceTypeOf, SourceType
    <3> QED
      BY <1>4, <1>6, <3>1 DEF r, CommitEntry, PostedEntry, JournalEntry, Entry
  <2>2. DOMAIN journal' = 1..(n + 1) /\ journal'[n + 1] = PostedEntry(r)
    BY <1>1, <2>1, AppendFacts DEF n
  <2>3. i = n + 1
    BY <1>1, <2>2 DEF n
  <2> QED
    BY <1>5, <2>2, <2>3 DEF PostedEntry, JournalEntry
<1>7. CASE CommitClosing(w)
  <2>1. PICK m \in Nat :
          /\ DOMAIN journal' = 1..(n + m + 2)
          /\ \A k \in (n + 1)..(n + m) :
               journal'[k] \in {JournalEntry(k, "ADJUSTMENT", r.date, NoEntry),
                                JournalEntry(k, "RESULT_CLOSING", r.date, NoEntry)}
          /\ journal'[n + m + 1]
               = JournalEntry(n + m + 1, "PATRIMONIAL_CLOSING", r.date, NoEntry)
          /\ journal'[n + m + 2]
               = JournalEntry(n + m + 2, "REOPENING", r.reopening_date, NoEntry)
    BY <1>7, CommitClosingRows DEF n, r
  <2>2. i \in (n + 1)..(n + m) \/ i = n + m + 1 \/ i = n + m + 2
    BY <1>1, <2>1 DEF n
  <2>3. journal'[i].date = r.date \/ journal'[i].date = r.reopening_date
    BY <2>1, <2>2 DEF JournalEntry
  <2>4. r.kind = "closing"
    BY <1>7 DEF CommitClosing, r
  <2>5. r.date \in Int /\ r.reopening_date \in Int /\ r.reopening_date > r.date
    BY <1>1, <1>4, <2>4
  <2>6. r.reopening_date > books_closed_until
    BY <1>1, <1>5, <2>5
  <2> QED
    BY <1>5, <2>3, <2>6
<1> QED
  BY <1>3, <1>6, <1>7

\* One request at a time, no entry is ever dated on or before books_closed_until:
\* the check create_journal_entry, reverse_journal_entry and
\* execute_simplified_closing make on the company they loaded is the lock that
\* Company.books_closed_until promises.
THEOREM AloneClosedPeriodLocked ==
  ASSUME SingleWorker
  PROVE  Spec => ClosedPeriodLocked
<1>1. Init => AloneInv
  BY DEF Init, AloneInv, NoRequest, InFlight
<1>2. IInv /\ AloneInv /\ [Next]_vars =>
        [\A i \in DOMAIN journal' : i > Len(journal) => journal'[i].date > books_closed_until]_vars
  BY AloneLocked
<1> QED
  BY <1>1, <1>2, AloneStep, Invariance, PTL DEF Spec, ClosedPeriodLocked
=============================================================================
