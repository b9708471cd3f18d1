-------------------------------- MODULE Books --------------------------------
(***************************************************************************)
(* What the journal of a company promises, without workers, locks or       *)
(* snapshots of the row in memory: an append-only book.  The opening comes *)
(* first and once, entries are numbered in order, an entry is reversed at  *)
(* most once, and the entries of a closing arrive together, the patrimonial*)
(* closing right before the reopening.  Journal implements it.             *)
(***************************************************************************)
EXTENDS Exercises

CONSTANT Day   \* the dates an entry may have

VARIABLE book

Row(number, source_type, date, reversal_of) ==
  [number |-> number, source_type |-> source_type, date |-> date,
   reversal_of |-> reversal_of]

Start == book = << >> \/ \E d \in Day : book = << Row(1, "OPENING", d, NoEntry) >>

Write(source_type, d, original) ==
  book' = Append(book, Row(Len(book) + 1, source_type, d, original))

Open == book = << >> /\ \E d \in Day : Write("OPENING", d, NoEntry)

Post == book # << >> /\ \E d \in Day : Write("MANUAL", d, NoEntry)

ReverseEntry(i) ==
  /\ book[i].source_type \notin NON_REVERSIBLE_SOURCE_TYPES
  /\ \A j \in DOMAIN book : book[j].reversal_of # i
  /\ \E d \in Day : Write("OTHER", d, i)

\* The closing appends any entries of date d, then the two boundary entries.
Close(d, r) ==
  /\ book # << >>
  /\ r > d
  /\ Len(book') >= Len(book) + 2
  /\ \A i \in 1..Len(book') : i <= Len(book) => book'[i] = book[i]
  /\ \A i \in 1..Len(book') : (i > Len(book) /\ i < Len(book') - 1) =>
       book'[i] \in {Row(i, "ADJUSTMENT", d, NoEntry), Row(i, "RESULT_CLOSING", d, NoEntry)}
  /\ book'[Len(book') - 1] = Row(Len(book') - 1, "PATRIMONIAL_CLOSING", d, NoEntry)
  /\ book'[Len(book')] = Row(Len(book'), "REOPENING", r, NoEntry)

Step ==
  \/ Open
  \/ Post
  \/ \E i \in DOMAIN book : ReverseEntry(i)
  \/ \E d, r \in Day : Close(d, r)

BookSpec == Start /\ [][Step]_book
=============================================================================
