------------------------------ MODULE Exercises ------------------------------
(***************************************************************************)
(* Logical exercises (apps/closing/selectors.py).                          *)
(*                                                                         *)
(* The system persists no exercise: it infers the exercises of a company   *)
(* from the boundary entries of its journal.  A journal is a sequence of   *)
(* entries in commit order; an entry keeps what the rules look at: its     *)
(* number, source type, date and the number of the entry it reverses (0    *)
(* when it reverses none).  Dates are positive integers, 0 is SQL NULL.    *)
(***************************************************************************)
EXTENDS Integers, FiniteSets, Sequences, SequencesExt, FiniteSetsExt

SourceType == {"OPENING", "ADJUSTMENT", "RESULT_CLOSING",
               "PATRIMONIAL_CLOSING", "REOPENING", "MANUAL", "OTHER"}

\* The source types reverse_journal_entry refuses.
NON_REVERSIBLE_SOURCE_TYPES ==
  {"OPENING", "ADJUSTMENT", "RESULT_CLOSING", "PATRIMONIAL_CLOSING", "REOPENING"}

BoundaryType == {"OPENING", "REOPENING", "PATRIMONIAL_CLOSING"}

NoDate  == 0
NoEntry == 0

\* ORDER BY date, entry_number
DateThenNumber(e, f) ==
  \/ e.date < f.date
  \/ e.date = f.date /\ e.number < f.number

\* The rows of S in that order: a row stands behind as many rows as come before it.
Ordered(S) ==
  LET before == [e \in S |-> Cardinality({f \in S : DateThenNumber(f, e)})]
  IN  [i \in 1..Cardinality(S) |-> CHOOSE e \in S : before[e] = i - 1]

IsBoundary(e) == e.source_type \in BoundaryType

BoundaryEntries(journal) == Ordered({e \in Range(journal) : IsBoundary(e)})

-----------------------------------------------------------------------------
(* The loop of _build_logical_exercises over the ordered boundary entries. *)
(* `current` is current_opening_entry, `invalid` the ConflictError that    *)
(* ends the loop: once raised, nothing changes any more.                   *)

NoOpening == [number |-> NoEntry, source_type |-> "OTHER", date |-> NoDate,
              reversal_of |-> NoEntry]

ScanStart == [exercises |-> << >>, current |-> NoOpening,
              seen_opening |-> FALSE, invalid |-> FALSE]

Exercise(opening, closing, index, status) ==
  [exercise_index |-> index,
   opening_entry  |-> opening.number,
   start_date     |-> opening.date,
   closing_entry  |-> closing.number,
   closing_date   |-> closing.date,
   status         |-> status]

HasCurrent(scan) == scan.current # NoOpening

ScanOpening(scan, entry) ==
  IF scan.seen_opening \/ HasCurrent(scan) \/ scan.exercises # << >>
  THEN [scan EXCEPT !.invalid = TRUE]
  ELSE [scan EXCEPT !.seen_opening = TRUE, !.current = entry]

ScanReopening(scan, entry) ==
  IF ~scan.seen_opening \/ HasCurrent(scan)
  THEN [scan EXCEPT !.invalid = TRUE]
  ELSE [scan EXCEPT !.current = entry]

ScanClosing(scan, entry) ==
  IF ~HasCurrent(scan)
  THEN [scan EXCEPT !.invalid = TRUE]
  ELSE [scan EXCEPT
          !.exercises = Append(@, Exercise(scan.current, entry, Len(@) + 1, "closed")),
          !.current   = NoOpening]

ScanEntry(scan, entry) ==
  CASE scan.invalid                         -> scan
    [] entry.source_type = "OPENING"        -> ScanOpening(scan, entry)
    [] entry.source_type = "REOPENING"      -> ScanReopening(scan, entry)
    [] OTHER                                -> ScanClosing(scan, entry)

\* The loop itself: scan[i] is what i entries leave.
ScanEntries(entries) ==
  LET scan[i \in 0..Len(entries)] ==
        IF i = 0 THEN ScanStart ELSE ScanEntry(scan[i - 1], entries[i])
  IN  scan[Len(entries)]

\* What _build_logical_exercises returns; `invalid` when it raises ConflictError.
BuildLogicalExercises(journal) ==
  LET scan == ScanEntries(BoundaryEntries(journal))
      exercises ==
        IF HasCurrent(scan)
        THEN Append(scan.exercises,
                    Exercise(scan.current, NoOpening, Len(scan.exercises) + 1, "open"))
        ELSE scan.exercises
  IN  [exercises |-> exercises,
       invalid   |-> scan.invalid \/ (journal # << >> /\ exercises = << >>)]

NoExercise == Exercise(NoOpening, NoOpening, 0, "none")

\* get_current_logical_exercise: the last open exercise, else the last one.
CurrentLogicalExercise(exercises) ==
  LET open == {i \in DOMAIN exercises : exercises[i].status = "open"}
  IN  CASE exercises = << >> -> NoExercise
        [] open # {}         -> exercises[Max(open)]
        [] OTHER             -> Last(exercises)
=============================================================================
