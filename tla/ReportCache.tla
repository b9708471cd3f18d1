----------------------------- MODULE ReportCache -----------------------------
(***************************************************************************)
(* The versioned cache of reports and logical exercises of one company     *)
(* (apps/reports/cache.py, apps/common/cache.py, list_logical_exercises of *)
(* apps/closing/selectors.py and the get_* services of apps/reports).      *)
(*                                                                         *)
(* A cached value is stored under a key that holds the company's report    *)
(* version; a write invalidates by bumping the version.  Every call to the *)
(* cache is a step of its own: the shared cache knows no transactions, and *)
(* the bump happens before the database transaction commits.  The safe_*   *)
(* wrappers turn a failing cache into "missing" on reads and into nothing  *)
(* on writes.                                                              *)
(*                                                                         *)
(* A cached value is what it was computed from: how many writes to the     *)
(* journal and to the chart of accounts had been committed.  A report      *)
(* service first asks for the exercises, which choose the window of the    *)
(* report: that is a read of its own here, and all reports are of one      *)
(* window.                                                                 *)
(***************************************************************************)
EXTENDS Integers, FiniteSets

CONSTANTS
  Readers, Writers, \* the workers that may ask for a report, and that may write
  InitialVersions,  \* the version key at the start: 0 missing, 1 already initialised
  MayFail,          \* whether a call to the cache may fail
  MayExpire,        \* whether a key may reach its timeout or be evicted
  MaxWrites,        \* bound: bumps of the version
  NoWorker          \* nobody holds the company row lock

Workers == Readers \cup Writers

ASSUME NoWorkerAssumption == NoWorker \notin Workers
ASSUME VersionsAssumption == InitialVersions \subseteq {0, 1}
ASSUME FlagsAssumption    == MayFail \in BOOLEAN /\ MayExpire \in BOOLEAN
ASSUME BoundAssumption    == MaxWrites \in Nat

VARIABLES
  db,        \* committed writes to the journal and to the chart
  lock,      \* who holds the company row lock
  version,   \* reports:company:{id}:version, 0 when the key is missing
  cache,     \* the cached values, by kind and version
  pc, req,   \* where each worker is, and what its request holds in memory
  writes,    \* bumps started, at most MaxWrites
  intact,    \* history: no bump was lost, no version went back or was guessed
  apart      \* history: since the last write that began alone, none has met a request

vars == <<db, lock, version, cache, pc, req, writes, intact, apart>>

Kinds == {"exercises", "report"}        \* what a reader asks for
Tables == {"journal", "chart"}          \* what a writer changes
Zero == [t \in Tables |-> 0]

NoRequest == [kind    |-> "none",     \* what it reads or writes
              version |-> 0,          \* the version in its cache key
              then    |-> "lookup",   \* what it wants the version for
              value   |-> Zero,       \* the answer
              since   |-> Zero]       \* what was committed when it started

Init ==
  /\ db = Zero
  /\ lock = NoWorker
  /\ version \in InitialVersions
  /\ cache = [k \in {} |-> Zero]
  /\ pc = [w \in Workers |-> "idle"]
  /\ req = [w \in Workers |-> NoRequest]
  /\ writes = 0
  /\ intact = TRUE
  /\ apart = TRUE

Goto(w, label) == pc' = [pc EXCEPT ![w] = label]

\* The safe_* wrappers: a call reaches the cache, or fails and is swallowed.
Outcomes == IF MayFail THEN {TRUE, FALSE} ELSE {TRUE}

-----------------------------------------------------------------------------
(* Readers: list_logical_exercises and the report services.                *)

StartRead(w) ==
  /\ w \in Readers
  /\ pc[w] = "idle"
  /\ \E k \in Kinds : req' = [req EXCEPT ![w] = [NoRequest EXCEPT !.kind = k, !.since = db]]
  /\ Goto(w, "version")
  /\ UNCHANGED <<db, lock, version, cache, writes>>

\* _get_or_init_version: get, and set to 1 when there is no usable version.
GetVersion(w) ==
  /\ pc[w] = "version"
  /\ \E up \in Outcomes :
       IF up /\ version > 0
          THEN req' = [req EXCEPT ![w].version = version] /\ Goto(w, req[w].then)
          ELSE Goto(w, "init") /\ UNCHANGED req
  /\ UNCHANGED <<db, lock, version, cache, writes>>

InitVersion(w) ==
  /\ pc[w] = "init"
  /\ \E up \in Outcomes : version' = IF up THEN 1 ELSE version
  /\ req' = [req EXCEPT ![w].version = 1]
  /\ Goto(w, req[w].then)
  /\ UNCHANGED <<db, lock, cache, writes>>

\* Mutant: the version is not part of the key.
KeyOf_Unversioned(r) == <<r.kind, 1>>

KeyOf(r) == <<r.kind, r.version>>

\* get_cached_report, and the lookup of list_logical_exercises.
Lookup(w) ==
  /\ pc[w] = "lookup"
  /\ \E up \in Outcomes :
       IF up /\ KeyOf(req[w]) \in DOMAIN cache
          THEN req' = [req EXCEPT ![w].value = cache[KeyOf(req[w])]] /\ Goto(w, "served")
          ELSE Goto(w, "build") /\ UNCHANGED req
  /\ UNCHANGED <<db, lock, version, cache, writes>>

\* A report is stored under the version read AFTER it was computed
\* (set_cached_report builds the key again); the exercises under the one before.
AfterBuild(r) == IF r.kind = "report" THEN "version" ELSE "store"

Build(w) ==
  /\ pc[w] = "build"
  /\ req' = [req EXCEPT ![w] = [@ EXCEPT !.value = db, !.then = "store"]]
  /\ Goto(w, AfterBuild(req[w]))
  /\ UNCHANGED <<db, lock, version, cache, writes>>

Store(w) ==
  /\ pc[w] = "store"
  /\ \E up \in Outcomes :
       cache' = IF up
                   THEN [k \in DOMAIN cache \cup {KeyOf(req[w])} |->
                           IF k = KeyOf(req[w]) THEN req[w].value ELSE cache[k]]
                   ELSE cache
  /\ Goto(w, "served")
  /\ UNCHANGED <<db, lock, version, req, writes>>

\* The answer is sent.
Reply(w) ==
  /\ pc[w] = "served"
  /\ Goto(w, "idle")
  /\ req' = [req EXCEPT ![w] = NoRequest]
  /\ UNCHANGED <<db, lock, version, cache, writes>>

-----------------------------------------------------------------------------
(* Writers.  A journal write holds the company row lock until it commits;  *)
(* create_account, update_account and delete_account take no such lock.    *)

\* Mutant: journal writes take no lock either.
LockFor_Unlocked(w, table) == UNCHANGED lock

LockFor(w, table) ==
  IF table = "journal" THEN lock = NoWorker /\ lock' = w ELSE UNCHANGED lock

\* Everything a writing service does before it bumps; the rows stay invisible.
StartWrite(w) ==
  /\ w \in Writers
  /\ pc[w] = "idle"
  /\ writes < MaxWrites
  /\ writes' = writes + 1
  /\ \E t \in Tables :
       /\ LockFor(w, t)
       /\ req' = [req EXCEPT ![w] = [NoRequest EXCEPT !.kind = t]]
  /\ Goto(w, "add")
  /\ UNCHANGED <<db, version, cache>>

\* _bump_version: add 2, else increment, else read and write back.
BumpAdd(w) ==
  /\ pc[w] = "add"
  /\ \E up \in Outcomes :
       IF up /\ version = 0
          THEN version' = 2 /\ Goto(w, "bumped")
          ELSE Goto(w, "incr") /\ UNCHANGED version
  /\ UNCHANGED <<db, lock, cache, req, writes>>

BumpIncr(w) ==
  /\ pc[w] = "incr"
  /\ \E up \in Outcomes :
       IF up /\ version > 0
          THEN version' = version + 1 /\ Goto(w, "bumped")
          ELSE Goto(w, "reread") /\ UNCHANGED version
  /\ UNCHANGED <<db, lock, cache, req, writes>>

BumpRead(w) ==
  /\ pc[w] = "reread"
  /\ \E up \in Outcomes :
       req' = [req EXCEPT ![w].version = IF up /\ version > 0 THEN version + 1 ELSE 2]
  /\ Goto(w, "rewrite")
  /\ UNCHANGED <<db, lock, version, cache, writes>>

BumpSet(w) ==
  /\ pc[w] = "rewrite"
  /\ \E up \in Outcomes : version' = IF up THEN req[w].version ELSE version
  /\ Goto(w, "bumped")
  /\ UNCHANGED <<db, lock, cache, req, writes>>

\* execute_simplified_closing writes several entries in one transaction, and
\* bumps after each of them.
WriteAnother(w) ==
  /\ pc[w] = "bumped"
  /\ req[w].kind = "journal"
  /\ writes < MaxWrites
  /\ writes' = writes + 1
  /\ Goto(w, "add")
  /\ UNCHANGED <<db, lock, version, cache, req>>

EndWrite(w) ==
  /\ lock' = IF lock = w THEN NoWorker ELSE lock
  /\ Goto(w, "idle")
  /\ req' = [req EXCEPT ![w] = NoRequest]
  /\ UNCHANGED <<version, cache, writes>>

Commit(w) ==
  /\ pc[w] = "bumped"
  /\ db' = [db EXCEPT ![req[w].kind] = @ + 1]
  /\ EndWrite(w)

\* The transaction fails after the bump: nothing is written, the version stays.
Rollback(w) ==
  /\ pc[w] = "bumped"
  /\ EndWrite(w)
  /\ UNCHANGED db

-----------------------------------------------------------------------------
(* The cache drops a key: its timeout has passed (120 s for a report, 7    *)
(* days for exercises, 30 days after its creation for the version, which   *)
(* incr does not prolong) or the backend evicts it.                        *)

Expire ==
  /\ MayExpire
  /\ \/ version # 0 /\ version' = 0 /\ UNCHANGED cache
     \/ \E k \in DOMAIN cache :
          cache' = [j \in DOMAIN cache \ {k} |-> cache[j]] /\ UNCHANGED version
  /\ UNCHANGED <<db, lock, pc, req, writes>>

Read(w) ==
  StartRead(w) \/ GetVersion(w) \/ InitVersion(w) \/ Lookup(w) \/ Build(w)
  \/ Store(w) \/ Reply(w)

Write(w) ==
  StartWrite(w) \/ BumpAdd(w) \/ BumpIncr(w) \/ BumpRead(w) \/ BumpSet(w)
  \/ WriteAnother(w) \/ Commit(w) \/ Rollback(w)

\* The history variables look at the step; the code has no such flags.
LostBump == \E w \in Workers : BumpSet(w) /\ version' <= version

GuessedVersion == \E w \in Workers : InitVersion(w) /\ version > 1

Idle(w) == pc[w] = "idle"

BeginsAlone == \E w \in Workers : StartWrite(w) /\ \A v \in Workers \ {w} : Idle(v)

\* A writer and another request are under way.
Met == \E w \in Workers : req[w].kind \in Tables /\ \E v \in Workers \ {w} : ~Idle(v)

Track ==
  /\ intact' = (intact /\ version' >= version /\ ~LostBump /\ ~GuessedVersion)
  /\ apart' = (BeginsAlone \/ (apart /\ ~Met'))

Next == ((\E w \in Workers : Read(w) \/ Write(w)) \/ Expire) /\ Track

Spec == Init /\ [][Next]_vars

-----------------------------------------------------------------------------
(* Properties.                                                             *)

\* What an answer of a kind depends on: the exercises only on the journal.
Covers(kind, value, since) ==
  /\ value["journal"] >= since["journal"]
  /\ kind = "report" => value["chart"] >= since["chart"]

\* docs/architecture.md:123: "versioned invalidation for charts, visibility and
\* reports".  An answer contains every write committed before it was asked for.
ReadsCommitted ==
  \A w \in Workers : pc[w] = "served" => Covers(req[w].kind, req[w].value, req[w].since)

\* docs/observability.md:141: the caches "degrade to recalculation from the primary
\* data source".  As long as writes and other requests do not overlap, failing lookups
\* and stores, evicted values, rolled back writes and bumps that took a fallback path do
\* no harm, and a write that is alone repairs what an overlap left stale: a stale answer
\* needs a bump that was lost, a version that went back or expired, or a reader that
\* could not read the version and took it to be 1 when it was not.
ReadsUnlessInvalidationLost == intact /\ apart => ReadsCommitted

\* list_logical_exercises: whatever readers and writers interleave and whichever calls
\* fail, a list of exercises misses at most one commit of those made before it was asked
\* for, that of the last holder of the row lock, unless an invalidation was lost as above.
ExercisesOneBehind ==
  intact => \A w \in Workers :
    pc[w] = "served" /\ req[w].kind = "exercises"
      => req[w].value["journal"] >= req[w].since["journal"] - 1

=============================================================================
