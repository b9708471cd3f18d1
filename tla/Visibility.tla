----------------------------- MODULE Visibility -----------------------------
(***************************************************************************)
(* Charts of accounts and what a teacher hides in them for the students of *)
(* their courses (apps/accounts/visibility.py, apps/accounts/selectors.py, *)
(* the chart and visibility views), served through four kinds of cache     *)
(* keys: the teacher of a student, the version of a teacher's overrides or *)
(* of a chart, the hidden accounts of a teacher, and the charts.           *)
(*                                                                         *)
(* Every call to the cache and every query is a step.  A call that fails   *)
(* answers None.  Overrides and accounts are told apart by                 *)
(* when they were committed: a chart is the teacher whose overrides it     *)
(* applies, how many of that teacher's changes it has seen, and how many   *)
(* changes of the company's accounts.                                      *)
(***************************************************************************)
EXTENDS Integers, Sequences, FiniteSets

CONSTANTS
  Workers,
  Students, Staff,          \* Staff: a user who is not a student
  Teachers, Courses, TeacherOf,
  VersionTimeout,           \* _VERSION_TTL_SECONDS
  VisibilityTimeout,        \* ACCOUNT_VISIBILITY_CACHE_TIMEOUT
  ChartTimeout,             \* ACCOUNT_CHART_CACHE_TIMEOUT; of a demo DEMO_COMPANY_CHART_CACHE_TIMEOUT
  RequestTimeout,           \* ticks after which gunicorn kills a request
  Starts, MaxTime,          \* bounds: who is enrolled at the start, and how often what may happen
  None

Charts == {"global", "company"}
VersionKeys == Charts \cup Teachers

\* What is bounded: a student's charts, the charts of others, the other requests, ticks, and
\* calls to the cache that fail.
Bounded == {"global", "company", "public", "own", "patch", "write", "course", "tick", "fail"}

ASSUME CoursesAssumption == TeacherOf \in [Courses -> Teachers]
ASSUME NamesAssumption ==
  /\ Staff \notin Students
  /\ None \notin Teachers \cup Courses
  /\ Charts \cap Teachers = {}
ASSUME TimeoutsAssumption ==
  /\ VersionTimeout \in Nat \ {0} /\ VisibilityTimeout \in Nat \ {0}
  /\ ChartTimeout \in Nat \ {0} /\ RequestTimeout \in Nat
ASSUME StartsAssumption ==
  /\ MaxTime \in Nat
  /\ Starts \subseteq [course : [Students -> Courses \cup {None}], left : [Bounded -> 0..MaxTime]]

VARIABLES
  now,
  course,      \* CourseEnrollment: the course of each student
  overrides,   \* TeacherAccountVisibility: when each change of a teacher was committed
  accounts,    \* the company's accounts: when each change was committed
  resolved, versions, hidden, charts,   \* the cache
  pc, req,
  left,        \* how much of each is left, in this behaviour
  degraded,    \* history: a call to the cache failed
  rewound,     \* history: the version keys that went back, or were lost
  announced,   \* history: changes of each teacher whose PATCH has bumped the version
  leftAt,      \* history: when each teacher last stopped to be the student's, -1 if never
  stale        \* history: students whose key was stored late, or outlived their course

db == <<course, overrides, accounts, leftAt>>
cache == <<resolved, versions, hidden, charts, rewound, stale>>
vars == <<now, db, cache, pc, req, left, degraded, announced>>

Missing == [value |-> 0, until |-> 0]
NoTeacher == [value |-> None, until |-> 0]
Public == <<None, 0>>
NothingHidden == [by |-> None, upto |-> 0]
EmptyChart == [by |-> None, upto |-> 0, accounts |-> 0]

Idle == [kind |-> "none", start |-> 0, user |-> Staff, chart |-> "global", phase |-> "chart",
         cv |-> 0, tok |-> Public, key |-> Public, teacher |-> None, n |-> 0,
         hid |-> NothingHidden, value |-> EmptyChart, since |-> [t \in Teachers |-> 0]]

TeacherOfStudent(s) == IF course[s] = None THEN None ELSE TeacherOf[course[s]]

Init ==
  /\ now = 0
  /\ \E s \in Starts : course = s.course /\ left = s.left
  /\ overrides = [t \in Teachers |-> <<>>]
  /\ accounts = <<>>
  /\ resolved = [s \in Students |-> NoTeacher]
  /\ versions = [k \in VersionKeys |-> Missing]
  /\ hidden = [k \in {} |-> NothingHidden]
  /\ charts = [k \in {} |-> EmptyChart]
  /\ pc = [w \in Workers |-> "idle"]
  /\ req = [w \in Workers |-> Idle]
  /\ degraded = FALSE
  /\ rewound = {} /\ stale = {}
  /\ announced = [t \in Teachers |-> 0]
  /\ leftAt = [s \in Students |-> [t \in Teachers \cup {None} |-> -1]]

Goto(w, label) == pc' = [pc EXCEPT ![w] = label] /\ UNCHANGED req

GotoWith(w, label, r) == pc' = [pc EXCEPT ![w] = label] /\ req' = [req EXCEPT ![w] = r]

\* A call of a safe_* wrapper: it reaches the cache (up) or fails.
Call(up) ==
  /\ up \/ left["fail"] > 0
  /\ left' = IF up THEN left ELSE [left EXCEPT !["fail"] = @ - 1]
  /\ degraded' = (degraded \/ ~up)

Spend(what) == left[what] > 0 /\ left' = [left EXCEPT ![what] = @ - 1]

Put(f, k, v, timeout) ==
  [j \in DOMAIN f \cup {k} |-> IF j = k THEN [value |-> v, until |-> now + timeout] ELSE f[j]]

Unexpired(f, time) == [k \in {j \in DOMAIN f : f[j].until > time} |-> f[k]]

-----------------------------------------------------------------------------
(* Requests and time.                                                      *)

Receive(w, kind, label, r) ==
  /\ pc[w] = "idle"
  /\ Spend(IF kind # "chart" THEN kind ELSE IF r.user = Staff THEN "public" ELSE r.chart)
  /\ GotoWith(w, label, [r EXCEPT !.kind = kind, !.start = now, !.since = announced])
  /\ UNCHANGED <<now, db, cache, degraded, announced>>

\* GET of the global chart or of the chart of a company.
ReceiveChart(w) ==
  \E u \in Students \cup {Staff}, c \in Charts :
    Receive(w, "chart", "version", [Idle EXCEPT !.user = u, !.chart = c])

\* The chart with the overrides of a teacher, for the teacher or an admin.
ReceiveOwn(w) ==
  \E t \in Teachers : Receive(w, "own", "version", [Idle EXCEPT !.phase = "own", !.teacher = t])

\* PATCH of one or several overrides.
ReceivePatch(w) ==
  \E t \in Teachers : Receive(w, "patch", "save", [Idle EXCEPT !.phase = "own", !.teacher = t])

\* create_account and its like: a student's choice is checked against the hidden accounts.
ReceiveWrite(w) ==
  \E u \in Students \cup {Staff} :
    Receive(w, "write", IF u = Staff THEN "add" ELSE "resolve",
            [Idle EXCEPT !.user = u, !.chart = "company", !.phase = "hidden"])

\* Who a student's teacher was until now.
Leaves(s, t) == leftAt' = [leftAt EXCEPT ![s][t] = now]

\* Mutant: unenroll_student leaves the cached teacher.
ChangeCourse_NotForgotten(w) ==
  /\ pc[w] = "idle" /\ Spend("course")
  /\ \E s \in Students, k \in Courses \cup {None} :
       /\ (k = None) # (course[s] = None)
       /\ course' = [course EXCEPT ![s] = k]
       /\ Leaves(s, TeacherOfStudent(s))
  /\ UNCHANGED <<now, overrides, accounts, cache, degraded, announced, pc, req>>

\* enroll_student of a student without a course, unenroll_student of one with a course.
ChangeCourse(w) ==
  /\ pc[w] = "idle" /\ Spend("course")
  /\ \E s \in Students, k \in Courses \cup {None} :
       /\ (k = None) # (course[s] = None)
       /\ course' = [course EXCEPT ![s] = k]
       /\ Leaves(s, TeacherOfStudent(s))
       /\ GotoWith(w, "forget", [Idle EXCEPT !.kind = "course", !.start = now, !.user = s])
  /\ UNCHANGED <<now, overrides, accounts, cache, degraded, announced>>

\* delete_course: the enrolments go with it, the cached teachers stay.
DeleteCourse ==
  /\ Spend("course")
  /\ \E k \in Courses :
       LET gone == {s \in Students : course[s] = k} IN
       /\ gone # {}
       /\ course' = [s \in Students |-> IF s \in gone THEN None ELSE course[s]]
       /\ leftAt' = [s \in Students |-> IF s \in gone THEN [leftAt[s] EXCEPT ![TeacherOf[k]] = now]
                                                      ELSE leftAt[s]]
       /\ stale' = stale \cup {s \in gone : resolved[s] # NoTeacher}
  /\ UNCHANGED <<now, overrides, accounts, resolved, versions, hidden, charts, rewound, pc, req,
                 degraded, announced>>

\* A process may die at any time; gunicorn kills it when a request takes too long.
Killed(w) ==
  /\ pc[w] # "idle"
  /\ GotoWith(w, "idle", Idle)
  /\ stale' = IF pc[w] = "forget" THEN stale \cup {req[w].user} ELSE stale
  /\ UNCHANGED <<now, db, resolved, versions, hidden, charts, rewound, left, degraded, announced>>

Tick ==
  /\ Spend("tick")
  /\ \A w \in Workers : pc[w] # "idle" => now < req[w].start + RequestTimeout
  /\ now' = now + 1
  /\ resolved' = [s \in Students |-> IF resolved[s].until > now' THEN resolved[s] ELSE NoTeacher]
  /\ versions' = [k \in VersionKeys |-> IF versions[k].until > now' THEN versions[k] ELSE Missing]
  /\ hidden' = Unexpired(hidden, now')
  /\ charts' = Unexpired(charts, now')
  /\ rewound' = rewound \cup {k \in VersionKeys : versions'[k] # versions[k]}
  /\ stale' = {s \in stale : resolved'[s] # NoTeacher}
  /\ UNCHANGED <<db, pc, req, degraded, announced>>

-----------------------------------------------------------------------------
(* Versions: _get_or_init_version and _bump_version.                       *)

VersionKey(r) == IF r.phase = "chart" THEN r.chart ELSE r.teacher

\* What a version is for: the chart's first, then (for a student) the token, the hidden accounts.
WithVersion(w, v) ==
  LET r == req[w] IN
  CASE r.phase = "chart" /\ r.user = Staff -> GotoWith(w, "lookup", [r EXCEPT !.cv = v])
    [] r.phase = "chart" /\ r.user # Staff -> GotoWith(w, "resolve", [r EXCEPT !.cv = v, !.phase = "token"])
    [] r.phase \in {"token", "own"} -> GotoWith(w, "lookup", [r EXCEPT !.tok = <<r.teacher, v>>])
    [] r.phase = "hidden" -> GotoWith(w, "hidden", [r EXCEPT !.key = <<r.teacher, v>>])

SetVersion(k, v) ==
  /\ versions' = [versions EXCEPT ![k] = [value |-> v, until |-> now + VersionTimeout]]
  /\ rewound' = IF v < versions[k].value THEN rewound \cup {k} ELSE rewound

GetVersion(w) ==
  /\ pc[w] = "version"
  /\ \E up \in BOOLEAN :
       LET found == versions[VersionKey(req[w])].value IN
       /\ Call(up)
       /\ IF up /\ found > 0 THEN WithVersion(w, found) ELSE Goto(w, "init")
  /\ UNCHANGED <<now, db, cache, announced>>

\* The version was missing: it becomes 1, also if somebody bumped it meanwhile.
InitVersion(w) ==
  /\ pc[w] = "init"
  /\ \E up \in BOOLEAN :
       /\ Call(up)
       /\ IF up THEN SetVersion(VersionKey(req[w]), 1) ELSE UNCHANGED <<versions, rewound>>
  /\ WithVersion(w, 1)
  /\ UNCHANGED <<now, db, resolved, hidden, charts, stale, announced>>

BumpKey(r) == IF r.kind = "patch" THEN r.teacher ELSE r.chart

\* The version is bumped: a PATCH shows the chart of the teacher, a write commits.
Bumped(w) ==
  LET r == req[w] IN
  IF r.kind = "patch"
     THEN /\ announced' = [announced EXCEPT ![r.teacher] = IF r.n > @ THEN r.n ELSE @]
          /\ GotoWith(w, "version", [r EXCEPT !.since = announced'])
     ELSE Goto(w, "commit") /\ UNCHANGED announced

BumpAdd(w) ==
  /\ pc[w] = "add"
  /\ \E up \in BOOLEAN :
       LET k == BumpKey(req[w]) IN
       /\ Call(up)
       /\ IF up /\ versions[k] = Missing
             THEN SetVersion(k, 2) /\ Bumped(w)
             ELSE Goto(w, "incr") /\ UNCHANGED <<versions, rewound, announced>>
  /\ UNCHANGED <<now, db, resolved, hidden, charts, stale>>

\* incr keeps the timeout of the key, and fails when the key has gone.
BumpIncr(w) ==
  /\ pc[w] = "incr"
  /\ \E up \in BOOLEAN :
       LET k == BumpKey(req[w]) IN
       /\ Call(up)
       /\ IF up /\ versions[k] # Missing
             THEN versions' = [versions EXCEPT ![k].value = @ + 1] /\ Bumped(w)
             ELSE Goto(w, "reread") /\ UNCHANGED <<versions, announced>>
  /\ UNCHANGED <<now, db, resolved, hidden, charts, rewound, stale>>

BumpRead(w) ==
  /\ pc[w] = "reread"
  /\ \E up \in BOOLEAN :
       LET found == versions[BumpKey(req[w])].value IN
       /\ Call(up)
       /\ GotoWith(w, "reset", [req[w] EXCEPT !.cv = IF up /\ found > 0 THEN found + 1 ELSE 2])
  /\ UNCHANGED <<now, db, cache, announced>>

BumpSet(w) ==
  /\ pc[w] = "reset"
  /\ \E up \in BOOLEAN :
       /\ Call(up)
       /\ IF up THEN SetVersion(BumpKey(req[w]), req[w].cv) ELSE UNCHANGED <<versions, rewound>>
  /\ Bumped(w)
  /\ UNCHANGED <<now, db, resolved, hidden, charts, stale>>

-----------------------------------------------------------------------------
(* The teacher of a student, and the hidden accounts.                      *)

\* hidden_account_ids_for_student returns to the chart, or to the check of a write.
WithHidden(w, h) ==
  GotoWith(w, IF req[w].kind = "chart" THEN "build" ELSE "add", [req[w] EXCEPT !.hid = h])

WithTeacher(w, t) ==
  CASE t # None -> GotoWith(w, "version", [req[w] EXCEPT !.teacher = t])
    [] t = None /\ req[w].phase = "token" -> GotoWith(w, "lookup", [req[w] EXCEPT !.tok = Public])
    [] t = None /\ req[w].phase = "hidden" -> WithHidden(w, NothingHidden)

\* resolve_teacher_id_for_student.
Resolve(w) ==
  /\ pc[w] = "resolve"
  /\ \E up \in BOOLEAN :
       /\ Call(up)
       /\ IF up /\ resolved[req[w].user] # NoTeacher
             THEN WithTeacher(w, resolved[req[w].user].value)
             ELSE Goto(w, "enrolment")
  /\ UNCHANGED <<now, db, cache, announced>>

LoadTeacher(w) ==
  /\ pc[w] = "enrolment"
  /\ GotoWith(w, "remember", [req[w] EXCEPT !.teacher = TeacherOfStudent(req[w].user)])
  /\ UNCHANGED <<now, db, cache, left, degraded, announced>>

StoreTeacher(w) ==
  LET s == req[w].user  t == req[w].teacher IN
  /\ pc[w] = "remember"
  /\ \E up \in BOOLEAN :
       /\ Call(up)
       /\ resolved' = IF up THEN Put(resolved, s, t, VisibilityTimeout) ELSE resolved
       /\ stale' = CASE up /\ t # TeacherOfStudent(s) -> stale \cup {s}
                     [] up /\ t = TeacherOfStudent(s) -> stale \ {s}
                     [] ~up -> stale
  /\ WithTeacher(w, t)
  /\ UNCHANGED <<now, db, versions, hidden, charts, rewound, announced>>

\* invalidate_student_teacher_cache.
Forget(w) ==
  LET s == req[w].user IN
  /\ pc[w] = "forget"
  /\ \E up \in BOOLEAN :
       /\ Call(up)
       /\ resolved' = IF up THEN [resolved EXCEPT ![s] = NoTeacher] ELSE resolved
       /\ stale' = IF up THEN stale \ {s} ELSE stale \cup {s}
  /\ GotoWith(w, "idle", Idle)
  /\ UNCHANGED <<now, db, versions, hidden, charts, rewound, announced>>

GetHidden(w) ==
  /\ pc[w] = "hidden"
  /\ \E up \in BOOLEAN :
       /\ Call(up)
       /\ IF up /\ req[w].key \in DOMAIN hidden
             THEN WithHidden(w, hidden[req[w].key].value)
             ELSE Goto(w, "overrides")
  /\ UNCHANGED <<now, db, cache, announced>>

LoadHidden(w) ==
  LET t == req[w].key[1] IN
  /\ pc[w] = "overrides"
  /\ GotoWith(w, "keep", [req[w] EXCEPT !.hid = [by |-> t, upto |-> Len(overrides[t])]])
  /\ UNCHANGED <<now, db, cache, left, degraded, announced>>

StoreHidden(w) ==
  /\ pc[w] = "keep"
  /\ \E up \in BOOLEAN :
       /\ Call(up)
       /\ hidden' = IF up THEN Put(hidden, req[w].key, req[w].hid, VisibilityTimeout) ELSE hidden
  /\ WithHidden(w, req[w].hid)
  /\ UNCHANGED <<now, db, resolved, versions, charts, rewound, stale, announced>>

-----------------------------------------------------------------------------
(* The charts.                                                             *)

\* The keys of a public chart, of a student's chart and of a teacher's overrides.
ChartKey(r) == <<IF r.phase = "own" THEN "own" ELSE r.chart, r.user, r.tok, r.cv>>

Lookup(w) ==
  /\ pc[w] = "lookup"
  /\ \E up \in BOOLEAN :
       LET r == req[w] IN
       /\ Call(up)
       /\ IF up /\ ChartKey(r) \in DOMAIN charts
             THEN GotoWith(w, "reply", [r EXCEPT !.value = charts[ChartKey(r)].value])
             ELSE IF r.phase = "token" THEN GotoWith(w, "resolve", [r EXCEPT !.phase = "hidden"])
             ELSE Goto(w, "build")
  /\ UNCHANGED <<now, db, cache, announced>>

\* get_global_chart: the roots and parents, without those hidden.
GlobalChart(r) == [by |-> r.hid.by, upto |-> r.hid.upto, accounts |-> 0]

\* get_company_chart: the accounts of the company too.
CompanyChart(r) == [by |-> r.hid.by, upto |-> r.hid.upto, accounts |-> Len(accounts)]

\* get_teacher_visibility_chart: every account, with the overrides of the teacher.
TeacherChart(r) == [by |-> r.teacher, upto |-> Len(overrides[r.teacher]), accounts |-> 0]

\* The queries of a chart that was not cached.
Build(w) ==
  LET r == req[w] IN
  /\ pc[w] = "build"
  /\ GotoWith(w, "store", [r EXCEPT !.value = CASE r.phase = "own" -> TeacherChart(r)
                                                 [] r.chart = "company" -> CompanyChart(r)
                                                 [] OTHER -> GlobalChart(r)])
  /\ UNCHANGED <<now, db, cache, left, degraded, announced>>

\* Mutant: a chart is stored for as long as a version.
Store_NoTimeout(w) ==
  LET r == req[w] IN
  /\ pc[w] = "store"
  /\ \E up \in BOOLEAN :
       /\ Call(up)
       /\ charts' = IF up THEN Put(charts, ChartKey(r), r.value, MaxTime + 1) ELSE charts
  /\ Goto(w, "reply")
  /\ UNCHANGED <<now, db, resolved, versions, hidden, rewound, stale, announced>>

\* The key is still the one of the token, although the hidden accounts may be another teacher's.
Store(w) ==
  LET r == req[w] IN
  /\ pc[w] = "store"
  /\ \E up \in BOOLEAN :
       /\ Call(up)
       /\ charts' = IF up THEN Put(charts, ChartKey(r), r.value, ChartTimeout) ELSE charts
  /\ Goto(w, "reply")
  /\ UNCHANGED <<now, db, resolved, versions, hidden, rewound, stale, announced>>

Reply(w) ==
  /\ pc[w] = "reply"
  /\ GotoWith(w, "idle", Idle)
  /\ UNCHANGED <<now, db, cache, left, degraded, announced>>

-----------------------------------------------------------------------------
(* Writers.                                                                *)

\* Mutant: the version is not bumped.
SaveOverride_NoBump(w) ==
  LET r == req[w]  t == r.teacher IN
  /\ pc[w] = "save"
  /\ announced' = [announced EXCEPT ![t] = Len(overrides[t]) + 1]
  /\ overrides' = [overrides EXCEPT ![t] = Append(@, now)]
  /\ GotoWith(w, "version", [r EXCEPT !.n = Len(overrides[t]) + 1, !.since = announced'])
  /\ UNCHANGED <<now, course, accounts, leftAt, cache, left, degraded>>

\* The override of one account; or the bulk_create and then the bulk_update of several, each
\* committed by itself.
SaveOverride(w) ==
  LET r == req[w]  t == r.teacher IN
  /\ pc[w] = "save"
  /\ overrides' = [overrides EXCEPT ![t] = Append(@, now)]
  /\ \E label \in {"add"} \cup (IF r.n = 0 THEN {"save"} ELSE {}) :
       GotoWith(w, label, [r EXCEPT !.n = Len(overrides[t]) + 1])
  /\ UNCHANGED <<now, course, accounts, leftAt, cache, left, degraded, announced>>

\* A batch that changes nothing (more) bumps the version all the same.
NothingToSave(w) ==
  /\ pc[w] = "save" /\ req[w].n = 0
  /\ Goto(w, "add")
  /\ UNCHANGED <<now, db, cache, left, degraded, announced>>

\* The end of the transaction of create_account, update_account or delete_account.
CommitAccount(w) ==
  /\ pc[w] = "commit"
  /\ accounts' = Append(accounts, now)
  /\ GotoWith(w, "idle", Idle)
  /\ UNCHANGED <<now, course, overrides, leftAt, cache, left, degraded, announced>>

-----------------------------------------------------------------------------
Step(w) ==
  \/ ReceiveChart(w) \/ ReceiveOwn(w) \/ ReceivePatch(w) \/ ReceiveWrite(w) \/ ChangeCourse(w)
  \/ GetVersion(w) \/ InitVersion(w) \/ BumpAdd(w) \/ BumpIncr(w) \/ BumpRead(w) \/ BumpSet(w)
  \/ Resolve(w) \/ LoadTeacher(w) \/ StoreTeacher(w) \/ Forget(w)
  \/ GetHidden(w) \/ LoadHidden(w) \/ StoreHidden(w)
  \/ Lookup(w) \/ Build(w) \/ Store(w) \/ Reply(w)
  \/ SaveOverride(w) \/ NothingToSave(w) \/ CommitAccount(w)
  \/ Killed(w)

Next == (\E w \in Workers : Step(w)) \/ DeleteCourse \/ Tick

Spec == Init /\ [][Next]_vars

-----------------------------------------------------------------------------
(* Properties.                                                             *)

\* What a request applies: the overrides of the chart it shows, or of the check of a write.
Applied(w) ==
  CASE pc[w] = "reply" -> [by |-> req[w].value.by, upto |-> req[w].value.upto]
    [] pc[w] = "add" /\ req[w].kind = "write" -> req[w].hid
    [] OTHER -> NothingHidden

\* bump_teacher_visibility_cache_version: with a cache that answers, a request applies every
\* override whose PATCH had bumped the version before the request began, unless the version
\* went back (it expired, or a first reader set it to 1 late) or the student's teacher changed
\* while the chart was built.
OverridesReach ==
  \A w \in Workers :
    LET a == Applied(w) IN
    (/\ a.by # None /\ ~degraded /\ a.by \notin rewound
     /\ req[w].kind = "chart" => a.by = req[w].tok[1])
      => a.upto >= req[w].since[a.by]

\* The longest that any answer may lag behind the database: hidden accounts or a teacher that a
\* slow request stored, then a chart built from them by another, then a third that is served it.
MaxAge == VisibilityTimeout + ChartTimeout + 3 * RequestTimeout

\* The timeouts bound what is stale whatever fails, dies or overlaps: an answer has every
\* override and account that is older than MaxAge, and it never applies the overrides of a
\* teacher who had stopped to be the student's longer ago than that (delete_course does not
\* invalidate the key of its students).
ChartsAgeOut ==
  \A w \in Workers :
    LET a == Applied(w)  r == req[w] IN
    /\ a.by # None =>
         \A i \in 1..Len(overrides[a.by]) : i > a.upto => now - overrides[a.by][i] <= MaxAge
    /\ pc[w] = "reply" /\ r.chart = "company" =>
         \A i \in 1..Len(accounts) : i > r.value.accounts => now - accounts[i] <= MaxAge
    /\ (pc[w] \in {"reply", "add"} /\ r.user # Staff /\ a.by # TeacherOfStudent(r.user))
         => leftAt[r.user][a.by] >= 0 /\ now - leftAt[r.user][a.by] <= MaxAge

\* enroll_student and unenroll_student: the cached teacher of a student is the teacher of their
\* course, except between the change and its invalidation, after a reader stored what it had
\* read before the change, and after the course was deleted.
CachedTeacherCurrent ==
  \A s \in Students :
    \/ resolved[s] = NoTeacher \/ resolved[s].value = TeacherOfStudent(s)
    \/ s \in stale
    \/ \E w \in Workers : pc[w] = "forget" /\ req[w].user = s
=============================================================================
