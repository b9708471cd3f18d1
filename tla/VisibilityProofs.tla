-------------------------- MODULE VisibilityProofs --------------------------
(***************************************************************************)
(* Proofs about Visibility, for any number of requests, students, teachers *)
(* and courses and whatever the timeouts: how old what an answer applies   *)
(* may be, that announced overrides reach every later answer, and that the *)
(* cached teacher of a student is current.                                 *)
(***************************************************************************)
EXTENDS Visibility, TLAPS

(***************************************************************************)
(* Types.                                                                  *)
(***************************************************************************)

Token == (Teachers \cup {None}) \X Nat
Hidden == [by : Teachers \cup {None}, upto : Nat]
Chart == [by : Teachers \cup {None}, upto : Nat, accounts : Nat]

PCs == {"idle", "version", "init", "lookup", "resolve", "enrolment", "remember", "hidden",
        "overrides", "keep", "build", "store", "reply", "save", "add", "incr", "reread", "reset",
        "commit", "forget"}

Request ==
  [kind : {"none", "chart", "own", "patch", "write", "course"}, start : Nat,
   user : Students \cup {Staff}, chart : Charts, phase : {"chart", "token", "hidden", "own"},
   cv : Nat, tok : Token, key : Token, teacher : Teachers \cup {None}, n : Nat,
   hid : Hidden, value : Chart, since : [Teachers -> Nat]]

WorkerTypes == pc \in [Workers -> PCs] /\ req \in [Workers -> Request]

DbTypes ==
  /\ now \in Nat
  /\ course \in [Students -> Courses \cup {None}]
  /\ overrides \in [Teachers -> Seq(Nat)]
  /\ accounts \in Seq(Nat)
  /\ leftAt \in [Students -> [Teachers \cup {None} -> Int]]
  /\ announced \in [Teachers -> Nat]

\* Hidden accounts are those of the teacher in their key, and so is a teacher's own chart.
CacheTypes ==
  /\ resolved \in [Students -> [value : Teachers \cup {None}, until : Nat]]
  /\ versions \in [VersionKeys -> [value : Nat, until : Nat]]
  /\ \A k \in DOMAIN hidden :
       /\ k \in Teachers \X Nat
       /\ hidden[k] \in [value : Hidden, until : Nat]
       /\ hidden[k].value.by = k[1]
  /\ \A k \in DOMAIN charts :
       /\ k \in (Charts \cup {"own"}) \X (Students \cup {Staff}) \X Token \X Nat
       /\ charts[k] \in [value : Chart, until : Nat]
       /\ k[1] = "own" => k[2] = Staff /\ charts[k].value.by = k[3][1]

\* What a request is about, at each of its labels.
Shape(label, r) ==
  /\ r.kind \in {"own", "patch"} <=> r.phase = "own"
  /\ r.phase = "own" => r.user = Staff /\ r.chart = "global" /\ r.teacher \in Teachers
  /\ r.phase = "token" => r.kind = "chart" /\ r.user \in Students
  /\ r.phase = "hidden" => r.kind \in {"chart", "write"}
  /\ r.kind = "write" => r.phase = "hidden" /\ r.chart = "company"
  /\ label \in {"version", "init"} =>
       /\ r.phase = "chart" => r.kind = "chart"
       /\ r.phase # "chart" => r.teacher \in Teachers
       /\ r.phase = "hidden" => r.user \in Students
  /\ label \in {"resolve", "enrolment", "remember"} =>
       r.user \in Students /\ r.phase \in {"token", "hidden"}
  /\ label \in {"hidden", "overrides", "keep"} =>
       r.user \in Students /\ r.phase = "hidden" /\ r.key[1] \in Teachers
  /\ label = "keep" => r.hid.by = r.key[1]
  /\ label = "lookup" => r.phase # "hidden" /\ (r.phase = "chart" => r.user = Staff)
  /\ label \in {"build", "store"} => r.phase # "token" /\ (r.phase = "chart" => r.user = Staff)
  /\ label \in {"lookup", "build", "store", "reply"} /\ r.phase = "own" => r.tok[1] = r.teacher
  /\ label \in {"store", "reply"} /\ r.phase = "own" => r.value.by = r.teacher
  /\ label = "save" => r.kind = "patch"
  /\ label \in {"add", "incr", "reread", "reset"} => r.kind \in {"patch", "write"}
  /\ label = "forget" => r.user \in Students
  /\ label \in {"lookup", "build", "store", "reply"} => r.kind \in {"chart", "own", "patch"}
  /\ r.phase # "hidden" => r.key = Public /\ r.hid = NothingHidden
  /\ label \in {"version", "init", "resolve", "enrolment", "remember", "hidden", "overrides"} =>
       r.hid = NothingHidden
  /\ r.hid.by # None => r.hid.by = r.key[1]
  /\ label \in {"save", "add", "incr", "reread", "reset"} /\ r.kind = "patch" => r.tok = Public

Shapes == \A w \in Workers : Shape(pc[w], req[w])

Types == WorkerTypes /\ DbTypes /\ CacheTypes /\ Shapes

Others(w) == \A v \in Workers \ {w} : pc'[v] = pc[v] /\ req'[v] = req[v]

\* A worker that takes a step goes on at a label, with a request.
Moves(w, label, r) == Others(w) /\ pc'[w] = label /\ req'[w] = r /\ WorkerTypes'

\* GotoWith, from the point of view of the worker and the others.
LEMMA MovesWith ==
  ASSUME WorkerTypes, NEW w \in Workers, NEW label \in PCs, NEW r \in Request, GotoWith(w, label, r)
  PROVE  Moves(w, label, r)
BY DEF WorkerTypes, GotoWith, Moves, Others

\* Goto, from the point of view of the worker and the others.
LEMMA MovesOn ==
  ASSUME WorkerTypes, NEW w \in Workers, NEW label \in PCs, Goto(w, label)
  PROVE  Moves(w, label, req[w])
BY DEF WorkerTypes, Goto, Moves, Others

\* A request that has just begun.
LEMMA IdleType == Idle \in Request /\ Public \in Token /\ NothingHidden \in Hidden /\ EmptyChart \in Chart
<1>1. Public \in Token /\ NothingHidden \in Hidden /\ EmptyChart \in Chart
  BY DEF Public, Token, NothingHidden, Hidden, EmptyChart, Chart
<1>2. [t \in Teachers |-> 0] \in [Teachers -> Nat]
  OBVIOUS
<1> HIDE DEF Public, NothingHidden, EmptyChart
<1> QED BY <1>1, <1>2 DEF Idle, Request, Charts

\* What a request writes down as it goes on, one or two of its fields at a time.
LEMMA RequestTypes ==
  \A r \in Request :
    /\ \A c \in Nat : /\ [r EXCEPT !.cv = c] \in Request
                      /\ [r EXCEPT !.cv = c, !.phase = "token"] \in Request
                      /\ [r EXCEPT !.n = c] \in Request
    /\ [r EXCEPT !.phase = "hidden"] \in Request
    /\ \A x \in Token : [r EXCEPT !.tok = x] \in Request /\ [r EXCEPT !.key = x] \in Request
    /\ \A t \in Teachers \cup {None} : [r EXCEPT !.teacher = t] \in Request
    /\ \A h \in Hidden : [r EXCEPT !.hid = h] \in Request
    /\ \A a \in Chart : [r EXCEPT !.value = a] \in Request
    /\ \A f \in [Teachers -> Nat] : [r EXCEPT !.since = f] \in Request
<1> TAKE r \in Request
<1>1. \A c \in Nat : /\ [r EXCEPT !.cv = c] \in Request
                     /\ [r EXCEPT !.cv = c, !.phase = "token"] \in Request
                     /\ [r EXCEPT !.n = c] \in Request
  BY DEF Request
<1>2. [r EXCEPT !.phase = "hidden"] \in Request
  BY DEF Request
<1>3. \A x \in Token : [r EXCEPT !.tok = x] \in Request /\ [r EXCEPT !.key = x] \in Request
  BY DEF Request
<1>4. \A t \in Teachers \cup {None} : [r EXCEPT !.teacher = t] \in Request
  BY DEF Request
<1>5. \A h \in Hidden : [r EXCEPT !.hid = h] \in Request
  BY DEF Request
<1>6. \A a \in Chart : [r EXCEPT !.value = a] \in Request
  BY DEF Request
<1>7. \A f \in [Teachers -> Nat] : [r EXCEPT !.since = f] \in Request
  BY DEF Request
<1> QED BY <1>1, <1>2, <1>3, <1>4, <1>5, <1>6, <1>7

\* The types of the initial state.
LEMMA InitialTypes == Init => Types
<1> SUFFICES ASSUME Init PROVE Types
  OBVIOUS
<1>1. WorkerTypes
  BY IdleType DEF Init, WorkerTypes, PCs
<1>2. DbTypes
  <2>1. course \in [Students -> Courses \cup {None}]
    BY StartsAssumption DEF Init
  <2> QED BY <2>1 DEF Init, DbTypes
<1>3. CacheTypes
  BY DEF Init, CacheTypes, NoTeacher, Missing
<1>4. Shapes
  <2>1. Shape("idle", Idle)
    BY DEF Shape, Idle, NothingHidden
  <2> QED BY <2>1 DEF Init, Shapes
<1> QED BY <1>1, <1>2, <1>3, <1>4 DEF Types

\* The other workers keep their shape.
LEMMA ShapesKept ==
  ASSUME Types, NEW w \in Workers, NEW label, NEW r, Moves(w, label, r), Shape(label, r)
  PROVE  WorkerTypes' /\ Shapes'
BY DEF Types, Shapes, Moves, Others

(***************************************************************************)
(* Where each step takes the worker that makes it.                         *)
(***************************************************************************)

Proceeds(w, label, r) == Moves(w, label, r) /\ Shape(label, r)

\* A request begins with nothing cached or hidden.
Begins(label, r) ==
  /\ label \in {"version", "save", "resolve", "add"}
  /\ r.start = now /\ r.since = announced
  /\ r.tok = Public /\ r.key = Public /\ r.hid = NothingHidden /\ r.value = EmptyChart /\ r.n = 0
  /\ label = "version" => r.phase \in {"chart", "own"}
  /\ label = "add" => r.user = Staff /\ r.kind = "write"

ReceivesAny(w) == ReceiveChart(w) \/ ReceiveOwn(w) \/ ReceivePatch(w) \/ ReceiveWrite(w)

\* A request that is received begins at a label of its kind.
LEMMA ReceiveMoves ==
  ASSUME Types, NEW w \in Workers, ReceivesAny(w)
  PROVE  /\ pc[w] = "idle" /\ UNCHANGED <<now, db, cache, degraded, announced>>
         /\ \E label \in PCs, r \in Request : Proceeds(w, label, r) /\ Begins(label, r)
<1>0. WorkerTypes /\ now \in Nat /\ announced \in [Teachers -> Nat]
  BY DEF Types, DbTypes
<1>1. \A q \in Request, k \in {"chart", "own", "patch", "write"} :
        [q EXCEPT !.kind = k, !.start = now, !.since = announced] \in Request
  BY <1>0 DEF Request
<1>2. CASE ReceiveChart(w)
  <2>1. PICK u \in Students \cup {Staff}, c \in Charts :
          Receive(w, "chart", "version", [Idle EXCEPT !.user = u, !.chart = c])
    BY <1>2 DEF ReceiveChart
  <2> DEFINE q == [Idle EXCEPT !.user = u, !.chart = c]
             r == [q EXCEPT !.kind = "chart", !.start = now, !.since = announced]
  <2>2. q \in Request
    BY IdleType DEF Request, Charts
  <2>3. Begins("version", r) /\ Shape("version", r)
    BY DEF Begins, Shape, Idle, NothingHidden
  <2> HIDE DEF q
  <2>4. r \in Request
    BY <1>1, <2>2
  <2>5. GotoWith(w, "version", r)
    BY <2>1 DEF Receive, q
  <2> HIDE DEF r
  <2>6. Moves(w, "version", r)
    BY <1>0, <2>4, <2>5, MovesWith DEF PCs
  <2> QED BY <2>1, <2>3, <2>4, <2>6 DEF Receive, Proceeds, PCs
<1>3. CASE ReceiveOwn(w)
  <2>1. PICK t \in Teachers : Receive(w, "own", "version", [Idle EXCEPT !.phase = "own", !.teacher = t])
    BY <1>3 DEF ReceiveOwn
  <2> DEFINE q == [Idle EXCEPT !.phase = "own", !.teacher = t]
             r == [q EXCEPT !.kind = "own", !.start = now, !.since = announced]
  <2>2. q \in Request
    BY IdleType DEF Request
  <2>3. Begins("version", r) /\ Shape("version", r)
    BY DEF Begins, Shape, Idle, NothingHidden
  <2> HIDE DEF q
  <2>4. r \in Request
    BY <1>1, <2>2
  <2>5. GotoWith(w, "version", r)
    BY <2>1 DEF Receive, q
  <2> HIDE DEF r
  <2>6. Moves(w, "version", r)
    BY <1>0, <2>4, <2>5, MovesWith DEF PCs
  <2> QED BY <2>1, <2>3, <2>4, <2>6 DEF Receive, Proceeds, PCs
<1>4. CASE ReceivePatch(w)
  <2>1. PICK t \in Teachers : Receive(w, "patch", "save", [Idle EXCEPT !.phase = "own", !.teacher = t])
    BY <1>4 DEF ReceivePatch
  <2> DEFINE q == [Idle EXCEPT !.phase = "own", !.teacher = t]
             r == [q EXCEPT !.kind = "patch", !.start = now, !.since = announced]
  <2>2. q \in Request
    BY IdleType DEF Request
  <2>3. Begins("save", r) /\ Shape("save", r)
    BY DEF Begins, Shape, Idle, NothingHidden
  <2> HIDE DEF q
  <2>4. r \in Request
    BY <1>1, <2>2
  <2>5. GotoWith(w, "save", r)
    BY <2>1 DEF Receive, q
  <2> HIDE DEF r
  <2>6. Moves(w, "save", r)
    BY <1>0, <2>4, <2>5, MovesWith DEF PCs
  <2> QED BY <2>1, <2>3, <2>4, <2>6 DEF Receive, Proceeds, PCs
<1>5. CASE ReceiveWrite(w)
  <2>1. PICK u \in Students \cup {Staff} :
          Receive(w, "write", IF u = Staff THEN "add" ELSE "resolve",
                  [Idle EXCEPT !.user = u, !.chart = "company", !.phase = "hidden"])
    BY <1>5 DEF ReceiveWrite
  <2> DEFINE q == [Idle EXCEPT !.user = u, !.chart = "company", !.phase = "hidden"]
             r == [q EXCEPT !.kind = "write", !.start = now, !.since = announced]
             label == IF u = Staff THEN "add" ELSE "resolve"
  <2>2. q \in Request
    BY IdleType DEF Request, Charts
  <2>3. Begins(label, r) /\ Shape(label, r)
    BY DEF Begins, Shape, Idle, NothingHidden
  <2> HIDE DEF q
  <2>4. r \in Request /\ label \in PCs
    BY <1>1, <2>2 DEF PCs
  <2>5. GotoWith(w, label, r)
    BY <2>1 DEF Receive, q
  <2> HIDE DEF r, label
  <2>6. Moves(w, label, r)
    BY <1>0, <2>4, <2>5, MovesWith
  <2> QED BY <2>1, <2>3, <2>4, <2>6 DEF Receive, Proceeds
<1> QED BY <1>2, <1>3, <1>4, <1>5 DEF ReceivesAny

\* The version of the chart, of the token, or of the hidden accounts.
Versioned(w, v) ==
  LET r == req[w] IN
  \/ r.phase = "chart" /\ Proceeds(w, "lookup", [r EXCEPT !.cv = v])
  \/ r.phase = "chart" /\ Proceeds(w, "resolve", [r EXCEPT !.cv = v, !.phase = "token"])
  \/ r.phase \in {"token", "own"} /\ Proceeds(w, "lookup", [r EXCEPT !.tok = <<r.teacher, v>>])
  \/ r.phase = "hidden" /\ Proceeds(w, "hidden", [r EXCEPT !.key = <<r.teacher, v>>])

\* WithVersion: a version goes into the key of the hidden accounts or of the chart.
LEMMA VersionMoves ==
  ASSUME Types, NEW w \in Workers, NEW v \in Nat, pc[w] \in {"version", "init"}, WithVersion(w, v)
  PROVE  Versioned(w, v)
<1> DEFINE r == req[w]
<1>0. /\ WorkerTypes /\ r \in Request /\ Shape(pc[w], r)
      /\ r.phase \in {"chart", "token", "hidden", "own"} /\ r.user \in Students \cup {Staff}
      /\ <<r.teacher, v>> \in Token
  BY DEF Types, WorkerTypes, Shapes, Request, Token
<1>1. CASE r.phase = "chart" /\ r.user = Staff
  <2>1. GotoWith(w, "lookup", [r EXCEPT !.cv = v])
    BY <1>1 DEF WithVersion
  <2>2. Shape("lookup", [r EXCEPT !.cv = v])
    BY <1>0, <1>1 DEF Shape, Request
  <2>3. Moves(w, "lookup", [r EXCEPT !.cv = v])
    <3> HIDE DEF r
    <3> QED BY <1>0, <2>1, RequestTypes, MovesWith DEF PCs
  <2> QED BY <1>1, <2>2, <2>3 DEF Versioned, Proceeds
<1>2. CASE r.phase = "chart" /\ r.user # Staff
  <2>1. GotoWith(w, "resolve", [r EXCEPT !.cv = v, !.phase = "token"])
    BY <1>2 DEF WithVersion
  <2>2. Shape("resolve", [r EXCEPT !.cv = v, !.phase = "token"])
    BY <1>0, <1>2 DEF Shape, Request
  <2>3. Moves(w, "resolve", [r EXCEPT !.cv = v, !.phase = "token"])
    <3> HIDE DEF r
    <3> QED BY <1>0, <2>1, RequestTypes, MovesWith DEF PCs
  <2> QED BY <1>2, <2>2, <2>3 DEF Versioned, Proceeds
<1>3. CASE r.phase \in {"token", "own"}
  <2>1. GotoWith(w, "lookup", [r EXCEPT !.tok = <<r.teacher, v>>])
    BY <1>3 DEF WithVersion
  <2>2. Shape("lookup", [r EXCEPT !.tok = <<r.teacher, v>>])
    BY <1>0, <1>3 DEF Shape, Request
  <2>3. Moves(w, "lookup", [r EXCEPT !.tok = <<r.teacher, v>>])
    <3> HIDE DEF r
    <3> QED BY <1>0, <2>1, RequestTypes, MovesWith DEF PCs
  <2> QED BY <1>3, <2>2, <2>3 DEF Versioned, Proceeds
<1>4. CASE r.phase = "hidden"
  <2>1. GotoWith(w, "hidden", [r EXCEPT !.key = <<r.teacher, v>>])
    BY <1>4 DEF WithVersion
  <2>2. Shape("hidden", [r EXCEPT !.key = <<r.teacher, v>>])
    BY <1>0, <1>4 DEF Shape, Request, NothingHidden
  <2>3. Moves(w, "hidden", [r EXCEPT !.key = <<r.teacher, v>>])
    <3> HIDE DEF r
    <3> QED BY <1>0, <2>1, RequestTypes, MovesWith DEF PCs
  <2> QED BY <1>4, <2>2, <2>3 DEF Versioned, Proceeds
<1> QED BY <1>0, <1>1, <1>2, <1>3, <1>4

\* GotoWith, with the shape that the request has at its label.
LEMMA ProceedsWith ==
  ASSUME Types, NEW w \in Workers, NEW label \in PCs, NEW r \in Request, GotoWith(w, label, r),
         Shape(label, r)
  PROVE  Proceeds(w, label, r)
BY MovesWith DEF Types, Proceeds

\* Goto, with the shape that the request has at its label.
LEMMA ProceedsOn ==
  ASSUME Types, NEW w \in Workers, NEW label \in PCs, Goto(w, label), Shape(label, req[w])
  PROVE  Proceeds(w, label, req[w])
BY MovesOn DEF Types, Proceeds

\* What is known of the request of a worker.
LEMMA RequestFacts ==
  ASSUME Types, NEW w \in Workers
  PROVE  /\ req[w] \in Request /\ Shape(pc[w], req[w]) /\ pc[w] \in PCs
         /\ req[w].phase \in {"chart", "token", "hidden", "own"}
         /\ req[w].kind \in {"none", "chart", "own", "patch", "write", "course"}
         /\ req[w].user \in Students \cup {Staff} /\ req[w].chart \in Charts
         /\ req[w].teacher \in Teachers \cup {None} /\ req[w].hid \in Hidden
         /\ req[w].tok \in Token /\ req[w].key \in Token /\ req[w].value \in Chart
         /\ req[w].since \in [Teachers -> Nat] /\ req[w].n \in Nat /\ req[w].start \in Nat
         /\ req[w].cv \in Nat
BY DEF Types, WorkerTypes, Shapes, Request

\* The hidden accounts are found: the chart is built, or the write goes on.
Hides(w, h) == \E label \in {"build", "add"} : Proceeds(w, label, [req[w] EXCEPT !.hid = h])

\* WithHidden: the hidden accounts go on to the chart or to the answer.
LEMMA HiddenMoves ==
  ASSUME Types, NEW w \in Workers, NEW h \in Hidden, req[w].phase = "hidden", WithHidden(w, h),
         h.by # None => h.by = req[w].key[1]
  PROVE  Hides(w, h)
<1> DEFINE r == req[w]
           label == IF r.kind = "chart" THEN "build" ELSE "add"
<1>0. r \in Request /\ Shape(pc[w], r) /\ r.kind \in {"chart", "write"}
  BY RequestFacts DEF Shape
<1>1. Shape(label, [r EXCEPT !.hid = h])
  BY <1>0 DEF Shape, Request
<1>2. GotoWith(w, label, [r EXCEPT !.hid = h])
  BY DEF WithHidden
<1>3. label \in PCs /\ label \in {"build", "add"}
  BY DEF PCs
<1> HIDE DEF r, label
<1>4. Proceeds(w, label, [r EXCEPT !.hid = h])
  BY <1>0, <1>1, <1>2, <1>3, RequestTypes, ProceedsWith
<1> QED BY <1>3, <1>4 DEF Hides, r

\* The teacher is found: the version of their overrides comes next, or there is none.
Teaches(w, t) ==
  \/ t # None /\ Proceeds(w, "version", [req[w] EXCEPT !.teacher = t])
  \/ t = None /\ req[w].phase = "token" /\ Proceeds(w, "lookup", [req[w] EXCEPT !.tok = Public])
  \/ t = None /\ req[w].phase = "hidden" /\ Hides(w, NothingHidden)

\* WithTeacher: the version of the teacher is next, or there is nothing to hide.
LEMMA TeacherMoves ==
  ASSUME Types, NEW w \in Workers, NEW t \in Teachers \cup {None},
         pc[w] \in {"resolve", "remember"}, WithTeacher(w, t)
  PROVE  Teaches(w, t)
<1> DEFINE r == req[w]
<1>0. r \in Request /\ Shape(pc[w], r) /\ r.user \in Students /\ r.phase \in {"token", "hidden"}
  BY RequestFacts DEF Shape
<1>1. CASE t # None
  <2>1. GotoWith(w, "version", [r EXCEPT !.teacher = t])
    BY <1>1 DEF WithTeacher
  <2>2. Shape("version", [r EXCEPT !.teacher = t])
    BY <1>0, <1>1 DEF Shape, Request
  <2> HIDE DEF r
  <2>3. Proceeds(w, "version", [r EXCEPT !.teacher = t])
    BY <1>0, <2>1, <2>2, RequestTypes, ProceedsWith DEF PCs
  <2> QED BY <1>1, <2>3 DEF Teaches, r
<1>2. CASE t = None /\ r.phase = "token"
  <2>1. GotoWith(w, "lookup", [r EXCEPT !.tok = Public])
    BY <1>2 DEF WithTeacher
  <2>2. Shape("lookup", [r EXCEPT !.tok = Public])
    BY <1>0, <1>2 DEF Shape, Request
  <2> HIDE DEF r
  <2>3. Proceeds(w, "lookup", [r EXCEPT !.tok = Public])
    BY <1>0, <2>1, <2>2, IdleType, RequestTypes, ProceedsWith DEF PCs
  <2> QED BY <1>2, <2>3 DEF Teaches, r
<1>3. CASE t = None /\ r.phase = "hidden"
  <2>1. WithHidden(w, NothingHidden)
    BY <1>3 DEF WithTeacher
  <2>2. NothingHidden \in Hidden /\ NothingHidden.by = None
    BY IdleType DEF NothingHidden
  <2> QED BY <1>3, <2>1, <2>2, HiddenMoves DEF Teaches
<1> QED BY <1>0, <1>1, <1>2, <1>3

\* The version is bumped: a PATCH is announced and goes on with the teacher's chart.
Announces(w) ==
  LET r == req[w] IN
  \/ /\ r.kind = "patch"
     /\ announced' = [announced EXCEPT ![r.teacher] = IF r.n > @ THEN r.n ELSE @]
     /\ announced' \in [Teachers -> Nat]
     /\ Proceeds(w, "version", [r EXCEPT !.since = announced'])
  \/ r.kind = "write" /\ announced' = announced /\ Proceeds(w, "commit", r)

\* Bumped: the change is announced and the request ends or bumps the next key.
LEMMA BumpedMoves ==
  ASSUME Types, NEW w \in Workers, pc[w] \in {"add", "incr", "reread", "reset"}, Bumped(w)
  PROVE  Announces(w)
<1> DEFINE r == req[w]
<1>0. r \in Request /\ Shape(pc[w], r) /\ r.kind \in {"patch", "write"} /\ r.n \in Nat
  BY RequestFacts DEF Shape
<1>1. CASE r.kind = "patch"
  <2>0. r.teacher \in Teachers /\ announced \in [Teachers -> Nat]
    BY <1>0, <1>1 DEF Shape, Types, DbTypes
  <2>1. /\ announced' = [announced EXCEPT ![r.teacher] = IF r.n > @ THEN r.n ELSE @]
        /\ GotoWith(w, "version", [r EXCEPT !.since = announced'])
    BY <1>1 DEF Bumped
  <2>2. announced' \in [Teachers -> Nat]
    BY <1>0, <2>0, <2>1
  <2>3. Shape("version", [r EXCEPT !.since = announced'])
    BY <1>0, <1>1, <2>0 DEF Shape, Request
  <2>4. [r EXCEPT !.since = announced'] \in Request
    BY <1>0, <2>2, RequestTypes
  <2> HIDE DEF r
  <2>5. Proceeds(w, "version", [r EXCEPT !.since = announced'])
    BY <2>1, <2>3, <2>4, ProceedsWith DEF PCs
  <2> QED BY <1>1, <2>1, <2>2, <2>5 DEF Announces, r
<1>2. CASE r.kind = "write"
  <2>1. Goto(w, "commit") /\ announced' = announced
    BY <1>2 DEF Bumped
  <2>2. Shape("commit", r)
    BY <1>0, <1>2 DEF Shape
  <2> QED BY <1>2, <2>1, <2>2, ProceedsOn DEF Announces, PCs
<1> QED BY <1>0, <1>1, <1>2

-----------------------------------------------------------------------------
(* The steps that read or write a version.                                 *)

\* The keys that a request reads and bumps are keys of versions.
LEMMA KeyTypes ==
  ASSUME Types, NEW w \in Workers
  PROVE  /\ pc[w] \in {"version", "init"} => VersionKey(req[w]) \in VersionKeys
         /\ pc[w] \in {"add", "incr", "reread", "reset"} => BumpKey(req[w]) \in VersionKeys
BY RequestFacts DEF Shape, VersionKey, BumpKey, VersionKeys

\* GetVersion finds a version, or goes on to set one.
LEMMA GetVersionMoves ==
  ASSUME Types, NEW w \in Workers, GetVersion(w)
  PROVE  LET found == versions[VersionKey(req[w])].value IN
         /\ pc[w] = "version" /\ UNCHANGED <<now, db, cache, announced>>
         /\ (degraded => degraded')
         /\ \/ found > 0 /\ Versioned(w, found)
            \/ Proceeds(w, "init", req[w])
<1> DEFINE found == versions[VersionKey(req[w])].value
<1>0. pc[w] = "version" /\ UNCHANGED <<now, db, cache, announced>> /\ found \in Nat
  BY KeyTypes DEF GetVersion, Types, CacheTypes
<1>1. PICK up \in BOOLEAN :
        Call(up) /\ IF up /\ found > 0 THEN WithVersion(w, found) ELSE Goto(w, "init")
  BY DEF GetVersion
<1>2. (degraded => degraded')
  BY <1>1 DEF Call
<1>3. Goto(w, "init") => Proceeds(w, "init", req[w])
  BY <1>0, RequestFacts, ProceedsOn DEF Shape, PCs
<1> HIDE DEF found
<1>4. WithVersion(w, found) => Versioned(w, found)
  BY <1>0, VersionMoves
<1> QED BY <1>0, <1>1, <1>2, <1>3, <1>4 DEF found

\* A version that is set, or a cache that did not answer.
Sets(k, v) ==
  \/ SetVersion(k, v) /\ (degraded => degraded')
  \/ degraded' /\ UNCHANGED <<versions, rewound>>

\* InitVersion sets version 1 and uses it, whether or not the call fails.
LEMMA InitVersionMoves ==
  ASSUME Types, NEW w \in Workers, InitVersion(w)
  PROVE  /\ pc[w] = "init" /\ UNCHANGED <<now, db, resolved, hidden, charts, stale, announced>>
         /\ Versioned(w, 1)
         /\ Sets(VersionKey(req[w]), 1)
<1>0. pc[w] = "init" /\ UNCHANGED <<now, db, resolved, hidden, charts, stale, announced>>
  BY DEF InitVersion
<1>1. Versioned(w, 1)
  BY <1>0, VersionMoves DEF InitVersion
<1>2. Sets(VersionKey(req[w]), 1)
  BY DEF InitVersion, Call, Sets
<1> QED BY <1>0, <1>1, <1>2

\* BumpAdd sets version 2 where there was none; otherwise it goes on to increase it.
LEMMA BumpAddMoves ==
  ASSUME Types, NEW w \in Workers, BumpAdd(w)
  PROVE  LET k == BumpKey(req[w]) IN
         /\ pc[w] = "add" /\ UNCHANGED <<now, db, resolved, hidden, charts, stale>>
         /\ \/ versions[k] = Missing /\ SetVersion(k, 2) /\ (degraded => degraded') /\ Announces(w)
            \/ /\ versions[k] # Missing \/ degraded'
               /\ (degraded => degraded')
               /\ Proceeds(w, "incr", req[w]) /\ UNCHANGED <<versions, rewound, announced>>
<1> DEFINE k == BumpKey(req[w])
<1>0. pc[w] = "add" /\ UNCHANGED <<now, db, resolved, hidden, charts, stale>>
  BY DEF BumpAdd
<1>1. PICK up \in BOOLEAN :
        /\ Call(up)
        /\ IF up /\ versions[k] = Missing
              THEN SetVersion(k, 2) /\ Bumped(w)
              ELSE Goto(w, "incr") /\ UNCHANGED <<versions, rewound, announced>>
  BY DEF BumpAdd
<1>2. CASE up /\ versions[k] = Missing
  <2>1. SetVersion(k, 2) /\ Bumped(w) /\ (degraded => degraded')
    BY <1>1, <1>2 DEF Call
  <2> QED BY <1>0, <1>2, <2>1, BumpedMoves
<1>3. CASE ~(up /\ versions[k] = Missing)
  <2>1. Goto(w, "incr") /\ UNCHANGED <<versions, rewound, announced>>
    BY <1>1, <1>3
  <2>2. (versions[k] # Missing \/ degraded') /\ (degraded => degraded')
    BY <1>1, <1>3 DEF Call
  <2>3. Proceeds(w, "incr", req[w])
    BY <1>0, <2>1, RequestFacts, ProceedsOn DEF Shape, PCs
  <2> QED BY <1>0, <2>1, <2>2, <2>3
<1> QED BY <1>2, <1>3

\* BumpIncr increases a version that is there.
LEMMA BumpIncrMoves ==
  ASSUME Types, NEW w \in Workers, BumpIncr(w)
  PROVE  LET k == BumpKey(req[w]) IN
         /\ pc[w] = "incr" /\ UNCHANGED <<now, db, resolved, hidden, charts, rewound, stale>>
         /\ (degraded => degraded')
         /\ \/ /\ versions[k] # Missing
               /\ versions' = [versions EXCEPT ![k].value = @ + 1] /\ Announces(w)
            \/ /\ versions[k] = Missing \/ degraded'
               /\ Proceeds(w, "reread", req[w]) /\ UNCHANGED <<versions, announced>>
<1> DEFINE k == BumpKey(req[w])
<1>0. pc[w] = "incr" /\ UNCHANGED <<now, db, resolved, hidden, charts, rewound, stale>>
  BY DEF BumpIncr
<1>1. PICK up \in BOOLEAN :
        /\ Call(up)
        /\ IF up /\ versions[k] # Missing
              THEN versions' = [versions EXCEPT ![k].value = @ + 1] /\ Bumped(w)
              ELSE Goto(w, "reread") /\ UNCHANGED <<versions, announced>>
  BY DEF BumpIncr
<1>2. CASE up /\ versions[k] # Missing
  <2>1. versions' = [versions EXCEPT ![k].value = @ + 1] /\ Bumped(w) /\ (degraded => degraded')
    BY <1>1, <1>2 DEF Call
  <2> QED BY <1>0, <1>2, <2>1, BumpedMoves
<1>3. CASE ~(up /\ versions[k] # Missing)
  <2>1. Goto(w, "reread") /\ UNCHANGED <<versions, announced>>
    BY <1>1, <1>3
  <2>2. (versions[k] = Missing \/ degraded') /\ (degraded => degraded')
    BY <1>1, <1>3 DEF Call
  <2>3. Proceeds(w, "reread", req[w])
    BY <1>0, <2>1, RequestFacts, ProceedsOn DEF Shape, PCs
  <2> QED BY <1>0, <2>1, <2>2, <2>3
<1> QED BY <1>2, <1>3

\* BumpRead falls back to a value of its own.
LEMMA BumpReadMoves ==
  ASSUME Types, NEW w \in Workers, BumpRead(w)
  PROVE  /\ pc[w] = "reread" /\ UNCHANGED <<now, db, cache, announced>> /\ (degraded => degraded')
         /\ \E c \in Nat : Proceeds(w, "reset", [req[w] EXCEPT !.cv = c])
<1> DEFINE r == req[w]
           found == versions[BumpKey(r)].value
<1>0. pc[w] = "reread" /\ UNCHANGED <<now, db, cache, announced>> /\ found \in Nat
  BY KeyTypes DEF BumpRead, Types, CacheTypes
<1>1. PICK up \in BOOLEAN :
        Call(up) /\ GotoWith(w, "reset", [r EXCEPT !.cv = IF up /\ found > 0 THEN found + 1 ELSE 2])
  BY DEF BumpRead
<1> DEFINE c == IF up /\ found > 0 THEN found + 1 ELSE 2
<1>2. c \in Nat
  BY <1>0
<1>3. GotoWith(w, "reset", [r EXCEPT !.cv = c]) /\ (degraded => degraded')
  BY <1>1 DEF Call
<1>4. r \in Request /\ Shape("reset", r)
  BY <1>0, RequestFacts DEF Shape
<1> HIDE DEF c, found, r
<1>5. Shape("reset", [r EXCEPT !.cv = c])
  BY <1>4 DEF Shape, Request
<1>6. Proceeds(w, "reset", [r EXCEPT !.cv = c])
  BY <1>2, <1>3, <1>4, <1>5, RequestTypes, ProceedsWith DEF PCs
<1> QED BY <1>0, <1>2, <1>3, <1>6 DEF r

\* BumpSet stores that value, if the call does not fail.
LEMMA BumpSetMoves ==
  ASSUME Types, NEW w \in Workers, BumpSet(w)
  PROVE  /\ pc[w] = "reset" /\ UNCHANGED <<now, db, resolved, hidden, charts, stale>>
         /\ Announces(w) /\ Sets(BumpKey(req[w]), req[w].cv)
<1>0. pc[w] = "reset" /\ UNCHANGED <<now, db, resolved, hidden, charts, stale>>
  BY DEF BumpSet
<1>1. Announces(w)
  BY <1>0, BumpedMoves DEF BumpSet
<1>2. Sets(BumpKey(req[w]), req[w].cv)
  BY DEF BumpSet, Call, Sets
<1> QED BY <1>0, <1>1, <1>2

-----------------------------------------------------------------------------
(* The steps about teachers and hidden accounts.                           *)

\* The teacher of a student is a teacher or nobody.
LEMMA TeacherType ==
  ASSUME Types, NEW s \in Students
  PROVE  TeacherOfStudent(s) \in Teachers \cup {None}
BY CoursesAssumption DEF Types, DbTypes, TeacherOfStudent

\* A worker without a request has the empty one.
LEMMA IdleShape == Shape("idle", Idle)
BY DEF Shape, Idle, NothingHidden

\* A request that ends leaves the empty one.
LEMMA EndMoves ==
  ASSUME Types, NEW w \in Workers, GotoWith(w, "idle", Idle)
  PROVE  Proceeds(w, "idle", Idle)
BY IdleType, IdleShape, ProceedsWith DEF PCs

\* Resolve finds the teacher in the cache, or goes on to the database.
LEMMA ResolveMoves ==
  ASSUME Types, NEW w \in Workers, Resolve(w)
  PROVE  LET found == resolved[req[w].user] IN
         /\ pc[w] = "resolve" /\ UNCHANGED <<now, db, cache, announced>> /\ (degraded => degraded')
         /\ \/ found # NoTeacher /\ Teaches(w, found.value)
            \/ Proceeds(w, "enrolment", req[w])
<1> DEFINE found == resolved[req[w].user]
<1>0. pc[w] = "resolve" /\ UNCHANGED <<now, db, cache, announced>>
  BY DEF Resolve
<1>1. req[w].user \in Students
  BY <1>0, RequestFacts DEF Shape
<1>2. found.value \in Teachers \cup {None}
  BY <1>1 DEF Types, CacheTypes
<1>3. PICK up \in BOOLEAN :
        /\ Call(up)
        /\ IF up /\ found # NoTeacher THEN WithTeacher(w, found.value) ELSE Goto(w, "enrolment")
  BY DEF Resolve
<1>4. degraded => degraded'
  BY <1>3 DEF Call
<1>5. Goto(w, "enrolment") => Proceeds(w, "enrolment", req[w])
  BY <1>0, RequestFacts, ProceedsOn DEF Shape, PCs
<1> HIDE DEF found
<1>6. WithTeacher(w, found.value) => Teaches(w, found.value)
  BY <1>0, <1>2, TeacherMoves
<1> QED BY <1>0, <1>3, <1>4, <1>5, <1>6 DEF found

\* LoadTeacher reads the enrolment of the student.
LEMMA LoadTeacherMoves ==
  ASSUME Types, NEW w \in Workers, LoadTeacher(w)
  PROVE  /\ pc[w] = "enrolment" /\ UNCHANGED <<now, db, cache, degraded, announced>>
         /\ req[w].user \in Students
         /\ Proceeds(w, "remember", [req[w] EXCEPT !.teacher = TeacherOfStudent(req[w].user)])
<1> DEFINE r == req[w]
           t == TeacherOfStudent(r.user)
<1>0. pc[w] = "enrolment" /\ UNCHANGED <<now, db, cache, degraded, announced>>
      /\ GotoWith(w, "remember", [r EXCEPT !.teacher = t])
  BY DEF LoadTeacher
<1>1. r \in Request /\ r.user \in Students /\ Shape("enrolment", r) /\ r.phase \in {"token", "hidden"}
  BY <1>0, RequestFacts DEF Shape
<1>2. t \in Teachers \cup {None}
  BY <1>1, TeacherType
<1> HIDE DEF t, r
<1>3. Shape("remember", [r EXCEPT !.teacher = t])
  BY <1>1, <1>2 DEF Shape, Request
<1>4. Proceeds(w, "remember", [r EXCEPT !.teacher = t])
  BY <1>0, <1>1, <1>2, <1>3, RequestTypes, ProceedsWith DEF PCs
<1> QED BY <1>0, <1>1, <1>4 DEF r, t

\* StoreTeacher caches the teacher, stale or not, and goes on with it.
LEMMA StoreTeacherMoves ==
  ASSUME Types, NEW w \in Workers, StoreTeacher(w)
  PROVE  LET s == req[w].user
             t == req[w].teacher
         IN
         /\ pc[w] = "remember" /\ UNCHANGED <<now, db, versions, hidden, charts, rewound, announced>>
         /\ s \in Students /\ t \in Teachers \cup {None} /\ (degraded => degraded')
         /\ Teaches(w, t)
         /\ \/ /\ resolved' = [resolved EXCEPT ![s] = [value |-> t, until |-> now + VisibilityTimeout]]
               /\ stale' = IF t = TeacherOfStudent(s) THEN stale \ {s} ELSE stale \cup {s}
            \/ resolved' = resolved /\ stale' = stale
<1> DEFINE s == req[w].user
           t == req[w].teacher
<1>0. /\ pc[w] = "remember" /\ UNCHANGED <<now, db, versions, hidden, charts, rewound, announced>>
      /\ WithTeacher(w, t)
  BY DEF StoreTeacher
<1>1. s \in Students /\ t \in Teachers \cup {None} /\ DOMAIN resolved = Students
  BY <1>0, RequestFacts DEF Shape, Types, CacheTypes
<1>2. Teaches(w, t)
  BY <1>0, <1>1, TeacherMoves
<1>3. PICK up \in BOOLEAN :
        /\ Call(up)
        /\ resolved' = IF up THEN Put(resolved, s, t, VisibilityTimeout) ELSE resolved
        /\ stale' = CASE up /\ t # TeacherOfStudent(s) -> stale \cup {s}
                      [] up /\ t = TeacherOfStudent(s) -> stale \ {s}
                      [] ~up -> stale
  BY DEF StoreTeacher
<1>4. degraded => degraded'
  BY <1>3 DEF Call
<1>5. Put(resolved, s, t, VisibilityTimeout)
        = [resolved EXCEPT ![s] = [value |-> t, until |-> now + VisibilityTimeout]]
  <2>1. DOMAIN resolved \cup {s} = Students
    BY <1>1
  <2>2. resolved = [j \in Students |-> resolved[j]]
    BY DEF Types, CacheTypes
  <2> QED BY <1>1, <2>1, <2>2 DEF Put
<1>6. CASE up
  BY <1>0, <1>1, <1>2, <1>3, <1>4, <1>5, <1>6
<1>7. CASE ~up
  BY <1>0, <1>1, <1>2, <1>3, <1>4, <1>7
<1> QED BY <1>6, <1>7

\* Forget removes the cached teacher, if the call does not fail.
LEMMA ForgetMoves ==
  ASSUME Types, NEW w \in Workers, Forget(w)
  PROVE  LET s == req[w].user IN
         /\ pc[w] = "forget" /\ UNCHANGED <<now, db, versions, hidden, charts, rewound, announced>>
         /\ s \in Students /\ (degraded => degraded')
         /\ Proceeds(w, "idle", Idle)
         /\ \/ resolved' = [resolved EXCEPT ![s] = NoTeacher] /\ stale' = stale \ {s}
            \/ resolved' = resolved /\ stale' = stale \cup {s}
<1> DEFINE s == req[w].user
<1>0. /\ pc[w] = "forget" /\ UNCHANGED <<now, db, versions, hidden, charts, rewound, announced>>
      /\ GotoWith(w, "idle", Idle)
  BY DEF Forget
<1>1. s \in Students
  BY <1>0, RequestFacts DEF Shape
<1>2. /\ (degraded => degraded')
      /\ \/ resolved' = [resolved EXCEPT ![s] = NoTeacher] /\ stale' = stale \ {s}
         \/ resolved' = resolved /\ stale' = stale \cup {s}
  BY DEF Forget, Call
<1>3. Proceeds(w, "idle", Idle)
  BY <1>0, EndMoves
<1> QED BY <1>0, <1>1, <1>2, <1>3

\* GetHidden finds the hidden accounts of the version, or goes on to the database.
LEMMA GetHiddenMoves ==
  ASSUME Types, NEW w \in Workers, GetHidden(w)
  PROVE  LET k == req[w].key IN
         /\ pc[w] = "hidden" /\ UNCHANGED <<now, db, cache, announced>> /\ (degraded => degraded')
         /\ \/ k \in DOMAIN hidden /\ Hides(w, hidden[k].value)
            \/ Proceeds(w, "overrides", req[w])
<1> DEFINE k == req[w].key
<1>0. pc[w] = "hidden" /\ UNCHANGED <<now, db, cache, announced>> /\ req[w].phase = "hidden"
  BY RequestFacts DEF GetHidden, Shape
<1>1. k \in DOMAIN hidden => hidden[k].value \in Hidden /\ hidden[k].value.by = k[1]
  BY DEF Types, CacheTypes
<1>2. PICK up \in BOOLEAN :
        /\ Call(up)
        /\ IF up /\ k \in DOMAIN hidden THEN WithHidden(w, hidden[k].value) ELSE Goto(w, "overrides")
  BY DEF GetHidden
<1>3. degraded => degraded'
  BY <1>2 DEF Call
<1>4. Goto(w, "overrides") => Proceeds(w, "overrides", req[w])
  BY <1>0, RequestFacts, ProceedsOn DEF Shape, PCs
<1> HIDE DEF k
<1>5. k \in DOMAIN hidden /\ WithHidden(w, hidden[k].value) => Hides(w, hidden[k].value)
  BY <1>0, <1>1, HiddenMoves DEF k
<1> QED BY <1>0, <1>2, <1>3, <1>4, <1>5 DEF k

\* LoadHidden reads all overrides of the teacher.
LEMMA LoadHiddenMoves ==
  ASSUME Types, NEW w \in Workers, LoadHidden(w)
  PROVE  LET t == req[w].key[1]
             h == [by |-> t, upto |-> Len(overrides[t])]
         IN
         /\ pc[w] = "overrides" /\ UNCHANGED <<now, db, cache, degraded, announced>>
         /\ t \in Teachers /\ h \in Hidden
         /\ Proceeds(w, "keep", [req[w] EXCEPT !.hid = h])
<1> DEFINE r == req[w]
           t == r.key[1]
           h == [by |-> t, upto |-> Len(overrides[t])]
<1>0. /\ pc[w] = "overrides" /\ UNCHANGED <<now, db, cache, degraded, announced>>
      /\ GotoWith(w, "keep", [r EXCEPT !.hid = h])
  BY DEF LoadHidden
<1>1. r \in Request /\ t \in Teachers /\ Shape("overrides", r)
  BY <1>0, RequestFacts DEF Shape
<1>2. h \in Hidden /\ h.by = t
  BY <1>1 DEF Types, DbTypes, Hidden
<1> HIDE DEF h
<1>3. Shape("keep", [r EXCEPT !.hid = h])
  BY <1>1, <1>2 DEF Shape, Request
<1> HIDE DEF t, r
<1>4. Proceeds(w, "keep", [r EXCEPT !.hid = h])
  BY <1>0, <1>1, <1>2, <1>3, RequestTypes, ProceedsWith DEF PCs
<1> QED BY <1>0, <1>1, <1>2, <1>4 DEF r, t, h

\* StoreHidden caches them under the version that was read before.
LEMMA StoreHiddenMoves ==
  ASSUME Types, NEW w \in Workers, StoreHidden(w)
  PROVE  LET r == req[w] IN
         /\ pc[w] = "keep" /\ UNCHANGED <<now, db, resolved, versions, charts, rewound, stale, announced>>
         /\ (degraded => degraded')
         /\ Hides(w, r.hid)
         /\ \/ hidden' = Put(hidden, r.key, r.hid, VisibilityTimeout)
            \/ hidden' = hidden
<1>0. /\ pc[w] = "keep" /\ UNCHANGED <<now, db, resolved, versions, charts, rewound, stale, announced>>
      /\ WithHidden(w, req[w].hid)
  BY DEF StoreHidden
<1>1. req[w].phase = "hidden" /\ req[w].hid \in Hidden /\ req[w].hid.by = req[w].key[1]
  BY <1>0, RequestFacts DEF Shape
<1>2. Hides(w, req[w].hid)
  BY <1>0, <1>1, HiddenMoves
<1>3. /\ (degraded => degraded')
      /\ hidden' = Put(hidden, req[w].key, req[w].hid, VisibilityTimeout) \/ hidden' = hidden
  BY DEF StoreHidden, Call
<1> QED BY <1>0, <1>2, <1>3

-----------------------------------------------------------------------------
(* The steps about charts, and the writers.                                *)

\* Lookup finds a chart under its key, or goes on to build one.
LEMMA LookupMoves ==
  ASSUME Types, NEW w \in Workers, Lookup(w)
  PROVE  LET r == req[w]
             k == ChartKey(r)
         IN
         /\ pc[w] = "lookup" /\ UNCHANGED <<now, db, cache, announced>> /\ (degraded => degraded')
         /\ \/ k \in DOMAIN charts /\ Proceeds(w, "reply", [r EXCEPT !.value = charts[k].value])
            \/ r.phase = "token" /\ Proceeds(w, "resolve", [r EXCEPT !.phase = "hidden"])
            \/ r.phase # "token" /\ Proceeds(w, "build", r)
<1> DEFINE r == req[w]
           k == ChartKey(r)
<1>0. pc[w] = "lookup" /\ UNCHANGED <<now, db, cache, announced>>
  BY DEF Lookup
<1>1. r \in Request /\ Shape("lookup", r)
  BY <1>0, RequestFacts
<1>2. k \in DOMAIN charts => charts[k].value \in Chart
  BY DEF Types, CacheTypes
<1>3. k \in DOMAIN charts /\ r.phase = "own" => charts[k].value.by = r.teacher
  <2>1. r.phase = "own" => k[1] = "own" /\ k[3] = r.tok /\ r.tok[1] = r.teacher
    BY <1>1 DEF ChartKey, Shape
  <2> QED BY <2>1 DEF Types, CacheTypes
<1>4. PICK up \in BOOLEAN :
        /\ Call(up)
        /\ IF up /\ k \in DOMAIN charts
              THEN GotoWith(w, "reply", [r EXCEPT !.value = charts[k].value])
              ELSE IF r.phase = "token" THEN GotoWith(w, "resolve", [r EXCEPT !.phase = "hidden"])
              ELSE Goto(w, "build")
  BY DEF Lookup
<1>5. degraded => degraded'
  BY <1>4 DEF Call
<1> DEFINE a == charts[k].value
<1>6. CASE up /\ k \in DOMAIN charts
  <2>0. a \in Chart /\ (r.phase = "own" => a.by = r.teacher)
    BY <1>2, <1>3, <1>6
  <2>1. GotoWith(w, "reply", [r EXCEPT !.value = a])
    BY <1>4, <1>6
  <2> HIDE DEF a
  <2>2. Shape("reply", [r EXCEPT !.value = a])
    BY <1>1, <2>0 DEF Shape, Request
  <2> HIDE DEF r
  <2>3. Proceeds(w, "reply", [r EXCEPT !.value = a])
    BY <1>1, <2>0, <2>1, <2>2, RequestTypes, ProceedsWith DEF PCs
  <2> QED BY <1>0, <1>5, <1>6, <2>3 DEF a, r
<1>7. CASE ~(up /\ k \in DOMAIN charts) /\ r.phase = "token"
  <2>1. GotoWith(w, "resolve", [r EXCEPT !.phase = "hidden"])
    BY <1>4, <1>7
  <2>2. Shape("resolve", [r EXCEPT !.phase = "hidden"])
    BY <1>1, <1>7 DEF Shape, Request
  <2> HIDE DEF r
  <2>3. Proceeds(w, "resolve", [r EXCEPT !.phase = "hidden"])
    BY <1>1, <2>1, <2>2, RequestTypes, ProceedsWith DEF PCs
  <2> QED BY <1>0, <1>5, <1>7, <2>3 DEF r
<1>8. CASE ~(up /\ k \in DOMAIN charts) /\ r.phase # "token"
  <2>1. Goto(w, "build")
    BY <1>4, <1>8
  <2>2. Shape("build", r)
    BY <1>1, <1>8 DEF Shape
  <2>3. Proceeds(w, "build", r)
    BY <2>1, <2>2, ProceedsOn DEF PCs
  <2> QED BY <1>0, <1>5, <1>8, <2>3
<1> QED BY <1>6, <1>7, <1>8

\* A chart applies the hidden accounts of its request, a teacher's own chart every override.
Built(r, a) ==
  /\ a \in Chart
  /\ r.phase = "own" => a.by = r.teacher /\ a.upto = Len(overrides[r.teacher])
  /\ r.phase # "own" => a.by = r.hid.by /\ a.upto = r.hid.upto
  /\ r.chart = "company" => a.accounts = Len(accounts)

\* Build puts the chart together from the accounts and the hidden ones.
LEMMA BuildMoves ==
  ASSUME Types, NEW w \in Workers, Build(w)
  PROVE  /\ pc[w] = "build" /\ UNCHANGED <<now, db, cache, degraded, announced>>
         /\ \E a \in Chart : Built(req[w], a) /\ Proceeds(w, "store", [req[w] EXCEPT !.value = a])
<1> DEFINE r == req[w]
           a == CASE r.phase = "own" -> TeacherChart(r)
                  [] r.chart = "company" -> CompanyChart(r)
                  [] OTHER -> GlobalChart(r)
<1>0. /\ pc[w] = "build" /\ UNCHANGED <<now, db, cache, degraded, announced>>
      /\ GotoWith(w, "store", [r EXCEPT !.value = a])
  BY DEF Build
<1>1. r \in Request /\ Shape("build", r) /\ r.hid \in Hidden
  BY <1>0, RequestFacts
<1>2. Len(accounts) \in Nat /\ (r.phase = "own" => r.teacher \in Teachers /\ Len(overrides[r.teacher]) \in Nat)
  BY <1>1 DEF Types, DbTypes, Shape
<1>3. Built(r, a)
  <2>1. CASE r.phase = "own"
    <3>1. a = TeacherChart(r) /\ r.chart = "global" /\ r.teacher \in Teachers
      BY <1>1, <2>1 DEF Shape
    <3> QED BY <1>2, <2>1, <3>1 DEF Built, TeacherChart, Chart
  <2>2. CASE r.phase # "own" /\ r.chart = "company"
    <3>1. a = CompanyChart(r)
      BY <2>2
    <3> QED BY <1>1, <1>2, <2>2, <3>1 DEF Built, CompanyChart, Chart, Hidden
  <2>3. CASE r.phase # "own" /\ r.chart # "company"
    <3>1. a = GlobalChart(r)
      BY <2>3
    <3> QED BY <1>1, <1>2, <2>3, <3>1 DEF Built, GlobalChart, Chart, Hidden
  <2> QED BY <2>1, <2>2, <2>3
<1> HIDE DEF a
<1>4. a \in Chart /\ (r.phase = "own" => a.by = r.teacher)
  BY <1>3 DEF Built
<1>5. Shape("store", [r EXCEPT !.value = a])
  BY <1>1, <1>4 DEF Shape, Request
<1> HIDE DEF r
<1>6. Proceeds(w, "store", [r EXCEPT !.value = a])
  BY <1>0, <1>1, <1>4, <1>5, RequestTypes, ProceedsWith DEF PCs
<1> QED BY <1>0, <1>3, <1>4, <1>6 DEF r

\* Store caches the chart under the key that was read before.
LEMMA StoreMoves ==
  ASSUME Types, NEW w \in Workers, Store(w)
  PROVE  LET r == req[w] IN
         /\ pc[w] = "store" /\ UNCHANGED <<now, db, resolved, versions, hidden, rewound, stale, announced>>
         /\ (degraded => degraded')
         /\ Proceeds(w, "reply", r)
         /\ charts' = Put(charts, ChartKey(r), r.value, ChartTimeout) \/ charts' = charts
<1>0. /\ pc[w] = "store" /\ UNCHANGED <<now, db, resolved, versions, hidden, rewound, stale, announced>>
      /\ Goto(w, "reply")
  BY DEF Store
<1>1. /\ (degraded => degraded')
      /\ charts' = Put(charts, ChartKey(req[w]), req[w].value, ChartTimeout) \/ charts' = charts
  BY DEF Store, Call
<1>2. Shape("reply", req[w])
  BY <1>0, RequestFacts DEF Shape
<1>3. Proceeds(w, "reply", req[w])
  BY <1>0, <1>2, ProceedsOn DEF PCs
<1> QED BY <1>0, <1>1, <1>3

\* SaveOverride commits a change of the teacher.
LEMMA SaveOverrideMoves ==
  ASSUME Types, NEW w \in Workers, SaveOverride(w)
  PROVE  LET r == req[w]
             t == r.teacher
         IN
         /\ pc[w] = "save" /\ UNCHANGED <<now, course, accounts, leftAt, cache, degraded, announced>>
         /\ t \in Teachers /\ r.kind = "patch" /\ Len(overrides[t]) \in Nat
         /\ overrides' = [overrides EXCEPT ![t] = Append(@, now)]
         /\ \E label \in {"add", "save"} : Proceeds(w, label, [r EXCEPT !.n = Len(overrides[t]) + 1])
<1> DEFINE r == req[w]
           t == r.teacher
           n == Len(overrides[t]) + 1
<1>0. /\ pc[w] = "save" /\ UNCHANGED <<now, course, accounts, leftAt, cache, degraded, announced>>
      /\ overrides' = [overrides EXCEPT ![t] = Append(@, now)]
  BY DEF SaveOverride
<1>1. PICK label \in {"add", "save"} : GotoWith(w, label, [r EXCEPT !.n = n])
  BY DEF SaveOverride
<1>2. r \in Request /\ t \in Teachers /\ Shape("save", r) /\ r.kind = "patch"
  BY <1>0, RequestFacts DEF Shape
<1>3. n \in Nat /\ Len(overrides[t]) \in Nat
  BY <1>2 DEF Types, DbTypes
<1> HIDE DEF n
<1>4. Shape(label, [r EXCEPT !.n = n])
  BY <1>2 DEF Shape, Request
<1> HIDE DEF r, t
<1>5. Proceeds(w, label, [r EXCEPT !.n = n])
  BY <1>1, <1>2, <1>3, <1>4, RequestTypes, ProceedsWith DEF PCs
<1> QED BY <1>0, <1>2, <1>3, <1>5 DEF n, r, t

\* A PATCH without changes bumps all the same.
LEMMA NothingToSaveMoves ==
  ASSUME Types, NEW w \in Workers, NothingToSave(w)
  PROVE  /\ pc[w] = "save" /\ UNCHANGED <<now, db, cache, degraded, announced>>
         /\ Proceeds(w, "add", req[w])
<1>1. pc[w] = "save" /\ Goto(w, "add") /\ UNCHANGED <<now, db, cache, degraded, announced>>
  BY DEF NothingToSave
<1>2. Shape("add", req[w])
  BY <1>1, RequestFacts DEF Shape
<1> QED BY <1>1, <1>2, ProceedsOn DEF PCs

\* A student that enrols or leaves: the request that forgets the cached teacher has begun.
LEMMA ChangeCourseMoves ==
  ASSUME Types, NEW w \in Workers, ChangeCourse(w)
  PROVE  /\ pc[w] = "idle" /\ UNCHANGED <<now, overrides, accounts, cache, degraded, announced>>
         /\ \E s \in Students, k \in Courses \cup {None}, r \in Request :
              /\ course' = [course EXCEPT ![s] = k]
              /\ leftAt' = [leftAt EXCEPT ![s][TeacherOfStudent(s)] = now]
              /\ Proceeds(w, "forget", r) /\ r.user = s
              /\ r = [Idle EXCEPT !.kind = "course", !.start = now, !.user = s]
<1>1. pc[w] = "idle" /\ UNCHANGED <<now, overrides, accounts, cache, degraded, announced>>
  BY DEF ChangeCourse
<1>2. PICK s \in Students, k \in Courses \cup {None} :
        /\ course' = [course EXCEPT ![s] = k]
        /\ leftAt' = [leftAt EXCEPT ![s][TeacherOfStudent(s)] = now]
        /\ GotoWith(w, "forget", [Idle EXCEPT !.kind = "course", !.start = now, !.user = s])
  BY DEF ChangeCourse, Leaves
<1> DEFINE r == [Idle EXCEPT !.kind = "course", !.start = now, !.user = s]
<1>3. r \in Request
  BY IdleType DEF Request, Types, DbTypes
<1>4. Shape("forget", r) /\ r.user = s
  BY DEF Shape, Idle, NothingHidden
<1> HIDE DEF r
<1>5. Proceeds(w, "forget", r)
  BY <1>2, <1>3, <1>4, ProceedsWith DEF PCs, r
<1> QED BY <1>1, <1>2, <1>3, <1>4, <1>5 DEF r

\* A request ends: it replies, commits its account, or is killed.
Ends(w) == Reply(w) \/ CommitAccount(w) \/ Killed(w)

\* The steps that end a request.
LEMMA EndsMoves ==
  ASSUME Types, NEW w \in Workers, Ends(w)
  PROVE  /\ Proceeds(w, "idle", Idle)
         /\ UNCHANGED <<now, course, overrides, leftAt, resolved, versions, hidden, charts, rewound,
                        degraded, announced>>
         /\ accounts' = accounts \/ accounts' = Append(accounts, now)
<1>1. GotoWith(w, "idle", Idle)
  BY DEF Ends, Reply, CommitAccount, Killed
<1>2. /\ UNCHANGED <<now, course, overrides, leftAt, resolved, versions, hidden, charts, rewound,
                     degraded, announced>>
      /\ accounts' = accounts \/ accounts' = Append(accounts, now)
  BY DEF Ends, Reply, CommitAccount, Killed, db, cache
<1> QED BY <1>1, <1>2, EndMoves

-----------------------------------------------------------------------------
(* Types are invariant.                                                    *)

\* The steps of a worker, by what they change.
LEMMA StepCases ==
  ASSUME NEW w \in Workers, Step(w)
  PROVE  \/ ReceivesAny(w) \/ ChangeCourse(w)
         \/ GetVersion(w) \/ InitVersion(w) \/ BumpAdd(w) \/ BumpIncr(w) \/ BumpRead(w) \/ BumpSet(w)
         \/ Resolve(w) \/ LoadTeacher(w) \/ StoreTeacher(w) \/ Forget(w)
         \/ GetHidden(w) \/ LoadHidden(w) \/ StoreHidden(w)
         \/ Lookup(w) \/ Build(w) \/ Store(w) \/ Ends(w)
         \/ SaveOverride(w) \/ NothingToSave(w)
BY DEF Step, ReceivesAny, Ends

\* Every step of a worker leaves its request in the shape of its label.
LEMMA StepProceeds ==
  ASSUME Types, NEW w \in Workers, Step(w)
  PROVE  \E label, r : Proceeds(w, label, r)
<1>1. \A v : Versioned(w, v) => \E label, r : Proceeds(w, label, r)
  BY DEF Versioned
<1>2. \A h : Hides(w, h) => \E label, r : Proceeds(w, label, r)
  BY DEF Hides
<1>3. \A t : Teaches(w, t) => \E label, r : Proceeds(w, label, r)
  BY <1>2 DEF Teaches
<1>4. Announces(w) => \E label, r : Proceeds(w, label, r)
  BY DEF Announces
<1>5. CASE \/ GetVersion(w) \/ InitVersion(w) \/ BumpAdd(w) \/ BumpIncr(w) \/ BumpRead(w) \/ BumpSet(w)
  BY <1>1, <1>4, <1>5, GetVersionMoves, InitVersionMoves, BumpAddMoves, BumpIncrMoves, BumpReadMoves,
     BumpSetMoves
<1>6. CASE Resolve(w) \/ LoadTeacher(w) \/ StoreTeacher(w) \/ Forget(w)
  BY <1>3, <1>6, ResolveMoves, LoadTeacherMoves, StoreTeacherMoves, ForgetMoves
<1>7. CASE GetHidden(w) \/ LoadHidden(w) \/ StoreHidden(w)
  BY <1>2, <1>7, GetHiddenMoves, LoadHiddenMoves, StoreHiddenMoves
<1>8. CASE Lookup(w) \/ Build(w) \/ Store(w)
  BY <1>8, LookupMoves, BuildMoves, StoreMoves
<1>9. CASE ReceivesAny(w) \/ ChangeCourse(w) \/ Ends(w) \/ SaveOverride(w) \/ NothingToSave(w)
  BY <1>9, ReceiveMoves, ChangeCourseMoves, EndsMoves, SaveOverrideMoves, NothingToSaveMoves
<1> QED BY <1>5, <1>6, <1>7, <1>8, <1>9, StepCases

\* Setting a version keeps the type of the versions.
LEMMA VersionTypes ==
  ASSUME Types, NEW k \in VersionKeys, NEW v \in Nat, SetVersion(k, v)
  PROVE  versions' \in [VersionKeys -> [value : Nat, until : Nat]]
BY TimeoutsAssumption DEF Types, CacheTypes, DbTypes, SetVersion

\* What each step of a worker may do to the cache.
LEMMA CacheStep ==
  ASSUME Types, NEW w \in Workers, Step(w)
  PROVE  /\ versions' \in [VersionKeys -> [value : Nat, until : Nat]]
         /\ \/ resolved' = resolved
            \/ StoreTeacher(w)
            \/ Forget(w)
         /\ \/ hidden' = hidden
            \/ pc[w] = "keep" /\ hidden' = Put(hidden, req[w].key, req[w].hid, VisibilityTimeout)
         /\ \/ charts' = charts
            \/ pc[w] = "store" /\ charts' = Put(charts, ChartKey(req[w]), req[w].value, ChartTimeout)
<1>1. CASE UNCHANGED <<versions, resolved, hidden, charts>>
  BY <1>1 DEF Types, CacheTypes
<1>2. CASE InitVersion(w)
  BY <1>2, InitVersionMoves, KeyTypes, VersionTypes DEF Sets, Types, CacheTypes
<1>3. CASE BumpAdd(w)
  BY <1>3, BumpAddMoves, KeyTypes, VersionTypes DEF Types, CacheTypes
<1>4. CASE BumpIncr(w)
  <2> DEFINE k == BumpKey(req[w])
  <2>1. k \in VersionKeys /\ versions \in [VersionKeys -> [value : Nat, until : Nat]]
    BY <1>4, BumpIncrMoves, KeyTypes DEF Types, CacheTypes
  <2>2. [versions EXCEPT ![k].value = @ + 1] \in [VersionKeys -> [value : Nat, until : Nat]]
    BY <2>1
  <2> QED BY <1>4, <2>1, <2>2, BumpIncrMoves
<1>5. CASE BumpSet(w)
  <2>1. req[w].cv \in Nat
    BY RequestFacts
  <2> QED BY <1>5, <2>1, BumpSetMoves, KeyTypes, VersionTypes DEF Sets, Types, CacheTypes
<1>6. CASE StoreTeacher(w)
  BY <1>6, StoreTeacherMoves DEF Types, CacheTypes
<1>7. CASE Forget(w)
  BY <1>7, ForgetMoves DEF Types, CacheTypes
<1>8. CASE StoreHidden(w)
  BY <1>8, StoreHiddenMoves DEF Types, CacheTypes
<1>9. CASE Store(w)
  BY <1>9, StoreMoves DEF Types, CacheTypes
<1>10. CASE ReceivesAny(w) \/ ChangeCourse(w) \/ Ends(w) \/ SaveOverride(w) \/ NothingToSave(w)
  BY <1>1, <1>10, ReceiveMoves, ChangeCourseMoves, EndsMoves, SaveOverrideMoves, NothingToSaveMoves
     DEF cache
<1>11. CASE \/ GetVersion(w) \/ BumpRead(w) \/ Resolve(w) \/ LoadTeacher(w) \/ GetHidden(w)
            \/ LoadHidden(w) \/ Lookup(w) \/ Build(w)
  BY <1>1, <1>11, GetVersionMoves, BumpReadMoves, ResolveMoves, LoadTeacherMoves, GetHiddenMoves,
     LoadHiddenMoves, LookupMoves, BuildMoves DEF cache
<1> QED BY <1>2, <1>3, <1>4, <1>5, <1>6, <1>7, <1>8, <1>9, <1>10, <1>11, StepCases

\* Every step of a worker keeps the types of the cache.
LEMMA CacheTypesStep ==
  ASSUME Types, NEW w \in Workers, Step(w)
  PROVE  CacheTypes'
<1> DEFINE r == req[w]
<1>0. /\ CacheTypes /\ now \in Nat /\ VisibilityTimeout \in Nat /\ ChartTimeout \in Nat
      /\ r \in Request /\ Shape(pc[w], r)
  BY RequestFacts, TimeoutsAssumption DEF Types, DbTypes
<1>1. resolved' \in [Students -> [value : Teachers \cup {None}, until : Nat]]
  <2>1. CASE StoreTeacher(w)
    <3>1. req[w].user \in Students /\ req[w].teacher \in Teachers \cup {None}
      BY <2>1, StoreTeacherMoves
    <3>2. [value |-> req[w].teacher, until |-> now + VisibilityTimeout]
            \in [value : Teachers \cup {None}, until : Nat]
      BY <1>0, <3>1
    <3> DEFINE entry == [value |-> req[w].teacher, until |-> now + VisibilityTimeout]
    <3>3. resolved' = resolved \/ resolved' = [resolved EXCEPT ![req[w].user] = entry]
      BY <2>1, StoreTeacherMoves
    <3> HIDE DEF entry
    <3> QED BY <1>0, <3>1, <3>2, <3>3 DEF CacheTypes, entry
  <2>2. CASE Forget(w)
    <3>1. NoTeacher \in [value : Teachers \cup {None}, until : Nat]
      BY DEF NoTeacher
    <3> QED BY <1>0, <2>2, <3>1, ForgetMoves DEF CacheTypes
  <2> QED BY <1>0, <2>1, <2>2, CacheStep DEF CacheTypes
<1>2. ASSUME NEW k \in DOMAIN hidden'
      PROVE  /\ k \in Teachers \X Nat
             /\ hidden'[k] \in [value : Hidden, until : Nat]
             /\ hidden'[k].value.by = k[1]
  <2>1. CASE k \in DOMAIN hidden /\ hidden'[k] = hidden[k]
    BY <1>0, <2>1 DEF CacheTypes
  <2>2. CASE pc[w] = "keep" /\ k = r.key /\ hidden'[k] = [value |-> r.hid, until |-> now + VisibilityTimeout]
    <3>1. r.key \in Token /\ r.key[1] \in Teachers /\ r.hid \in Hidden /\ r.hid.by = r.key[1]
      BY <1>0, <2>2, RequestFacts DEF Shape
    <3> QED BY <1>0, <2>2, <3>1 DEF Token
  <2>3. CASE pc[w] = "keep" /\ hidden' = Put(hidden, r.key, r.hid, VisibilityTimeout)
    <3>1. \/ k = r.key /\ hidden'[k] = [value |-> r.hid, until |-> now + VisibilityTimeout]
          \/ k \in DOMAIN hidden /\ hidden'[k] = hidden[k]
      BY <1>2, <2>3 DEF Put
    <3> QED BY <2>1, <2>2, <2>3, <3>1
  <2> QED BY <1>2, <2>1, <2>3, CacheStep
<1>3. ASSUME NEW k \in DOMAIN charts'
      PROVE  /\ k \in (Charts \cup {"own"}) \X (Students \cup {Staff}) \X Token \X Nat
             /\ charts'[k] \in [value : Chart, until : Nat]
             /\ k[1] = "own" => k[2] = Staff /\ charts'[k].value.by = k[3][1]
  <2>1. CASE k \in DOMAIN charts /\ charts'[k] = charts[k]
    BY <1>0, <2>1 DEF CacheTypes
  <2>2. CASE /\ pc[w] = "store" /\ k = ChartKey(r)
             /\ charts'[k] = [value |-> r.value, until |-> now + ChartTimeout]
    <3>1. /\ r.tok \in Token /\ r.cv \in Nat /\ r.user \in Students \cup {Staff} /\ r.chart \in Charts
          /\ r.value \in Chart
          /\ r.phase = "own" => r.user = Staff /\ r.tok[1] = r.teacher /\ r.value.by = r.teacher
      BY <1>0, <2>2, RequestFacts DEF Shape
    <3>2. k \in (Charts \cup {"own"}) \X (Students \cup {Staff}) \X Token \X Nat
      BY <2>2, <3>1 DEF ChartKey
    <3>3. k[1] = "own" => r.phase = "own"
      BY <2>2, <3>1 DEF ChartKey, Charts
    <3>4. k[2] = r.user /\ k[3] = r.tok
      BY <2>2 DEF ChartKey
    <3> QED BY <1>0, <2>2, <3>1, <3>2, <3>3, <3>4
  <2>3. CASE pc[w] = "store" /\ charts' = Put(charts, ChartKey(r), r.value, ChartTimeout)
    <3>1. \/ k = ChartKey(r) /\ charts'[k] = [value |-> r.value, until |-> now + ChartTimeout]
          \/ k \in DOMAIN charts /\ charts'[k] = charts[k]
      BY <1>3, <2>3 DEF Put
    <3> QED BY <2>1, <2>2, <2>3, <3>1
  <2> QED BY <1>3, <2>1, <2>3, CacheStep
<1> QED BY <1>1, <1>2, <1>3, CacheStep DEF CacheTypes

\* Noting when a student left a teacher keeps the type of the history.
LEMMA LeftAtTypes ==
  ASSUME NEW S, NEW T, NEW f \in [S -> [T -> Int]], NEW s \in S, NEW t \in T, NEW n \in Int
  PROVE  /\ [f[s] EXCEPT ![t] = n] \in [T -> Int]
         /\ [f EXCEPT ![s][t] = n] \in [S -> [T -> Int]]
OBVIOUS

\* Every step of a worker keeps the types of the tables.
LEMMA DbTypesStep ==
  ASSUME Types, NEW w \in Workers, Step(w)
  PROVE  DbTypes'
<1>0. DbTypes /\ now \in Nat
  BY DEF Types, DbTypes
<1>1. CASE UNCHANGED <<now, db, announced>>
  BY <1>0, <1>1 DEF DbTypes, db
<1>2. CASE ChangeCourse(w)
  <2>1. PICK s \in Students, k \in Courses \cup {None} :
          /\ course' = [course EXCEPT ![s] = k]
          /\ leftAt' = [leftAt EXCEPT ![s][TeacherOfStudent(s)] = now]
    BY <1>2, ChangeCourseMoves
  <2>2. UNCHANGED <<now, overrides, accounts, announced>>
    BY <1>2, ChangeCourseMoves
  <2>3. TeacherOfStudent(s) \in Teachers \cup {None}
    BY TeacherType
  <2>4. course' \in [Students -> Courses \cup {None}]
    BY <1>0, <2>1 DEF DbTypes
  <2>5. leftAt' \in [Students -> [Teachers \cup {None} -> Int]]
    <3>1. leftAt \in [Students -> [Teachers \cup {None} -> Int]]
      BY <1>0, Zenon DEF DbTypes
    <3>2. now \in Int
      BY <1>0
    <3> QED BY <2>1, <2>3, <3>1, <3>2, LeftAtTypes
  <2> QED BY <1>0, <2>2, <2>4, <2>5 DEF DbTypes
<1>3. CASE SaveOverride(w)
  <2>1. \A q \in Seq(Nat) : Append(q, now) \in Seq(Nat)
    BY <1>0
  <2>2. /\ UNCHANGED <<now, course, accounts, leftAt, announced>> /\ req[w].teacher \in Teachers
        /\ overrides' = [overrides EXCEPT ![req[w].teacher] = Append(@, now)]
    BY <1>3, SaveOverrideMoves
  <2> QED BY <1>0, <2>1, <2>2 DEF DbTypes
<1>4. CASE Ends(w)
  <2>1. Append(accounts, now) \in Seq(Nat)
    BY <1>0 DEF DbTypes
  <2>2. /\ UNCHANGED <<now, course, overrides, leftAt, announced>>
        /\ accounts' = accounts \/ accounts' = Append(accounts, now)
    BY <1>4, EndsMoves
  <2> QED BY <1>0, <2>1, <2>2 DEF DbTypes
<1>5. CASE BumpAdd(w) \/ BumpIncr(w) \/ BumpSet(w)
  <2>1. UNCHANGED <<now, db>>
    BY <1>5 DEF BumpAdd, BumpIncr, BumpSet
  <2>2. announced' \in [Teachers -> Nat]
    BY <1>0, <1>5, BumpAddMoves, BumpIncrMoves, BumpSetMoves DEF Announces, DbTypes
  <2> QED BY <1>0, <2>1, <2>2 DEF DbTypes, db
<1>6. CASE ReceivesAny(w) \/ NothingToSave(w) \/ Forget(w) \/ StoreTeacher(w) \/ StoreHidden(w) \/ Store(w)
  BY <1>1, <1>6, ReceiveMoves, NothingToSaveMoves, ForgetMoves, StoreTeacherMoves, StoreHiddenMoves,
     StoreMoves
<1>7. CASE \/ GetVersion(w) \/ InitVersion(w) \/ BumpRead(w) \/ Resolve(w) \/ LoadTeacher(w) \/ GetHidden(w)
           \/ LoadHidden(w) \/ Lookup(w) \/ Build(w)
  BY <1>1, <1>7, GetVersionMoves, InitVersionMoves, BumpReadMoves, ResolveMoves, LoadTeacherMoves,
     GetHiddenMoves, LoadHiddenMoves, LookupMoves, BuildMoves
<1> QED BY <1>2, <1>3, <1>4, <1>5, <1>6, <1>7, StepCases

\* Time drops what has expired; a course that is deleted takes its students along.
LEMMA SharedTypesStep ==
  ASSUME Types, Tick \/ DeleteCourse
  PROVE  Types'
<1>0. WorkerTypes /\ DbTypes /\ CacheTypes /\ Shapes /\ now \in Nat
  BY DEF Types, DbTypes
<1>1. CASE Tick
  <2>1. WorkerTypes' /\ Shapes'
    BY <1>0, <1>1 DEF Tick, WorkerTypes, Shapes
  <2>2. DbTypes'
    <3>1. now' \in Nat /\ UNCHANGED <<course, overrides, accounts, leftAt, announced>>
      BY <1>0, <1>1 DEF Tick, db
    <3> QED BY <1>0, <3>1 DEF DbTypes
  <2>3. resolved' \in [Students -> [value : Teachers \cup {None}, until : Nat]]
    <3>1. NoTeacher \in [value : Teachers \cup {None}, until : Nat]
      BY DEF NoTeacher
    <3> QED BY <1>0, <1>1, <3>1 DEF Tick, CacheTypes
  <2>4. versions' \in [VersionKeys -> [value : Nat, until : Nat]]
    <3>1. Missing \in [value : Nat, until : Nat]
      BY DEF Missing
    <3> QED BY <1>0, <1>1, <3>1 DEF Tick, CacheTypes
  <2>5. /\ \A k \in DOMAIN hidden' : k \in DOMAIN hidden /\ hidden'[k] = hidden[k]
        /\ \A k \in DOMAIN charts' : k \in DOMAIN charts /\ charts'[k] = charts[k]
    BY <1>1 DEF Tick, Unexpired
  <2>6. CacheTypes'
    BY <1>0, <2>3, <2>4, <2>5 DEF CacheTypes
  <2> QED BY <2>1, <2>2, <2>6 DEF Types
<1>2. CASE DeleteCourse
  <2>1. WorkerTypes' /\ Shapes' /\ CacheTypes'
    BY <1>0, <1>2 DEF DeleteCourse, WorkerTypes, Shapes, CacheTypes
  <2>2. DbTypes'
    <3>1. PICK k \in Courses :
            LET gone == {s \in Students : course[s] = k} IN
            /\ course' = [s \in Students |-> IF s \in gone THEN None ELSE course[s]]
            /\ leftAt' = [s \in Students |-> IF s \in gone THEN [leftAt[s] EXCEPT ![TeacherOf[k]] = now]
                                                           ELSE leftAt[s]]
      BY <1>2 DEF DeleteCourse
    <3>2. TeacherOf[k] \in Teachers
      BY CoursesAssumption
    <3>3. course' \in [Students -> Courses \cup {None}]
      BY <1>0, <3>1 DEF DbTypes
    <3>4. leftAt' \in [Students -> [Teachers \cup {None} -> Int]]
      <4>1. \A s \in Students : /\ leftAt[s] \in [Teachers \cup {None} -> Int]
                                /\ [leftAt[s] EXCEPT ![TeacherOf[k]] = now] \in [Teachers \cup {None} -> Int]
        <5>1. leftAt \in [Students -> [Teachers \cup {None} -> Int]]
          BY <1>0, Zenon DEF DbTypes
        <5>2. now \in Int
          BY <1>0
        <5> QED BY <3>2, <5>1, <5>2, LeftAtTypes
      <4> QED BY <3>1, <4>1
    <3> QED BY <1>0, <1>2, <3>3, <3>4 DEF DeleteCourse, DbTypes
  <2> QED BY <2>1, <2>2 DEF Types
<1> QED BY <1>1, <1>2

\* Every step keeps the types.
LEMMA TypesStep == Types /\ [Next]_vars => Types'
<1> SUFFICES ASSUME Types, [Next]_vars PROVE Types'
  OBVIOUS
<1>1. ASSUME NEW w \in Workers, Step(w) PROVE Types'
  BY <1>1, StepProceeds, ShapesKept, CacheTypesStep, DbTypesStep DEF Types, Proceeds
<1>2. CASE UNCHANGED vars
  BY <1>2 DEF vars, db, cache, Types, WorkerTypes, DbTypes, CacheTypes, Shapes
<1> QED BY <1>1, <1>2, SharedTypesStep DEF Next

\* Every variable keeps its type, and every request has the shape its label asks for.
THEOREM TypesAreInvariant == Spec => []Types
BY InitialTypes, TypesStep, PTL DEF Spec

(***************************************************************************)
(* The cached teacher of a student.                                        *)
(***************************************************************************)

Excused(s) ==
  \/ resolved[s] = NoTeacher \/ resolved[s].value = TeacherOfStudent(s)
  \/ s \in stale

Forgetting(s) == \E w \in Workers : pc[w] = "forget" /\ req[w].user = s

\* A step of a worker that is not forgetting somebody leaves those who are.
LEMMA ForgettingKept ==
  ASSUME NEW w \in Workers, NEW label, NEW r, Proceeds(w, label, r), pc[w] # "forget",
         NEW s, Forgetting(s)
  PROVE  Forgetting(s)'
BY DEF Forgetting, Proceeds, Moves, Others

\* A step of a worker leaves a cached teacher right, excused, or about to be forgotten.
LEMMA CurrentWorker ==
  ASSUME Types, CachedTeacherCurrent, NEW w \in Workers, Step(w), NEW s \in Students
  PROVE  Excused(s)' \/ Forgetting(s)'
<1>0. Excused(s) \/ Forgetting(s)
  BY DEF CachedTeacherCurrent, Excused, Forgetting
<1>1. ASSUME UNCHANGED <<course, resolved, stale>>, pc[w] # "forget" PROVE Excused(s)' \/ Forgetting(s)'
  <2>1. Excused(s)' = Excused(s)
    BY <1>1 DEF Excused, TeacherOfStudent
  <2>2. Forgetting(s) => Forgetting(s)'
    BY <1>1, StepProceeds, ForgettingKept
  <2> QED BY <1>0, <2>1, <2>2
<1>2. CASE ChangeCourse(w)
  <2>1. PICK u \in Students, k \in Courses \cup {None}, r \in Request :
          /\ course' = [course EXCEPT ![u] = k]
          /\ leftAt' = [leftAt EXCEPT ![u][TeacherOfStudent(u)] = now]
          /\ Proceeds(w, "forget", r) /\ r.user = u
          /\ r = [Idle EXCEPT !.kind = "course", !.start = now, !.user = u]
    BY <1>2, ChangeCourseMoves
  <2>2. pc[w] = "idle" /\ UNCHANGED cache
    BY <1>2, ChangeCourseMoves
  <2>3. CASE s = u
    BY <2>1, <2>3 DEF Forgetting, Proceeds, Moves
  <2>4. CASE s # u
    <3>1. Excused(s)' = Excused(s)
      BY <2>1, <2>2, <2>4 DEF Excused, TeacherOfStudent, cache, Types, DbTypes
    <3>2. Forgetting(s) => Forgetting(s)'
      BY <2>1, <2>2, ForgettingKept
    <3> QED BY <1>0, <3>1, <3>2
  <2> QED BY <2>3, <2>4
<1>3. CASE StoreTeacher(w)
  <2> DEFINE u == req[w].user
             t == req[w].teacher
  <2>1. pc[w] = "remember" /\ UNCHANGED db /\ u \in Students
    BY <1>3, StoreTeacherMoves
  <2>2. TeacherOfStudent(s)' = TeacherOfStudent(s)
    BY <2>1 DEF TeacherOfStudent, db
  <2>3. CASE UNCHANGED <<resolved, stale>>
    BY <1>1, <2>1, <2>3 DEF db
  <2>4. CASE /\ resolved' = [resolved EXCEPT ![u] = [value |-> t, until |-> now + VisibilityTimeout]]
             /\ stale' = IF t = TeacherOfStudent(u) THEN stale \ {u} ELSE stale \cup {u}
    <3>1. resolved \in [Students -> [value : Teachers \cup {None}, until : Nat]]
      BY DEF Types, CacheTypes
    <3>2. CASE s = u
      <4>1. resolved'[s].value = t
        BY <2>1, <2>4, <3>1, <3>2
      <4> QED BY <2>2, <2>4, <3>2, <4>1 DEF Excused
    <3>3. CASE s # u
      <4>1. Excused(s)' = Excused(s)
        BY <2>1, <2>2, <2>4, <3>1, <3>3 DEF Excused
      <4>2. Forgetting(s) => Forgetting(s)'
        BY <2>1, StepProceeds, ForgettingKept
      <4> QED BY <1>0, <4>1, <4>2
    <3> QED BY <3>2, <3>3
  <2> QED BY <1>3, <2>3, <2>4, StoreTeacherMoves
<1>4. CASE Forget(w)
  <2> DEFINE u == req[w].user
  <2>1. u \in Students /\ UNCHANGED db /\ Others(w)
        /\ \/ resolved' = [resolved EXCEPT ![u] = NoTeacher] /\ stale' = stale \ {u}
           \/ resolved' = resolved /\ stale' = stale \cup {u}
    BY <1>4, ForgetMoves DEF Proceeds, Moves
  <2>2. TeacherOfStudent(s)' = TeacherOfStudent(s) /\ DOMAIN resolved = Students
    BY <2>1 DEF TeacherOfStudent, db, Types, CacheTypes
  <2>3. CASE s = u
    BY <2>1, <2>2, <2>3 DEF Excused
  <2>4. CASE s # u
    <3>1. Excused(s)' = Excused(s)
      BY <2>1, <2>2, <2>4 DEF Excused
    <3>2. Forgetting(s) => Forgetting(s)'
      BY <2>1, <2>4 DEF Forgetting, Others
    <3> QED BY <1>0, <3>1, <3>2
  <2> QED BY <2>3, <2>4
<1>5. CASE Killed(w)
  <2>1. UNCHANGED <<course, resolved>> /\ Others(w)
    BY <1>5, EndsMoves DEF Ends, Proceeds, Moves
  <2>2. stale' = IF pc[w] = "forget" THEN stale \cup {req[w].user} ELSE stale
    BY <1>5 DEF Killed
  <2>3. Excused(s) => Excused(s)'
    BY <2>1, <2>2 DEF Excused, TeacherOfStudent
  <2>4. Forgetting(s) => Forgetting(s)' \/ Excused(s)'
    BY <2>1, <2>2 DEF Forgetting, Others, Excused
  <2> QED BY <1>0, <2>3, <2>4
<1>6. CASE Reply(w) \/ CommitAccount(w)
  BY <1>1, <1>6 DEF Reply, CommitAccount, cache, db
<1>7. CASE ReceivesAny(w) \/ SaveOverride(w) \/ NothingToSave(w) \/ StoreHidden(w) \/ Store(w)
  BY <1>1, <1>7, ReceiveMoves, SaveOverrideMoves, NothingToSaveMoves, StoreHiddenMoves, StoreMoves
     DEF cache, db
<1>8. CASE GetVersion(w) \/ InitVersion(w) \/ BumpAdd(w) \/ BumpIncr(w) \/ BumpRead(w) \/ BumpSet(w)
  BY <1>1, <1>8 DEF GetVersion, InitVersion, BumpAdd, BumpIncr, BumpRead, BumpSet, cache, db
<1>9. CASE Resolve(w) \/ LoadTeacher(w) \/ GetHidden(w) \/ LoadHidden(w) \/ Lookup(w) \/ Build(w)
  BY <1>1, <1>9 DEF Resolve, LoadTeacher, GetHidden, LoadHidden, Lookup, Build, cache, db
<1> QED BY <1>2, <1>3, <1>4, <1>5, <1>6, <1>7, <1>8, <1>9, StepCases DEF Ends

\* Every step does, the passing of time included.
LEMMA CurrentStep == Types /\ CachedTeacherCurrent /\ [Next]_vars => CachedTeacherCurrent'
<1> SUFFICES ASSUME Types, CachedTeacherCurrent, [Next]_vars, NEW s \in Students
             PROVE  Excused(s)' \/ Forgetting(s)'
  BY DEF CachedTeacherCurrent, Excused, Forgetting
<1>0. Excused(s) \/ Forgetting(s)
  BY DEF CachedTeacherCurrent, Excused, Forgetting
<1>1. ASSUME NEW w \in Workers, Step(w) PROVE Excused(s)' \/ Forgetting(s)'
  BY <1>1, CurrentWorker
<1>2. CASE Tick
  <2>1. /\ UNCHANGED <<course, pc, req>>
        /\ resolved'[s] = NoTeacher \/ resolved'[s] = resolved[s]
        /\ s \in stale /\ resolved'[s] # NoTeacher => s \in stale'
    BY <1>2 DEF Tick, db
  <2> QED BY <1>0, <2>1 DEF Excused, Forgetting, TeacherOfStudent
<1>3. CASE DeleteCourse
  <2>1. PICK k \in Courses :
          LET gone == {u \in Students : course[u] = k} IN
          /\ course' = [u \in Students |-> IF u \in gone THEN None ELSE course[u]]
          /\ stale' = stale \cup {u \in gone : resolved[u] # NoTeacher}
    BY <1>3 DEF DeleteCourse
  <2>2. UNCHANGED <<resolved, pc, req>>
    BY <1>3 DEF DeleteCourse
  <2>3. CASE course[s] = k
    BY <2>1, <2>2, <2>3 DEF Excused
  <2>4. CASE course[s] # k
    <3>1. course'[s] = course[s]
      BY <2>1, <2>4
    <3> QED BY <1>0, <2>1, <2>2, <3>1 DEF Excused, Forgetting, TeacherOfStudent
  <2> QED BY <2>3, <2>4
<1>4. CASE UNCHANGED vars
  BY <1>0, <1>4 DEF vars, db, cache, Excused, Forgetting, TeacherOfStudent
<1> QED BY <1>1, <1>2, <1>3, <1>4 DEF Next

\* Whatever requests overlap, fail or are killed, the teacher cached for a student is the teacher of
\* their course, but for the changes whose invalidation is still to come or was lost, a late store,
\* and a deleted course.
THEOREM CachedTeachersAreCurrent == Spec => []CachedTeacherCurrent
<1>1. Init => CachedTeacherCurrent
  BY DEF Init, CachedTeacherCurrent
<1> QED BY <1>1, CurrentStep, TypesAreInvariant, PTL DEF Spec

(***************************************************************************)
(* How old what is cached or held may be.                                  *)
(***************************************************************************)

\* The first `upto` overrides of a teacher have every one committed before time x.
Complete(by, upto, x) ==
  by # None => \A i \in 1..Len(overrides[by]) : i > upto => overrides[by][i] >= x

HasAccounts(n, x) == \A i \in 1..Len(accounts) : i > n => accounts[i] >= x

\* The teacher is the student's, or was at time x or later.
Taught(s, t, x) == t # TeacherOfStudent(s) => leftAt[s][t] >= 0 /\ leftAt[s][t] >= x

\* What is read from the cache of teachers or hidden accounts was loaded by a request that may have
\* begun RequestTimeout before it stored it; a chart was built from such, by another request.
LoadAge == VisibilityTimeout + RequestTimeout
ChartAge == LoadAge + ChartTimeout + RequestTimeout

TimeInv ==
  \A w \in Workers :
    /\ req[w].start <= now
    /\ pc[w] # "idle" => now <= req[w].start + RequestTimeout

TeacherAges ==
  \A s \in Students : resolved[s] # NoTeacher =>
    /\ now < resolved[s].until /\ resolved[s].until <= now + VisibilityTimeout
    /\ Taught(s, resolved[s].value, resolved[s].until - LoadAge)

HiddenAges ==
  \A k \in DOMAIN hidden :
    /\ now < hidden[k].until /\ hidden[k].until <= now + VisibilityTimeout
    /\ Complete(hidden[k].value.by, hidden[k].value.upto, hidden[k].until - LoadAge)

ChartAges ==
  \A k \in DOMAIN charts :
    /\ now < charts[k].until /\ charts[k].until <= now + ChartTimeout
    /\ Complete(charts[k].value.by, charts[k].value.upto, charts[k].until - ChartAge)
    /\ k[1] = "company" => HasAccounts(charts[k].value.accounts, charts[k].until - ChartAge)
    /\ k[2] \in Students => Taught(k[2], charts[k].value.by, charts[k].until - ChartAge)

\* What a request holds at each label, by when it began.
RequestAge(label, r) ==
  /\ Complete(r.hid.by, r.hid.upto, r.start - LoadAge)
  /\ Complete(r.value.by, r.value.upto, r.start - ChartAge)
  /\ label = "remember" => Taught(r.user, r.teacher, r.start)
  /\ label \in {"version", "init"} /\ r.phase = "hidden" =>
       Taught(r.user, r.teacher, r.start - LoadAge)
  /\ label \in {"hidden", "overrides", "keep"} => Taught(r.user, r.key[1], r.start - LoadAge)
  /\ label = "keep" => Complete(r.hid.by, r.hid.upto, r.start)
  /\ label \in {"build", "add"} /\ r.user \in Students =>
       Taught(r.user, r.hid.by, r.start - LoadAge)
  /\ label = "store" => Complete(r.value.by, r.value.upto, r.start - LoadAge)
  /\ label = "store" /\ r.user \in Students => Taught(r.user, r.value.by, r.start - LoadAge)
  /\ label = "store" /\ r.chart = "company" => HasAccounts(r.value.accounts, r.start)
  /\ label = "reply" /\ r.user \in Students => Taught(r.user, r.value.by, r.start - ChartAge)
  /\ label = "reply" /\ r.chart = "company" => HasAccounts(r.value.accounts, r.start - ChartAge)

RequestAges == \A w \in Workers : RequestAge(pc[w], req[w])

AgeInv == TimeInv /\ TeacherAges /\ HiddenAges /\ ChartAges /\ RequestAges

\* The ages that the timeouts add up to.
LEMMA Numbers ==
  /\ VisibilityTimeout \in Nat /\ VisibilityTimeout > 0 /\ ChartTimeout \in Nat /\ ChartTimeout > 0
  /\ RequestTimeout \in Nat /\ LoadAge \in Nat /\ ChartAge \in Nat
  /\ LoadAge = VisibilityTimeout + RequestTimeout
  /\ ChartAge = LoadAge + ChartTimeout + RequestTimeout
  /\ MaxAge = ChartAge + RequestTimeout
BY TimeoutsAssumption DEF LoadAge, ChartAge, MaxAge

\* What has everything older than y has everything older than an earlier x.
LEMMA Older ==
  ASSUME Types, NEW x \in Int, NEW y \in Int, x <= y
  PROVE  /\ \A t \in Teachers \cup {None}, n \in Nat : Complete(t, n, y) => Complete(t, n, x)
         /\ \A n \in Nat : HasAccounts(n, y) => HasAccounts(n, x)
         /\ \A s \in Students, t \in Teachers \cup {None} : Taught(s, t, y) => Taught(s, t, x)
<1>1. ASSUME NEW t \in Teachers \cup {None}, NEW n \in Nat, Complete(t, n, y) PROVE Complete(t, n, x)
  <2> SUFFICES ASSUME t # None, NEW i \in 1..Len(overrides[t]), i > n PROVE overrides[t][i] >= x
    BY DEF Complete
  <2>1. overrides[t] \in Seq(Nat)
    BY DEF Types, DbTypes
  <2>2. overrides[t][i] \in Nat /\ overrides[t][i] >= y
    BY <1>1, <2>1 DEF Complete
  <2> QED BY <2>2
<1>2. ASSUME NEW n \in Nat, HasAccounts(n, y) PROVE HasAccounts(n, x)
  <2> SUFFICES ASSUME NEW i \in 1..Len(accounts), i > n PROVE accounts[i] >= x
    BY DEF HasAccounts
  <2>1. accounts[i] \in Nat /\ accounts[i] >= y
    BY <1>2 DEF HasAccounts, Types, DbTypes
  <2> QED BY <2>1
<1>3. ASSUME NEW s \in Students, NEW t \in Teachers \cup {None}, Taught(s, t, y) PROVE Taught(s, t, x)
  <2>1. leftAt[s][t] \in Int
    BY DEF Types, DbTypes
  <2> QED BY <1>3, <2>1 DEF Taught
<1> QED BY <1>1, <1>2, <1>3

\* Nothing that is committed now or later is older than now.
LEMMA NothingNewIsOld ==
  ASSUME Types, [Next]_vars, NEW x \in Int, x <= now
  PROVE  /\ \A t \in Teachers \cup {None}, n \in Nat : Complete(t, n, x) => Complete(t, n, x)'
         /\ \A n \in Nat : HasAccounts(n, x) => HasAccounts(n, x)'
         /\ \A s \in Students, t \in Teachers \cup {None} : Taught(s, t, x) => Taught(s, t, x)'
<1> DEFINE Kept ==
      /\ \A t \in Teachers \cup {None}, n \in Nat : Complete(t, n, x) => Complete(t, n, x)'
      /\ \A n \in Nat : HasAccounts(n, x) => HasAccounts(n, x)'
      /\ \A s \in Students, t \in Teachers \cup {None} : Taught(s, t, x) => Taught(s, t, x)'
<1>0. DbTypes /\ now \in Nat
  BY DEF Types, DbTypes
<1>1. CASE UNCHANGED db
  BY <1>1 DEF db, Complete, HasAccounts, Taught, TeacherOfStudent
<1>2. ASSUME NEW w \in Workers, ChangeCourse(w) PROVE Kept
  <2>1. PICK u \in Students, k \in Courses \cup {None}, r \in Request :
          /\ course' = [course EXCEPT ![u] = k]
          /\ leftAt' = [leftAt EXCEPT ![u][TeacherOfStudent(u)] = now]
          /\ Proceeds(w, "forget", r) /\ r.user = u
          /\ r = [Idle EXCEPT !.kind = "course", !.start = now, !.user = u]
    BY <1>2, ChangeCourseMoves
  <2>2. UNCHANGED <<overrides, accounts>>
    BY <1>2, ChangeCourseMoves
  <2>3. ASSUME NEW s \in Students, NEW t \in Teachers \cup {None}, Taught(s, t, x)
        PROVE  Taught(s, t, x)'
    <3>1. s # u => course'[s] = course[s] /\ leftAt'[s] = leftAt[s]
      BY <1>0, <2>1 DEF DbTypes
    <3>2. t # TeacherOfStudent(u) => leftAt'[u][t] = leftAt[u][t]
      BY <1>0, <2>1 DEF DbTypes
    <3>3. leftAt'[u][TeacherOfStudent(u)] = now
      BY <1>0, <2>1, TeacherType DEF DbTypes
    <3>4. CASE s # u
      BY <2>3, <3>1, <3>4 DEF Taught, TeacherOfStudent
    <3>5. CASE s = u /\ t # TeacherOfStudent(u)
      <4>1. leftAt[u][t] >= 0 /\ leftAt[u][t] >= x
        BY <2>3, <3>5 DEF Taught
      <4> QED BY <3>2, <3>5, <4>1 DEF Taught
    <3>6. CASE s = u /\ t = TeacherOfStudent(u)
      BY <1>0, <3>3, <3>6 DEF Taught
    <3> QED BY <3>4, <3>5, <3>6
  <2> QED BY <2>2, <2>3 DEF Complete, HasAccounts
<1>3. ASSUME NEW w \in Workers, SaveOverride(w) PROVE Kept
  <2> DEFINE u == req[w].teacher
  <2>1. /\ UNCHANGED <<course, accounts, leftAt>> /\ u \in Teachers
        /\ overrides' = [overrides EXCEPT ![u] = Append(@, now)]
    BY <1>3, SaveOverrideMoves
  <2> HIDE DEF u
  <2>2. ASSUME NEW t \in Teachers \cup {None}, NEW n \in Nat, Complete(t, n, x) PROVE Complete(t, n, x)'
    <3> SUFFICES ASSUME t # None, NEW i \in 1..Len(overrides'[t]), i > n PROVE overrides'[t][i] >= x
      BY DEF Complete
    <3>1. overrides[t] \in Seq(Nat) /\ t \in Teachers
      BY <1>0 DEF DbTypes
    <3>2. CASE t # u
      BY <1>0, <2>1, <2>2, <3>2 DEF Complete, DbTypes
    <3>3. CASE t = u
      <4>1. overrides'[t] = Append(overrides[t], now)
        BY <1>0, <2>1, <3>3 DEF DbTypes
      <4>2. \/ i \in 1..Len(overrides[t]) /\ overrides'[t][i] = overrides[t][i]
            \/ overrides'[t][i] = now
        BY <1>0, <3>1, <4>1
      <4> QED BY <1>0, <2>2, <4>2 DEF Complete
    <3> QED BY <3>2, <3>3
  <2> QED BY <2>1, <2>2 DEF HasAccounts, Taught, TeacherOfStudent
<1>4. ASSUME NEW w \in Workers, Ends(w) PROVE Kept
  <2>1. /\ UNCHANGED <<course, overrides, leftAt>>
        /\ accounts' = accounts \/ accounts' = Append(accounts, now)
    BY <1>4, EndsMoves
  <2>2. ASSUME NEW n \in Nat, HasAccounts(n, x) PROVE HasAccounts(n, x)'
    <3> SUFFICES ASSUME NEW i \in 1..Len(accounts'), i > n PROVE accounts'[i] >= x
      BY DEF HasAccounts
    <3>1. \/ i \in 1..Len(accounts) /\ accounts'[i] = accounts[i]
          \/ accounts'[i] = now
      <4>0. accounts \in Seq(Nat)
        BY <1>0 DEF DbTypes
      <4>1. CASE accounts' = accounts
        BY <4>1
      <4>2. CASE accounts' = Append(accounts, now)
        BY <1>0, <4>0, <4>2
      <4> QED BY <2>1, <4>1, <4>2
    <3> QED BY <1>0, <2>2, <3>1 DEF HasAccounts
  <2> QED BY <2>1, <2>2 DEF Complete, Taught, TeacherOfStudent
<1>5. CASE DeleteCourse
  <2>1. PICK k \in Courses :
          LET gone == {s \in Students : course[s] = k} IN
          /\ course' = [s \in Students |-> IF s \in gone THEN None ELSE course[s]]
          /\ leftAt' = [s \in Students |-> IF s \in gone THEN [leftAt[s] EXCEPT ![TeacherOf[k]] = now]
                                                         ELSE leftAt[s]]
    BY <1>5 DEF DeleteCourse
  <2>2. UNCHANGED <<overrides, accounts>>
    BY <1>5 DEF DeleteCourse
  <2>3. TeacherOf[k] \in Teachers /\ k # None
    BY CoursesAssumption, NamesAssumption
  <2>4. ASSUME NEW s \in Students, NEW t \in Teachers \cup {None}, Taught(s, t, x)
        PROVE  Taught(s, t, x)'
    <3>0. leftAt[s] \in [Teachers \cup {None} -> Int]
      BY <1>0 DEF DbTypes
    <3>1. CASE course[s] # k
      <4>1. course'[s] = course[s] /\ leftAt'[s] = leftAt[s]
        BY <2>1, <3>1
      <4> QED BY <2>4, <4>1 DEF Taught, TeacherOfStudent
    <3>2. CASE course[s] = k
      <4>1. leftAt'[s] = [leftAt[s] EXCEPT ![TeacherOf[k]] = now] /\ TeacherOfStudent(s) = TeacherOf[k]
        BY <2>1, <2>3, <3>2 DEF TeacherOfStudent
      <4>2. CASE t = TeacherOf[k]
        <5>1. leftAt'[s][t] = now
          BY <2>3, <3>0, <4>1, <4>2
        <5> QED BY <1>0, <5>1 DEF Taught
      <4>3. CASE t # TeacherOf[k]
        <5>1. leftAt'[s][t] = leftAt[s][t] /\ leftAt[s][t] >= 0 /\ leftAt[s][t] >= x
          BY <2>4, <3>0, <4>1, <4>3 DEF Taught
        <5> QED BY <5>1 DEF Taught
      <4> QED BY <4>2, <4>3
    <3> QED BY <3>1, <3>2
  <2> QED BY <2>2, <2>4 DEF Complete, HasAccounts
<1>6. ASSUME NEW w \in Workers,
             \/ GetVersion(w) \/ InitVersion(w) \/ BumpAdd(w) \/ BumpIncr(w) \/ BumpRead(w) \/ BumpSet(w)
             \/ Resolve(w) \/ LoadTeacher(w) \/ StoreTeacher(w) \/ Forget(w)
             \/ GetHidden(w) \/ LoadHidden(w) \/ StoreHidden(w)
             \/ Lookup(w) \/ Build(w) \/ Store(w) \/ NothingToSave(w) \/ ReceivesAny(w)
      PROVE  UNCHANGED db
  <2>1. ReceivesAny(w) => UNCHANGED db
    BY ReceiveMoves
  <2> QED BY <1>6, <2>1
     DEF GetVersion, InitVersion, BumpAdd, BumpIncr, BumpRead, BumpSet, Resolve, LoadTeacher,
         StoreTeacher, Forget, GetHidden, LoadHidden, StoreHidden, Lookup, Build, Store, NothingToSave
<1>7. CASE UNCHANGED vars \/ Tick
  BY <1>1, <1>7 DEF vars, Tick
<1> QED BY <1>1, <1>2, <1>3, <1>4, <1>5, <1>6, <1>7, StepCases DEF Next

-----------------------------------------------------------------------------
(* The ages of what the worker that takes a step holds afterwards.         *)

\* A request that holds nothing yet.
LEMMA EmptyAge ==
  ASSUME NEW label \in {"idle", "forget", "version", "save", "resolve", "add"}, NEW r,
         r.hid.by = None, r.value.by = None,
         label = "version" => r.phase # "hidden", label = "add" => r.user = Staff
  PROVE  RequestAge(label, r) /\ RequestAge(label, r)'
BY NamesAssumption DEF RequestAge, Complete

\* The age of what a request holds depends on the tables only.
LEMMA SameDb ==
  ASSUME UNCHANGED db, NEW label, NEW r
  PROVE  RequestAge(label, r)' = RequestAge(label, r)
<1>1. \A t, n, x : Complete(t, n, x)' = Complete(t, n, x)
  BY DEF db, Complete
<1>2. \A n, x : HasAccounts(n, x)' = HasAccounts(n, x)
  BY DEF db, HasAccounts
<1>3. \A s, t, x : Taught(s, t, x)' = Taught(s, t, x)
  BY DEF db, Taught, TeacherOfStudent
<1> QED BY <1>1, <1>2, <1>3 DEF RequestAge

\* What is known of the ages of the request of a worker.
LEMMA AgeFacts ==
  ASSUME Types, AgeInv, NEW w \in Workers
  PROVE  /\ RequestAge(pc[w], req[w])
         /\ now \in Nat /\ req[w].start \in Nat /\ req[w].start <= now
         /\ LoadAge \in Nat /\ ChartAge \in Nat /\ LoadAge <= ChartAge
         /\ req[w].hid.by \in Teachers \cup {None} /\ req[w].hid.upto \in Nat
         /\ req[w].value.by \in Teachers \cup {None} /\ req[w].value.upto \in Nat
         /\ req[w].value.accounts \in Nat
         /\ req[w].key[1] \in Teachers \cup {None} /\ req[w].tok[1] \in Teachers \cup {None}
<1>1. RequestAge(pc[w], req[w]) /\ req[w].start <= now
  BY DEF AgeInv, RequestAges, TimeInv
<1>2. now \in Nat
  BY DEF Types, DbTypes
<1>3. req[w].hid \in Hidden /\ req[w].value \in Chart /\ req[w].key \in Token /\ req[w].tok \in Token
      /\ req[w].start \in Nat
  BY RequestFacts
<1>4. LoadAge <= ChartAge
  BY Numbers
<1> QED BY <1>1, <1>2, <1>3, <1>4, Numbers DEF Hidden, Chart, Token

Aged(w) == \E label, r : Moves(w, label, r) /\ RequestAge(label, r)

\* Hidden accounts that are not too old are passed on.
LEMMA HidesAged ==
  ASSUME Types, AgeInv, NEW w \in Workers, NEW h \in Hidden, Hides(w, h), req[w].user \in Students,
         Complete(h.by, h.upto, req[w].start - LoadAge), Taught(req[w].user, h.by, req[w].start - LoadAge)
  PROVE  Aged(w)
<1> DEFINE r == req[w]
           s == [r EXCEPT !.hid = h]
<1>1. PICK label \in {"build", "add"} : Proceeds(w, label, s)
  BY DEF Hides
<1>2. s.hid = h /\ s.value = r.value /\ s.start = r.start /\ s.user = r.user
  BY RequestFacts DEF Request
<1>3. RequestAge(label, s)
  <2> HIDE DEF s
  <2> QED BY <1>2, AgeFacts DEF RequestAge
<1> QED BY <1>1, <1>3 DEF Aged, Proceeds

\* A teacher that is not too old is passed on.
LEMMA TeachesAged ==
  ASSUME Types, AgeInv, NEW w \in Workers, NEW t \in Teachers \cup {None}, Teaches(w, t),
         req[w].user \in Students, Taught(req[w].user, t, req[w].start - LoadAge)
  PROVE  Aged(w)
<1> DEFINE r == req[w]
<1>1. CASE Proceeds(w, "version", [r EXCEPT !.teacher = t])
  <2> DEFINE s == [r EXCEPT !.teacher = t]
  <2>1. s.hid = r.hid /\ s.value = r.value /\ s.start = r.start /\ s.user = r.user /\ s.teacher = t
    BY RequestFacts DEF Request
  <2>2. RequestAge("version", s)
    <3> HIDE DEF s
    <3> QED BY <2>1, AgeFacts DEF RequestAge
  <2> QED BY <1>1, <2>2 DEF Aged, Proceeds
<1>2. CASE Proceeds(w, "lookup", [r EXCEPT !.tok = Public])
  <2> DEFINE s == [r EXCEPT !.tok = Public]
  <2>1. s.hid = r.hid /\ s.value = r.value /\ s.start = r.start
    BY RequestFacts DEF Request
  <2>2. RequestAge("lookup", s)
    <3> HIDE DEF s
    <3> QED BY <2>1, AgeFacts DEF RequestAge
  <2> QED BY <1>2, <2>2 DEF Aged, Proceeds
<1>3. CASE t = None /\ Hides(w, NothingHidden)
  <2>1. NothingHidden.by = None /\ NothingHidden \in Hidden /\ Complete(None, 0, r.start - LoadAge)
        /\ NothingHidden.upto = 0
    BY IdleType DEF NothingHidden, Complete
  <2> QED BY <1>3, <2>1, HidesAged
<1> QED BY <1>1, <1>2, <1>3 DEF Teaches

\* A version says nothing about age.
LEMMA VersionedAged ==
  ASSUME Types, AgeInv, NEW w \in Workers, NEW v \in Nat, pc[w] \in {"version", "init"}, Versioned(w, v)
  PROVE  Aged(w)
<1> DEFINE r == req[w]
<1>0. r \in Request
  BY RequestFacts
<1>1. CASE Proceeds(w, "lookup", [r EXCEPT !.cv = v])
  <2> DEFINE s == [r EXCEPT !.cv = v]
  <2>1. s.hid = r.hid /\ s.value = r.value /\ s.start = r.start
    BY <1>0 DEF Request
  <2>2. RequestAge("lookup", s)
    <3> HIDE DEF s
    <3> QED BY <2>1, AgeFacts DEF RequestAge
  <2> QED BY <1>1, <2>2 DEF Aged, Proceeds
<1>2. CASE Proceeds(w, "resolve", [r EXCEPT !.cv = v, !.phase = "token"])
  <2> DEFINE s == [r EXCEPT !.cv = v, !.phase = "token"]
  <2>1. s.hid = r.hid /\ s.value = r.value /\ s.start = r.start
    BY <1>0 DEF Request
  <2>2. RequestAge("resolve", s)
    <3> HIDE DEF s
    <3> QED BY <2>1, AgeFacts DEF RequestAge
  <2> QED BY <1>2, <2>2 DEF Aged, Proceeds
<1>3. CASE Proceeds(w, "lookup", [r EXCEPT !.tok = <<r.teacher, v>>])
  <2> DEFINE s == [r EXCEPT !.tok = <<r.teacher, v>>]
  <2>1. s.hid = r.hid /\ s.value = r.value /\ s.start = r.start
    BY <1>0 DEF Request
  <2>2. RequestAge("lookup", s)
    <3> HIDE DEF s
    <3> QED BY <2>1, AgeFacts DEF RequestAge
  <2> QED BY <1>3, <2>2 DEF Aged, Proceeds
<1>4. CASE r.phase = "hidden" /\ Proceeds(w, "hidden", [r EXCEPT !.key = <<r.teacher, v>>])
  <2> DEFINE s == [r EXCEPT !.key = <<r.teacher, v>>]
  <2>1. s.hid = r.hid /\ s.value = r.value /\ s.start = r.start /\ s.user = r.user
        /\ s.key[1] = r.teacher
    BY <1>0 DEF Request
  <2>2. Taught(r.user, r.teacher, r.start - LoadAge)
    BY <1>4, AgeFacts DEF RequestAge
  <2>3. RequestAge("hidden", s)
    <3> HIDE DEF s
    <3> QED BY <2>1, <2>2, AgeFacts DEF RequestAge
  <2> QED BY <1>4, <2>3 DEF Aged, Proceeds
<1> QED BY <1>1, <1>2, <1>3, <1>4 DEF Versioned

\* A writer holds nothing that ages.
LEMMA AnnouncesAged ==
  ASSUME Types, AgeInv, NEW w \in Workers, Announces(w)
  PROVE  Aged(w)
<1> DEFINE r == req[w]
<1>0. r \in Request /\ Shape(pc[w], r)
  BY RequestFacts
<1>1. CASE r.kind = "patch" /\ Proceeds(w, "version", [r EXCEPT !.since = announced'])
  <2> DEFINE s == [r EXCEPT !.since = announced']
  <2>1. s.hid = r.hid /\ s.value = r.value /\ s.start = r.start /\ s.phase = "own"
    BY <1>0, <1>1 DEF Request, Shape
  <2>2. RequestAge("version", s)
    <3> HIDE DEF s
    <3> QED BY <2>1, AgeFacts DEF RequestAge
  <2> QED BY <1>1, <2>2 DEF Aged, Proceeds
<1>2. CASE Proceeds(w, "commit", r)
  <2>1. RequestAge("commit", r)
    BY AgeFacts DEF RequestAge
  <2> QED BY <1>2, <2>1 DEF Aged, Proceeds
<1> QED BY <1>1, <1>2 DEF Announces

\* What a worker reads or builds is as old as its label allows.
LEMMA ReadsAged ==
  ASSUME Types, AgeInv, NEW w \in Workers,
         \/ Resolve(w) \/ LoadTeacher(w) \/ StoreTeacher(w)
         \/ GetHidden(w) \/ LoadHidden(w) \/ StoreHidden(w)
         \/ Lookup(w) \/ Build(w) \/ Store(w)
  PROVE  Aged(w)
<1> DEFINE r == req[w]
<1>0. /\ r \in Request /\ Shape(pc[w], r) /\ RequestAge(pc[w], r)
      /\ now \in Nat /\ r.start \in Nat /\ r.start <= now
      /\ LoadAge \in Nat /\ ChartAge \in Nat /\ LoadAge <= ChartAge
      /\ r.start - LoadAge \in Int /\ r.start - ChartAge \in Int
  BY RequestFacts, AgeFacts
<1>1. CASE Resolve(w)
  <2> DEFINE found == resolved[r.user]
  <2>1. r.user \in Students /\ pc[w] = "resolve"
    BY <1>0, <1>1, ResolveMoves DEF Shape
  <2>2. CASE found # NoTeacher /\ Teaches(w, found.value)
    <3>1. found.value \in Teachers \cup {None} /\ found.until \in Nat
      BY <2>1 DEF Types, CacheTypes
    <3>2. now < found.until /\ Taught(r.user, found.value, found.until - LoadAge)
      BY <2>1, <2>2 DEF AgeInv, TeacherAges
    <3>3. /\ found.until - LoadAge \in Int /\ r.start - LoadAge \in Int
          /\ r.start - LoadAge <= found.until - LoadAge
      BY <1>0, <3>1, <3>2
    <3> HIDE DEF found
    <3>4. Taught(r.user, found.value, r.start - LoadAge)
      BY <2>1, <3>1, <3>2, <3>3, Older
    <3> QED BY <2>1, <2>2, <3>1, <3>4, TeachesAged DEF found
  <2>3. CASE Proceeds(w, "enrolment", r)
    <3>1. RequestAge("enrolment", r)
      BY <1>0 DEF RequestAge
    <3> QED BY <2>3, <3>1 DEF Aged, Proceeds
  <2> QED BY <1>1, <2>2, <2>3, ResolveMoves
<1>2. CASE LoadTeacher(w)
  <2> DEFINE t == TeacherOfStudent(r.user)
             s == [r EXCEPT !.teacher = t]
  <2>1. Proceeds(w, "remember", s)
    BY <1>2, LoadTeacherMoves
  <2>2. s.hid = r.hid /\ s.value = r.value /\ s.start = r.start /\ s.user = r.user /\ s.teacher = t
    BY <1>0 DEF Request
  <2>3. Taught(r.user, t, r.start)
    BY DEF Taught
  <2>4. RequestAge("remember", s)
    <3> HIDE DEF s, t
    <3> QED BY <1>0, <2>2, <2>3 DEF RequestAge
  <2> QED BY <2>1, <2>4 DEF Aged, Proceeds
<1>3. CASE StoreTeacher(w)
  <2>1. /\ pc[w] = "remember" /\ r.user \in Students /\ r.teacher \in Teachers \cup {None}
        /\ Teaches(w, r.teacher)
    BY <1>3, StoreTeacherMoves
  <2>2. Taught(r.user, r.teacher, r.start)
    BY <1>0, <2>1 DEF RequestAge
  <2>3. r.start - LoadAge <= r.start
    BY <1>0
  <2> HIDE DEF r
  <2>4. Taught(r.user, r.teacher, r.start - LoadAge)
    BY <1>0, <2>1, <2>2, <2>3, Older
  <2> QED BY <2>1, <2>4, TeachesAged DEF r
<1>4. CASE GetHidden(w)
  <2> DEFINE k == r.key
  <2>1. /\ pc[w] = "hidden" /\ r.user \in Students
        /\ Taught(r.user, r.key[1], r.start - LoadAge)
    BY <1>0, <1>4, GetHiddenMoves DEF Shape, RequestAge
  <2>2. CASE k \in DOMAIN hidden /\ Hides(w, hidden[k].value)
    <3> DEFINE h == hidden[k].value
               until == hidden[k].until
    <3>1. h \in Hidden /\ until \in Nat /\ h.by = k[1]
      BY <2>2 DEF Types, CacheTypes
    <3>2. now < until /\ Complete(h.by, h.upto, until - LoadAge)
      BY <2>2 DEF AgeInv, HiddenAges
    <3>3. h.by \in Teachers \cup {None} /\ h.upto \in Nat
      BY <3>1 DEF Hidden
    <3> HIDE DEF h, until, k
    <3>4. until - LoadAge \in Int /\ r.start - LoadAge <= until - LoadAge
      BY <1>0, <3>1, <3>2
    <3>5. Complete(h.by, h.upto, r.start - LoadAge)
      BY <1>0, <3>2, <3>3, <3>4, Older
    <3> QED BY <2>1, <2>2, <3>1, <3>5, HidesAged DEF h, k
  <2>3. CASE Proceeds(w, "overrides", r)
    <3>1. RequestAge("overrides", r)
      BY <1>0, <2>1 DEF RequestAge
    <3> QED BY <2>3, <3>1 DEF Aged, Proceeds
  <2> QED BY <1>4, <2>2, <2>3, GetHiddenMoves
<1>5. CASE LoadHidden(w)
  <2> DEFINE t == r.key[1]
             h == [by |-> t, upto |-> Len(overrides[t])]
             s == [r EXCEPT !.hid = h]
  <2>1. pc[w] = "overrides" /\ t \in Teachers /\ h \in Hidden /\ Proceeds(w, "keep", s)
    BY <1>5, LoadHiddenMoves
  <2>2. /\ s.hid = h /\ s.value = r.value /\ s.start = r.start /\ s.user = r.user /\ s.key = r.key
        /\ h.by = t /\ h.upto = Len(overrides[t])
    BY <1>0 DEF Request
  <2>3. \A x : Complete(t, Len(overrides[t]), x)
    <3>1. Len(overrides[t]) \in Nat
      BY <2>1 DEF Types, DbTypes
    <3> QED BY <3>1 DEF Complete
  <2>4. Taught(r.user, t, r.start - LoadAge)
    BY <1>0, <2>1 DEF RequestAge
  <2>5. RequestAge("keep", s)
    <3> HIDE DEF s, h
    <3> QED BY <1>0, <2>2, <2>3, <2>4 DEF RequestAge
  <2> QED BY <2>1, <2>5 DEF Aged, Proceeds
<1>6. CASE StoreHidden(w)
  <2>1. pc[w] = "keep" /\ Hides(w, r.hid)
    BY <1>6, StoreHiddenMoves
  <2>2. /\ r.user \in Students /\ r.hid.by = r.key[1] /\ r.hid \in Hidden
        /\ Taught(r.user, r.key[1], r.start - LoadAge)
        /\ Complete(r.hid.by, r.hid.upto, r.start - LoadAge)
    BY <1>0, <2>1, RequestFacts DEF Shape, RequestAge
  <2> QED BY <2>1, <2>2, HidesAged
<1>7. CASE Lookup(w)
  <2> DEFINE k == ChartKey(r)
             a == charts[k].value
             until == charts[k].until
             s == [r EXCEPT !.value = a]
  <2>0. pc[w] = "lookup"
    BY <1>7, LookupMoves
  <2>1. CASE k \in DOMAIN charts /\ Proceeds(w, "reply", s)
    <3>1. a \in Chart /\ until \in Nat
      BY <2>1 DEF Types, CacheTypes
    <3>2. /\ now < until /\ Complete(a.by, a.upto, until - ChartAge)
          /\ k[1] = "company" => HasAccounts(a.accounts, until - ChartAge)
          /\ k[2] \in Students => Taught(k[2], a.by, until - ChartAge)
      BY <2>1 DEF AgeInv, ChartAges
    <3>3. k[2] = r.user /\ (r.chart = "company" => k[1] = "company")
      BY <1>0 DEF ChartKey, Shape
    <3>4. a.by \in Teachers \cup {None} /\ a.upto \in Nat /\ a.accounts \in Nat
      BY <3>1 DEF Chart
    <3>5. s.hid = r.hid /\ s.value = a /\ s.start = r.start /\ s.user = r.user /\ s.chart = r.chart
      BY <1>0 DEF Request
    <3> HIDE DEF s, a, until, k
    <3>6. until - ChartAge \in Int /\ r.start - ChartAge <= until - ChartAge
      BY <1>0, <3>1, <3>2
    <3>7. /\ Complete(a.by, a.upto, r.start - ChartAge)
          /\ r.chart = "company" => HasAccounts(a.accounts, r.start - ChartAge)
          /\ r.user \in Students => Taught(r.user, a.by, r.start - ChartAge)
      BY <1>0, <3>2, <3>3, <3>4, <3>6, Older
    <3>8. RequestAge("reply", s)
      BY <1>0, <3>5, <3>7 DEF RequestAge
    <3> QED BY <2>1, <3>8 DEF Aged, Proceeds
  <2>2. CASE Proceeds(w, "resolve", [r EXCEPT !.phase = "hidden"])
    <3> DEFINE q == [r EXCEPT !.phase = "hidden"]
    <3>1. q.hid = r.hid /\ q.value = r.value /\ q.start = r.start
      BY <1>0 DEF Request
    <3>2. RequestAge("resolve", q)
      <4> HIDE DEF q
      <4> QED BY <1>0, <3>1 DEF RequestAge
    <3> QED BY <2>2, <3>2 DEF Aged, Proceeds
  <2>3. CASE r.phase # "token" /\ Proceeds(w, "build", r)
    <3>1. r.user = Staff
      BY <1>0, <2>0, <2>3, RequestFacts DEF Shape
    <3>2. RequestAge("build", r)
      BY <1>0, <3>1, NamesAssumption DEF RequestAge
    <3> QED BY <2>3, <3>2 DEF Aged, Proceeds
  <2> QED BY <1>7, <2>1, <2>2, <2>3, LookupMoves
<1>8. CASE Build(w)
  <2>1. PICK a \in Chart : Built(r, a) /\ Proceeds(w, "store", [r EXCEPT !.value = a])
    BY <1>8, BuildMoves
  <2> DEFINE s == [r EXCEPT !.value = a]
  <2>2. s.hid = r.hid /\ s.value = a /\ s.start = r.start /\ s.user = r.user /\ s.chart = r.chart
    BY <1>0 DEF Request
  <2>3. a.by \in Teachers \cup {None} /\ a.upto \in Nat /\ a.accounts \in Nat
    BY DEF Chart
  <2>4. pc[w] = "build"
    BY <1>8, BuildMoves
  <2>5. Complete(a.by, a.upto, r.start - LoadAge)
    <3>1. CASE r.phase = "own"
      <4>1. a.by = r.teacher /\ a.upto = Len(overrides[r.teacher]) /\ r.teacher \in Teachers
        BY <1>0, <2>1, <3>1 DEF Built, Shape
      <4>2. Len(overrides[r.teacher]) \in Nat
        BY <4>1 DEF Types, DbTypes
      <4> QED BY <4>1, <4>2 DEF Complete
    <3>2. CASE r.phase # "own"
      BY <1>0, <2>1, <3>2 DEF Built, RequestAge
    <3> QED BY <3>1, <3>2
  <2>6. r.user \in Students => Taught(r.user, a.by, r.start - LoadAge)
    <3>1. r.user \in Students => r.phase # "own"
      BY <1>0, NamesAssumption DEF Shape
    <3> QED BY <1>0, <2>1, <2>4, <3>1 DEF Built, RequestAge
  <2>7. r.chart = "company" => HasAccounts(a.accounts, r.start)
    <3>1. Len(accounts) \in Nat
      BY DEF Types, DbTypes
    <3> QED BY <2>1, <3>1 DEF Built, HasAccounts
  <2>8. r.start - ChartAge <= r.start - LoadAge
    BY <1>0
  <2> HIDE DEF s, r
  <2>9. Complete(a.by, a.upto, r.start - ChartAge)
    BY <1>0, <2>3, <2>5, <2>8, Older
  <2>10. RequestAge("store", s)
    BY <1>0, <2>2, <2>5, <2>6, <2>7, <2>9 DEF RequestAge
  <2> QED BY <2>1, <2>10 DEF Aged, Proceeds, r, s
<1>9. CASE Store(w)
  <2>1. pc[w] = "store" /\ Proceeds(w, "reply", r)
    BY <1>9, StoreMoves
  <2>2. r.start - ChartAge <= r.start - LoadAge /\ r.start - ChartAge <= r.start
    BY <1>0
  <2>3. r.value.by \in Teachers \cup {None} /\ r.value.upto \in Nat /\ r.value.accounts \in Nat
    BY AgeFacts
  <2> HIDE DEF r
  <2>4. /\ r.user \in Students => Taught(r.user, r.value.by, r.start - ChartAge)
        /\ r.chart = "company" => HasAccounts(r.value.accounts, r.start - ChartAge)
    BY <1>0, <2>1, <2>2, <2>3, Older DEF RequestAge
  <2>5. RequestAge("reply", r)
    BY <1>0, <2>4 DEF RequestAge
  <2> QED BY <2>1, <2>5 DEF Aged, Proceeds
<1> QED BY <1>1, <1>2, <1>3, <1>4, <1>5, <1>6, <1>7, <1>8, <1>9

-----------------------------------------------------------------------------
(* Time, and what requests hold after a step.                              *)

\* The same request, further on: when it began, and what it knew and saved then.
Alike(r, q) ==
  /\ q.start = r.start /\ q.kind = r.kind /\ q.chart = r.chart /\ q.n = r.n /\ q.since = r.since
  /\ r.kind = "patch" => q.teacher = r.teacher

\* The fields of a request that do not say what it writes.
LEMMA AlikeWith ==
  ASSUME NEW r \in Request, NEW x
  PROVE  /\ Alike(r, r) /\ Alike(r, [r EXCEPT !.cv = x]) /\ Alike(r, [r EXCEPT !.tok = x])
         /\ Alike(r, [r EXCEPT !.key = x]) /\ Alike(r, [r EXCEPT !.hid = x])
         /\ Alike(r, [r EXCEPT !.value = x]) /\ Alike(r, [r EXCEPT !.phase = x])
         /\ Alike(r, [r EXCEPT !.cv = x, !.phase = "token"])
         /\ r.kind # "patch" => Alike(r, [r EXCEPT !.teacher = x])
BY DEF Request, Alike

\* A step keeps what a request writes, announces it, or begins or ends the request.
LEMMA StepAlike ==
  ASSUME Types, NEW w \in Workers, Step(w)
  PROVE  \/ /\ pc[w] # "idle" /\ Alike(req[w], req'[w])
            /\ UNCHANGED <<now, overrides, announced>>
         \/ Announces(w) /\ pc[w] # "idle" /\ UNCHANGED <<now, overrides>>
         \/ SaveOverride(w) \/ ReceivesAny(w) \/ ChangeCourse(w)
         \/ /\ pc'[w] = "idle" /\ req'[w] = Idle
            /\ UNCHANGED <<now, overrides, announced>>
<1> DEFINE r == req[w]
           Same == Alike(r, req'[w])
<1>0. r \in Request /\ Shape(pc[w], r)
  BY RequestFacts
<1>1. ASSUME NEW v, Versioned(w, v) PROVE Same
  <2>1. /\ Alike(r, [r EXCEPT !.cv = v]) /\ Alike(r, [r EXCEPT !.cv = v, !.phase = "token"])
        /\ Alike(r, [r EXCEPT !.tok = <<r.teacher, v>>]) /\ Alike(r, [r EXCEPT !.key = <<r.teacher, v>>])
    BY <1>0, AlikeWith
  <2> QED BY <1>1, <2>1 DEF Versioned, Proceeds, Moves
<1>2. ASSUME NEW h, Hides(w, h) PROVE Same
  <2>1. Alike(r, [r EXCEPT !.hid = h])
    BY <1>0, AlikeWith
  <2> QED BY <1>2, <2>1 DEF Hides, Proceeds, Moves
<1>3. ASSUME NEW t, Teaches(w, t), r.phase # "own" PROVE Same
  <2>1. r.kind # "patch"
    BY <1>0, <1>3 DEF Shape
  <2>2. Alike(r, [r EXCEPT !.teacher = t]) /\ Alike(r, [r EXCEPT !.tok = Public])
    BY <1>0, <2>1, AlikeWith
  <2> QED BY <1>2, <1>3, <2>2 DEF Teaches, Proceeds, Moves
<1>4. ASSUME NEW label, Proceeds(w, label, r) PROVE Same
  <2>1. Alike(r, r)
    BY <1>0, AlikeWith
  <2> QED BY <1>4, <2>1 DEF Proceeds, Moves
<1>5. Proceeds(w, "idle", Idle) => pc'[w] = "idle" /\ req'[w] = Idle
  BY DEF Proceeds, Moves
<1> HIDE DEF Same
<1>6. CASE GetVersion(w) \/ InitVersion(w) \/ BumpAdd(w) \/ BumpIncr(w) \/ BumpSet(w)
  BY <1>1, <1>4, <1>6, GetVersionMoves, InitVersionMoves, BumpAddMoves, BumpIncrMoves, BumpSetMoves
     DEF Same, db
<1>7. CASE BumpRead(w)
  <2>1. pc[w] = "reread" /\ UNCHANGED <<now, overrides, announced>>
    BY <1>7, BumpReadMoves DEF db
  <2>2. PICK c \in Nat : Proceeds(w, "reset", [r EXCEPT !.cv = c])
    BY <1>7, BumpReadMoves
  <2>3. Alike(r, [r EXCEPT !.cv = c])
    BY <1>0, AlikeWith
  <2> QED BY <2>1, <2>2, <2>3 DEF Proceeds, Moves
<1>8. CASE Resolve(w) \/ StoreTeacher(w)
  <2>1. pc[w] \in {"resolve", "remember"} /\ UNCHANGED <<now, overrides, announced>>
    BY <1>8, ResolveMoves, StoreTeacherMoves DEF db
  <2>2. r.phase # "own"
    BY <1>0, <2>1 DEF Shape
  <2> QED BY <1>3, <1>4, <1>8, <2>1, <2>2, ResolveMoves, StoreTeacherMoves DEF Same
<1>9. CASE Forget(w) \/ Ends(w)
  BY <1>5, <1>9, ForgetMoves, EndsMoves DEF db
<1>10. CASE GetHidden(w) \/ StoreHidden(w)
  BY <1>2, <1>4, <1>10, GetHiddenMoves, StoreHiddenMoves DEF Same, db
<1>11. CASE LoadTeacher(w)
  <2> DEFINE t == TeacherOfStudent(r.user)
  <2>1. /\ pc[w] = "enrolment" /\ UNCHANGED <<now, overrides, announced>>
        /\ Proceeds(w, "remember", [r EXCEPT !.teacher = t])
    BY <1>11, LoadTeacherMoves DEF db
  <2> HIDE DEF t
  <2>2. r.kind # "patch"
    BY <1>0, <2>1 DEF Shape
  <2>3. Alike(r, [r EXCEPT !.teacher = t])
    BY <1>0, <2>2, AlikeWith
  <2> QED BY <2>1, <2>3 DEF Proceeds, Moves
<1>12. CASE LoadHidden(w)
  <2> DEFINE h == [by |-> r.key[1], upto |-> Len(overrides[r.key[1]])]
  <2>1. /\ pc[w] = "overrides" /\ UNCHANGED <<now, overrides, announced>>
        /\ Proceeds(w, "keep", [r EXCEPT !.hid = h])
    BY <1>12, LoadHiddenMoves DEF db
  <2> HIDE DEF h
  <2>2. Alike(r, [r EXCEPT !.hid = h])
    BY <1>0, AlikeWith
  <2> QED BY <2>1, <2>2 DEF Proceeds, Moves
<1>13. CASE Lookup(w) \/ Store(w) \/ NothingToSave(w)
  <2> DEFINE a == charts[ChartKey(r)].value
  <2>1. Alike(r, [r EXCEPT !.value = a]) /\ Alike(r, [r EXCEPT !.phase = "hidden"])
    <3> HIDE DEF a
    <3> QED BY <1>0, AlikeWith
  <2>2. Same
    BY <1>4, <1>13, <2>1, LookupMoves, StoreMoves, NothingToSaveMoves DEF Proceeds, Moves, Same
  <2> QED BY <1>13, <2>2, LookupMoves, StoreMoves, NothingToSaveMoves DEF db, Same
<1>14. CASE Build(w)
  <2>1. pc[w] = "build" /\ UNCHANGED <<now, overrides, announced>>
    BY <1>14, BuildMoves DEF db
  <2>2. PICK c \in Chart : Proceeds(w, "store", [r EXCEPT !.value = c])
    BY <1>14, BuildMoves
  <2>3. Alike(r, [r EXCEPT !.value = c])
    BY <1>0, AlikeWith
  <2> QED BY <2>1, <2>2, <2>3 DEF Proceeds, Moves
<1> QED BY <1>6, <1>7, <1>8, <1>9, <1>10, <1>11, <1>12, <1>13, <1>14, StepCases

\* A step takes no time, and a request keeps the time it was received at.
LEMMA StepTime ==
  ASSUME Types, NEW w \in Workers, Step(w)
  PROVE  /\ now' = now /\ Others(w)
         /\ \/ pc'[w] = "idle" /\ req'[w].start = 0
            \/ req'[w].start = now
            \/ pc[w] # "idle" /\ req'[w].start = req[w].start
<1> DEFINE r == req[w]
<1>0. Others(w) /\ r \in Request
  BY StepProceeds, RequestFacts DEF Proceeds, Moves
<1>1. CASE pc[w] # "idle" /\ Alike(r, req'[w]) /\ UNCHANGED now
  BY <1>0, <1>1 DEF Alike
<1>2. CASE Announces(w) /\ pc[w] # "idle" /\ UNCHANGED now
  <2>1. [r EXCEPT !.since = announced'].start = r.start
    BY <1>0 DEF Request
  <2> QED BY <1>0, <1>2, <2>1 DEF Announces, Proceeds, Moves
<1>3. CASE SaveOverride(w)
  <2>1. pc[w] = "save" /\ now' = now
    BY <1>3, SaveOverrideMoves
  <2>2. \E label : Proceeds(w, label, [r EXCEPT !.n = Len(overrides[r.teacher]) + 1])
    BY <1>3, SaveOverrideMoves
  <2>3. [r EXCEPT !.n = Len(overrides[r.teacher]) + 1].start = r.start
    BY <1>0 DEF Request
  <2> QED BY <1>0, <2>1, <2>2, <2>3 DEF Proceeds, Moves
<1>4. CASE ReceivesAny(w)
  BY <1>0, <1>4, ReceiveMoves DEF Proceeds, Moves, Begins
<1>5. CASE ChangeCourse(w)
  <2>1. now' = now /\ \E s \in Students, q \in Request :
          Proceeds(w, "forget", q) /\ q = [Idle EXCEPT !.kind = "course", !.start = now, !.user = s]
    BY <1>5, ChangeCourseMoves
  <2>2. \A s : [Idle EXCEPT !.kind = "course", !.start = now, !.user = s].start = now
    BY DEF Idle
  <2> QED BY <1>0, <2>1, <2>2 DEF Proceeds, Moves
<1>6. CASE pc'[w] = "idle" /\ req'[w] = Idle /\ UNCHANGED now
  BY <1>0, <1>6 DEF Idle
<1> QED BY <1>1, <1>2, <1>3, <1>4, <1>5, <1>6, StepAlike

\* A request takes no longer than gunicorn lets it.
LEMMA TimeStep == Types /\ TimeInv /\ [Next]_vars => TimeInv'
<1> SUFFICES ASSUME Types, TimeInv, [Next]_vars, NEW v \in Workers
             PROVE  req'[v].start <= now' /\ (pc'[v] # "idle" => now' <= req'[v].start + RequestTimeout)
  BY DEF TimeInv
<1>0. /\ now \in Nat /\ RequestTimeout \in Nat /\ req[v].start \in Nat /\ req[v].start <= now
      /\ pc[v] # "idle" => now <= req[v].start + RequestTimeout
  BY Numbers, RequestFacts DEF TimeInv, Types, DbTypes
<1>1. ASSUME NEW w \in Workers, Step(w)
      PROVE  req'[v].start <= now' /\ (pc'[v] # "idle" => now' <= req'[v].start + RequestTimeout)
  <2>1. now' = now
    BY <1>1, StepTime
  <2>2. CASE v # w
    BY <1>0, <1>1, <2>1, <2>2, StepTime DEF Others
  <2>3. CASE v = w
    <3>1. CASE pc'[w] = "idle" /\ req'[w].start = 0
      BY <1>0, <2>1, <2>3, <3>1
    <3>2. CASE req'[w].start = now
      BY <1>0, <2>1, <2>3, <3>2
    <3>3. CASE pc[w] # "idle" /\ req'[w].start = req[w].start
      BY <1>0, <2>1, <2>3, <3>3
    <3> QED BY <1>1, <3>1, <3>2, <3>3, StepTime
  <2> QED BY <2>2, <2>3
<1>2. CASE Tick
  <2>1. /\ now' = now + 1 /\ UNCHANGED <<pc, req>>
        /\ pc[v] # "idle" => now < req[v].start + RequestTimeout
    BY <1>2 DEF Tick
  <2> QED BY <1>0, <2>1
<1>3. CASE DeleteCourse \/ UNCHANGED vars
  <2>1. UNCHANGED <<now, pc, req>>
    BY <1>3 DEF DeleteCourse, vars
  <2> QED BY <1>0, <2>1
<1> QED BY <1>1, <1>2, <1>3 DEF Next

\* Whatever others commit meanwhile, a request that does not move is no older than its label allows.
LEMMA KeepsAge ==
  ASSUME Types, [Next]_vars, NEW label, NEW r \in Request, r.start <= now, Shape(label, r),
         RequestAge(label, r)
  PROVE  RequestAge(label, r)'
<1>1. /\ r.start \in Int /\ r.start - LoadAge \in Int /\ r.start - ChartAge \in Int
      /\ r.start - LoadAge <= now /\ r.start - ChartAge <= now
  BY Numbers DEF Request, Types, DbTypes
<1>2. /\ r.hid.by \in Teachers \cup {None} /\ r.hid.upto \in Nat
      /\ r.value.by \in Teachers \cup {None} /\ r.value.upto \in Nat /\ r.value.accounts \in Nat
      /\ r.teacher \in Teachers \cup {None} /\ r.key[1] \in Teachers \cup {None}
  BY DEF Request, Hidden, Chart, Token
<1>3. /\ label \in {"remember", "hidden", "overrides", "keep"} => r.user \in Students
      /\ label \in {"version", "init"} /\ r.phase = "hidden" => r.user \in Students
  BY DEF Shape
<1> DEFINE x == r.start - LoadAge
           y == r.start - ChartAge
<1>4. /\ Complete(r.hid.by, r.hid.upto, x) => Complete(r.hid.by, r.hid.upto, x)'
      /\ Complete(r.value.by, r.value.upto, x) => Complete(r.value.by, r.value.upto, x)'
      /\ \A s \in Students, t \in Teachers \cup {None} : Taught(s, t, x) => Taught(s, t, x)'
  <2> HIDE DEF x
  <2> QED BY <1>1, <1>2, NothingNewIsOld DEF x
<1>5. /\ Complete(r.value.by, r.value.upto, y) => Complete(r.value.by, r.value.upto, y)'
      /\ HasAccounts(r.value.accounts, y) => HasAccounts(r.value.accounts, y)'
      /\ \A s \in Students, t \in Teachers \cup {None} : Taught(s, t, y) => Taught(s, t, y)'
  <2> HIDE DEF y
  <2> QED BY <1>1, <1>2, NothingNewIsOld DEF y
<1>6. /\ Complete(r.hid.by, r.hid.upto, r.start) => Complete(r.hid.by, r.hid.upto, r.start)'
      /\ HasAccounts(r.value.accounts, r.start) => HasAccounts(r.value.accounts, r.start)'
      /\ \A s \in Students, t \in Teachers \cup {None} : Taught(s, t, r.start) => Taught(s, t, r.start)'
  BY <1>1, <1>2, NothingNewIsOld
<1> QED BY <1>2, <1>3, <1>4, <1>5, <1>6 DEF RequestAge

\* Where the worker that takes a step goes on, it is no older than its new label allows.
LEMMA WorkerAge ==
  ASSUME Types, AgeInv, NEW w \in Workers, Step(w)
  PROVE  RequestAge(pc[w], req[w])'
<1> DEFINE r == req[w]
<1>0. r \in Request /\ Shape(pc[w], r) /\ RequestAge(pc[w], r) /\ r.start <= now
  BY RequestFacts, AgeFacts
<1>1. ASSUME NEW label, NEW q, Moves(w, label, q), RequestAge(label, q)' PROVE RequestAge(pc[w], req[w])'
  <2>1. pc'[w] = label /\ req'[w] = q
    BY <1>1 DEF Moves
  <2> QED BY <1>1, <2>1
<1>2. ASSUME UNCHANGED db, Aged(w) PROVE RequestAge(pc[w], req[w])'
  <2>1. PICK label, q : Moves(w, label, q) /\ RequestAge(label, q)
    BY <1>2 DEF Aged
  <2>2. RequestAge(label, q)'
    BY <1>2, <2>1, SameDb
  <2> QED BY <1>1, <2>1, <2>2
<1>3. ASSUME NEW label \in {"init", "incr", "reread"}, Proceeds(w, label, r),
             label = "init" => pc[w] = "version"
      PROVE  Aged(w)
  <2>1. RequestAge(label, r)
    BY <1>0, <1>3 DEF RequestAge
  <2> QED BY <1>3, <2>1 DEF Aged, Proceeds
<1>4. CASE GetVersion(w)
  <2> DEFINE found == versions[VersionKey(r)].value
  <2>1. pc[w] = "version" /\ UNCHANGED db /\ (Versioned(w, found) \/ Proceeds(w, "init", r))
    BY <1>4, GetVersionMoves
  <2>2. found \in Nat
    BY <2>1, KeyTypes DEF Types, CacheTypes
  <2> HIDE DEF found
  <2> QED BY <1>2, <1>3, <2>1, <2>2, VersionedAged
<1>5. CASE InitVersion(w)
  BY <1>2, <1>5, InitVersionMoves, VersionedAged
<1>6. CASE BumpAdd(w) \/ BumpIncr(w) \/ BumpSet(w)
  <2>1. UNCHANGED db /\ (Announces(w) \/ \E label \in {"incr", "reread"} : Proceeds(w, label, r))
    BY <1>6, BumpAddMoves, BumpIncrMoves, BumpSetMoves
  <2>2. Aged(w)
    BY <1>3, <2>1, AnnouncesAged
  <2> QED BY <1>2, <2>1, <2>2
<1>7. CASE BumpRead(w)
  <2>1. UNCHANGED db
    BY <1>7, BumpReadMoves
  <2>2. PICK c \in Nat : Proceeds(w, "reset", [r EXCEPT !.cv = c])
    BY <1>7, BumpReadMoves
  <2> DEFINE q == [r EXCEPT !.cv = c]
  <2>3. q.hid = r.hid /\ q.value = r.value /\ q.start = r.start
    BY <1>0 DEF Request
  <2>4. RequestAge("reset", q)
    <3> HIDE DEF q
    <3> QED BY <1>0, <2>3 DEF RequestAge
  <2> QED BY <1>2, <2>1, <2>2, <2>4 DEF Aged, Proceeds
<1>8. CASE \/ Resolve(w) \/ LoadTeacher(w) \/ StoreTeacher(w)
           \/ GetHidden(w) \/ LoadHidden(w) \/ StoreHidden(w)
           \/ Lookup(w) \/ Build(w) \/ Store(w)
  <2>1. UNCHANGED db
    BY <1>8 DEF Resolve, LoadTeacher, StoreTeacher, GetHidden, LoadHidden, StoreHidden, Lookup, Build, Store
  <2> QED BY <1>2, <1>8, <2>1, ReadsAged
<1>9. CASE NothingToSave(w)
  <2>1. pc[w] = "save" /\ UNCHANGED db /\ Proceeds(w, "add", r)
    BY <1>9, NothingToSaveMoves
  <2>2. r.user = Staff
    BY <1>0, <2>1 DEF Shape
  <2>3. RequestAge("add", r)
    BY <1>0, <2>2, NamesAssumption DEF RequestAge
  <2> QED BY <1>2, <2>1, <2>3 DEF Aged, Proceeds
<1>10. CASE ReceivesAny(w)
  <2>1. PICK label \in PCs, q \in Request : Proceeds(w, label, q) /\ Begins(label, q)
    BY <1>10, ReceiveMoves
  <2>2. RequestAge(label, q)'
    BY <2>1, EmptyAge DEF Begins, NothingHidden, EmptyChart
  <2> QED BY <1>1, <2>1, <2>2 DEF Proceeds
<1>11. CASE ChangeCourse(w)
  <2>1. PICK s \in Students, k \in Courses \cup {None}, q \in Request :
          /\ course' = [course EXCEPT ![s] = k]
          /\ leftAt' = [leftAt EXCEPT ![s][TeacherOfStudent(s)] = now]
          /\ Proceeds(w, "forget", q) /\ q.user = s
          /\ q = [Idle EXCEPT !.kind = "course", !.start = now, !.user = s]
    BY <1>11, ChangeCourseMoves
  <2>2. q.hid.by = None /\ q.value.by = None
    BY <2>1 DEF Idle, NothingHidden, EmptyChart
  <2>3. RequestAge("forget", q)'
    BY <2>2, EmptyAge
  <2> QED BY <1>1, <2>1, <2>3 DEF Proceeds
<1>12. CASE Forget(w) \/ Ends(w)
  <2>1. Proceeds(w, "idle", Idle)
    BY <1>12, ForgetMoves, EndsMoves
  <2>2. Idle.hid.by = None /\ Idle.value.by = None
    BY DEF Idle, NothingHidden, EmptyChart
  <2>3. RequestAge("idle", Idle)'
    BY <2>2, EmptyAge
  <2> QED BY <1>1, <2>1, <2>3 DEF Proceeds
<1>13. CASE SaveOverride(w)
  <2>1. pc[w] = "save"
    BY <1>13, SaveOverrideMoves
  <2>2. PICK q : \E label \in {"add", "save"}, n \in Nat : Proceeds(w, label, q) /\ q = [r EXCEPT !.n = n]
    <3>1. Len(overrides[r.teacher]) + 1 \in Nat
      BY <1>13, SaveOverrideMoves
    <3> QED BY <1>13, <3>1, SaveOverrideMoves
  <2>label. PICK label \in {"add", "save"}, n \in Nat : Proceeds(w, label, q) /\ q = [r EXCEPT !.n = n]
    BY <2>2
  <2>3. q.hid = r.hid /\ q.value = r.value /\ q.start = r.start /\ q.user = r.user /\ q \in Request
    BY <1>0, <2>label DEF Request
  <2>4. q.user = Staff
    BY <1>0, <2>1, <2>3 DEF Shape
  <2>5. RequestAge(label, q)
    BY <1>0, <2>3, <2>4, NamesAssumption DEF RequestAge
  <2>6. Shape(label, q) /\ q.start <= now
    BY <1>0, <2>3, <2>label DEF Proceeds
  <2>7. [Next]_vars
    BY DEF Next
  <2>8. RequestAge(label, q)'
    BY <2>3, <2>5, <2>6, <2>7, KeepsAge
  <2> QED BY <1>1, <2>8, <2>label DEF Proceeds
<1> QED BY <1>4, <1>5, <1>6, <1>7, <1>8, <1>9, <1>10, <1>11, <1>12, <1>13, StepCases

\* Every step keeps what requests hold young enough.
LEMMA RequestAgesStep == Types /\ AgeInv /\ [Next]_vars => RequestAges'
<1> SUFFICES ASSUME Types, AgeInv, [Next]_vars, NEW v \in Workers
             PROVE  RequestAge(pc[v], req[v])'
  BY DEF RequestAges
<1>1. ASSUME pc'[v] = pc[v], req'[v] = req[v] PROVE RequestAge(pc[v], req[v])'
  <2> DEFINE label == pc[v]
             r == req[v]
  <2>1. r \in Request /\ r.start <= now /\ Shape(label, r) /\ RequestAge(label, r)
    BY RequestFacts, AgeFacts
  <2>2. ASSUME NEW l, NEW q \in Request, q.start <= now, Shape(l, q), RequestAge(l, q)
        PROVE  RequestAge(l, q)'
    BY <2>2, KeepsAge
  <2>3. PICK l, q : l = label /\ q = r
    OBVIOUS
  <2>4. RequestAge(l, q)'
    BY <2>1, <2>2, <2>3
  <2>5. pc'[v] = l /\ req'[v] = q
    BY <1>1, <2>3
  <2> QED BY <2>4, <2>5
<1>2. ASSUME NEW w \in Workers, Step(w) PROVE RequestAge(pc[v], req[v])'
  BY <1>1, <1>2, WorkerAge, StepTime DEF Others
<1>3. CASE Tick \/ DeleteCourse \/ UNCHANGED vars
  BY <1>1, <1>3 DEF Tick, DeleteCourse, vars
<1> QED BY <1>2, <1>3 DEF Next

-----------------------------------------------------------------------------
(* What is cached after a step.                                            *)

\* An entry that is kept has lost nothing that is old enough; one that is stored is no older than
\* the request that stores it.
LEMMA TeacherAgesStep == Types /\ AgeInv /\ [Next]_vars => TeacherAges'
<1> SUFFICES ASSUME Types, AgeInv, [Next]_vars, NEW s \in Students, resolved'[s] # NoTeacher
             PROVE  /\ now' < resolved'[s].until /\ resolved'[s].until <= now' + VisibilityTimeout
                    /\ Taught(s, resolved[s].value, resolved[s].until - LoadAge)'
  BY DEF TeacherAges
<1>0. /\ now \in Nat /\ VisibilityTimeout \in Nat /\ VisibilityTimeout > 0 /\ LoadAge \in Nat
      /\ RequestTimeout \in Nat /\ LoadAge = VisibilityTimeout + RequestTimeout
  BY Numbers DEF Types, DbTypes
<1>1. ASSUME resolved'[s] = resolved[s], now' < resolved[s].until, now <= now', now' \in Nat
      PROVE  /\ now' < resolved'[s].until /\ resolved'[s].until <= now' + VisibilityTimeout
             /\ Taught(s, resolved[s].value, resolved[s].until - LoadAge)'
  <2>1. PICK t \in Teachers \cup {None}, until \in Nat : t = resolved[s].value /\ until = resolved[s].until
    BY DEF Types, CacheTypes
  <2>2. until <= now + VisibilityTimeout /\ Taught(s, t, until - LoadAge)
    BY <1>1, <2>1 DEF AgeInv, TeacherAges
  <2>3. until - LoadAge \in Int /\ until - LoadAge <= now
    BY <1>0, <2>2
  <2>4. Taught(s, t, until - LoadAge)'
    <3> DEFINE x == until - LoadAge
    <3> HIDE DEF x
    <3>1. Taught(s, t, x)'
      BY <2>2, <2>3, NothingNewIsOld DEF x
    <3> QED BY <3>1 DEF x
  <2>5. resolved'[s].value = t /\ resolved'[s].until = until
    BY <1>1, <2>1
  <2> QED BY <1>0, <1>1, <2>1, <2>2, <2>4, <2>5
<1>2. ASSUME NEW w \in Workers, Step(w), resolved'[s] # resolved[s]
      PROVE  /\ now' < resolved'[s].until /\ resolved'[s].until <= now' + VisibilityTimeout
             /\ Taught(s, resolved[s].value, resolved[s].until - LoadAge)'
  <2>0. resolved \in [Students -> [value : Teachers \cup {None}, until : Nat]]
    BY DEF Types, CacheTypes
  <2>1. CASE Forget(w)
    <3>1. resolved'[s] = NoTeacher \/ resolved'[s] = resolved[s]
      BY <2>0, <2>1, ForgetMoves
    <3> QED BY <1>2, <3>1
  <2>2. CASE StoreTeacher(w)
    <3>1. PICK u \in Students, t \in Teachers \cup {None} : u = req[w].user /\ t = req[w].teacher
      BY <2>2, StoreTeacherMoves
    <3>2. pc[w] = "remember" /\ now' = now
      BY <2>2, StoreTeacherMoves
    <3>3. u = s /\ resolved'[s] = [value |-> t, until |-> now + VisibilityTimeout]
      BY <1>2, <2>0, <2>2, <3>1, StoreTeacherMoves
    <3>4. PICK until \in Nat : until = now + VisibilityTimeout
      BY <1>0
    <3>5. PICK x \in Int : x = until - LoadAge
      BY <1>0
    <3>6. x <= now /\ x <= req[w].start /\ req[w].start \in Int
      <4>1. req[w].start \in Nat /\ now <= req[w].start + RequestTimeout
        BY <3>2, RequestFacts DEF AgeInv, TimeInv
      <4> QED BY <1>0, <3>4, <3>5, <4>1
    <3>7. Taught(s, t, req[w].start)
      BY <3>1, <3>2, <3>3, AgeFacts DEF RequestAge
    <3>8. Taught(s, t, x)
      BY <3>6, <3>7, Older
    <3>9. Taught(s, t, x)'
      BY <3>6, <3>8, NothingNewIsOld
    <3>10. resolved'[s].value = t /\ resolved'[s].until = until /\ x = until - LoadAge
      BY <3>3, <3>4, <3>5
    <3> QED BY <1>0, <3>2, <3>4, <3>9, <3>10
  <2> QED BY <1>2, <2>1, <2>2, CacheStep
<1>3. ASSUME now' = now, resolved'[s] = resolved[s]
      PROVE  /\ now' < resolved'[s].until /\ resolved'[s].until <= now' + VisibilityTimeout
             /\ Taught(s, resolved[s].value, resolved[s].until - LoadAge)'
  <2>1. now < resolved[s].until
    BY <1>3 DEF AgeInv, TeacherAges
  <2> QED BY <1>0, <1>1, <1>3, <2>1
<1>4. CASE Tick
  <2>1. now' = now + 1 /\ resolved'[s] = resolved[s] /\ now' < resolved[s].until
    BY <1>0, <1>4 DEF Tick, Types, CacheTypes
  <2> QED BY <1>0, <1>1, <2>1
<1>5. CASE DeleteCourse \/ UNCHANGED vars
  BY <1>3, <1>5 DEF DeleteCourse, vars, cache
<1> QED BY <1>2, <1>3, <1>4, <1>5, StepTime DEF Next

\* Every step keeps the cached hidden accounts young enough.
LEMMA HiddenAgesStep == Types /\ AgeInv /\ [Next]_vars => HiddenAges'
<1> SUFFICES ASSUME Types, AgeInv, [Next]_vars, NEW k \in DOMAIN hidden'
             PROVE  /\ now' < hidden'[k].until /\ hidden'[k].until <= now' + VisibilityTimeout
                    /\ Complete(hidden[k].value.by, hidden[k].value.upto, hidden[k].until - LoadAge)'
  BY DEF HiddenAges
<1>0. /\ now \in Nat /\ VisibilityTimeout \in Nat /\ VisibilityTimeout > 0 /\ LoadAge \in Nat
      /\ RequestTimeout \in Nat /\ LoadAge = VisibilityTimeout + RequestTimeout
  BY Numbers DEF Types, DbTypes
<1>1. ASSUME k \in DOMAIN hidden, hidden'[k] = hidden[k], now' < hidden[k].until, now <= now', now' \in Nat
      PROVE  /\ now' < hidden'[k].until /\ hidden'[k].until <= now' + VisibilityTimeout
             /\ Complete(hidden[k].value.by, hidden[k].value.upto, hidden[k].until - LoadAge)'
  <2>0. hidden[k].value \in Hidden /\ hidden[k].until \in Nat
    BY <1>1 DEF Types, CacheTypes
  <2>1. PICK t \in Teachers \cup {None}, n \in Nat, until \in Nat :
          t = hidden[k].value.by /\ n = hidden[k].value.upto /\ until = hidden[k].until
    BY <2>0 DEF Hidden
  <2>2. until <= now + VisibilityTimeout /\ Complete(t, n, until - LoadAge)
    BY <1>1, <2>1 DEF AgeInv, HiddenAges
  <2>3. PICK x \in Int : x = until - LoadAge /\ x <= now
    BY <1>0, <2>2
  <2>4. Complete(t, n, x)'
    BY <2>2, <2>3, NothingNewIsOld
  <2>5. hidden'[k].value.by = t /\ hidden'[k].value.upto = n /\ hidden'[k].until = until
    BY <1>1, <2>1
  <2> QED BY <1>0, <1>1, <2>1, <2>2, <2>3, <2>4, <2>5
<1>2. ASSUME NEW w \in Workers, Step(w), pc[w] = "keep", k = req[w].key,
             hidden'[k] = [value |-> req[w].hid, until |-> now + VisibilityTimeout]
      PROVE  /\ now' < hidden'[k].until /\ hidden'[k].until <= now' + VisibilityTimeout
             /\ Complete(hidden[k].value.by, hidden[k].value.upto, hidden[k].until - LoadAge)'
  <2>1. PICK t \in Teachers \cup {None}, n \in Nat : t = req[w].hid.by /\ n = req[w].hid.upto
    BY AgeFacts
  <2>2. now' = now
    BY <1>2, StepTime
  <2>3. PICK until \in Nat : until = now + VisibilityTimeout
    BY <1>0
  <2>4. PICK x \in Int : x = until - LoadAge
    BY <1>0
  <2>5. x <= now /\ x <= req[w].start /\ req[w].start \in Int
    <3>1. req[w].start \in Nat /\ now <= req[w].start + RequestTimeout
      BY <1>2, RequestFacts DEF AgeInv, TimeInv
    <3> QED BY <1>0, <2>3, <2>4, <3>1
  <2>6. Complete(t, n, req[w].start)
    BY <1>2, <2>1, AgeFacts DEF RequestAge
  <2>7. Complete(t, n, x)
    BY <2>5, <2>6, Older
  <2>8. Complete(t, n, x)'
    BY <2>5, <2>7, NothingNewIsOld
  <2>9. hidden'[k].value.by = t /\ hidden'[k].value.upto = n /\ hidden'[k].until = until
    BY <1>2, <2>1, <2>3
  <2> QED BY <1>0, <2>2, <2>3, <2>4, <2>8, <2>9
<1>3. ASSUME now' = now, k \in DOMAIN hidden, hidden'[k] = hidden[k]
      PROVE  /\ now' < hidden'[k].until /\ hidden'[k].until <= now' + VisibilityTimeout
             /\ Complete(hidden[k].value.by, hidden[k].value.upto, hidden[k].until - LoadAge)'
  <2>1. now < hidden[k].until
    BY <1>3 DEF AgeInv, HiddenAges
  <2> QED BY <1>0, <1>1, <1>3, <2>1
<1>4. CASE Tick
  <2>1. now' = now + 1 /\ k \in DOMAIN hidden /\ hidden'[k] = hidden[k] /\ hidden[k].until > now'
    BY <1>4 DEF Tick, Unexpired
  <2>2. hidden[k].until \in Nat
    BY <2>1 DEF Types, CacheTypes
  <2> QED BY <1>0, <1>1, <2>1, <2>2
<1>5. CASE DeleteCourse \/ UNCHANGED vars
  BY <1>3, <1>5 DEF DeleteCourse, vars, cache
<1>6. ASSUME NEW w \in Workers, Step(w)
      PROVE  \/ k \in DOMAIN hidden /\ hidden'[k] = hidden[k]
             \/ /\ pc[w] = "keep" /\ k = req[w].key
                /\ hidden'[k] = [value |-> req[w].hid, until |-> now + VisibilityTimeout]
  <2>1. CASE hidden' = Put(hidden, req[w].key, req[w].hid, VisibilityTimeout)
    BY <1>6, <2>1, CacheStep DEF Put
  <2> QED BY <1>6, <2>1, CacheStep
<1> QED BY <1>2, <1>3, <1>4, <1>5, <1>6, StepTime DEF Next

\* Every step keeps the cached charts young enough.
LEMMA ChartAgesStep == Types /\ AgeInv /\ [Next]_vars => ChartAges'
<1> DEFINE Aging(k) ==
      /\ now' < charts'[k].until /\ charts'[k].until <= now' + ChartTimeout
      /\ Complete(charts[k].value.by, charts[k].value.upto, charts[k].until - ChartAge)'
      /\ k[1] = "company" => HasAccounts(charts[k].value.accounts, charts[k].until - ChartAge)'
      /\ k[2] \in Students => Taught(k[2], charts[k].value.by, charts[k].until - ChartAge)'
<1> SUFFICES ASSUME Types, AgeInv, [Next]_vars, NEW k \in DOMAIN charts' PROVE Aging(k)
  BY DEF ChartAges
<1>0. /\ now \in Nat /\ ChartTimeout \in Nat /\ ChartTimeout > 0 /\ LoadAge \in Nat /\ ChartAge \in Nat
      /\ RequestTimeout \in Nat /\ ChartAge = LoadAge + ChartTimeout + RequestTimeout
  BY Numbers DEF Types, DbTypes
<1>1. ASSUME k \in DOMAIN charts, charts'[k] = charts[k], now' < charts[k].until, now <= now', now' \in Nat
      PROVE  Aging(k)
  <2>0. charts[k].value \in Chart /\ charts[k].until \in Nat
    BY <1>1 DEF Types, CacheTypes
  <2>1. PICK t \in Teachers \cup {None}, n \in Nat, m \in Nat, until \in Nat :
          /\ t = charts[k].value.by /\ n = charts[k].value.upto /\ m = charts[k].value.accounts
          /\ until = charts[k].until
    BY <2>0 DEF Chart
  <2>2. PICK x \in Int : x = until - ChartAge
    BY <1>0
  <2>3. /\ until <= now + ChartTimeout /\ Complete(t, n, x)
        /\ k[1] = "company" => HasAccounts(m, x)
        /\ k[2] \in Students => Taught(k[2], t, x)
    BY <1>1, <2>1, <2>2 DEF AgeInv, ChartAges
  <2>4. x <= now
    BY <1>0, <2>2, <2>3
  <2>5. /\ Complete(t, n, x)'
        /\ k[1] = "company" => HasAccounts(m, x)'
        /\ k[2] \in Students => Taught(k[2], t, x)'
    BY <2>3, <2>4, NothingNewIsOld
  <2>6. /\ charts'[k].value.by = t /\ charts'[k].value.upto = n /\ charts'[k].value.accounts = m
        /\ charts'[k].until = until
    BY <1>1, <2>1
  <2> QED BY <1>0, <1>1, <2>1, <2>2, <2>3, <2>5, <2>6
<1>2. ASSUME NEW w \in Workers, Step(w), pc[w] = "store", k = ChartKey(req[w]),
             charts'[k] = [value |-> req[w].value, until |-> now + ChartTimeout]
      PROVE  Aging(k)
  <2> DEFINE r == req[w]
  <2>1. PICK t \in Teachers \cup {None}, n \in Nat, m \in Nat :
          t = r.value.by /\ n = r.value.upto /\ m = r.value.accounts
    BY AgeFacts
  <2>2. now' = now
    BY <1>2, StepTime
  <2>3. PICK until \in Nat : until = now + ChartTimeout
    BY <1>0
  <2>4. PICK x \in Int : x = until - ChartAge
    BY <1>0
  <2>5. PICK start \in Nat : start = r.start /\ now <= start + RequestTimeout
    BY <1>2, RequestFacts DEF AgeInv, TimeInv
  <2>6. x <= now /\ x <= start /\ x <= start - LoadAge /\ start - LoadAge \in Int
    BY <1>0, <2>3, <2>4, <2>5
  <2>7. k[2] = r.user /\ (k[1] = "company" => r.chart = "company")
    BY <1>2 DEF ChartKey
  <2>8. /\ Complete(t, n, start - LoadAge)
        /\ k[2] \in Students => Taught(k[2], t, start - LoadAge)
        /\ k[1] = "company" => HasAccounts(m, start)
    BY <1>2, <2>1, <2>5, <2>7, AgeFacts DEF RequestAge
  <2>9. Complete(t, n, x) /\ (k[2] \in Students => Taught(k[2], t, x))
    BY <2>6, <2>8, Older
  <2>10. k[1] = "company" => HasAccounts(m, x)
    BY <2>6, <2>8, Older
  <2>11. /\ Complete(t, n, x)'
         /\ k[1] = "company" => HasAccounts(m, x)'
         /\ k[2] \in Students => Taught(k[2], t, x)'
    BY <2>6, <2>9, <2>10, NothingNewIsOld
  <2>12. /\ charts'[k].value.by = t /\ charts'[k].value.upto = n /\ charts'[k].value.accounts = m
         /\ charts'[k].until = until
    BY <1>2, <2>1, <2>3
  <2> QED BY <1>0, <2>2, <2>3, <2>4, <2>11, <2>12
<1>3. ASSUME now' = now, k \in DOMAIN charts, charts'[k] = charts[k]
      PROVE  Aging(k)
  <2>1. now < charts[k].until
    BY <1>3 DEF AgeInv, ChartAges
  <2> HIDE DEF Aging
  <2> QED BY <1>0, <1>1, <1>3, <2>1
<1>4. CASE Tick
  <2>1. now' = now + 1 /\ k \in DOMAIN charts /\ charts'[k] = charts[k] /\ charts[k].until > now'
    BY <1>4 DEF Tick, Unexpired
  <2>2. charts[k].until \in Nat
    BY <2>1 DEF Types, CacheTypes
  <2> HIDE DEF Aging
  <2> QED BY <1>0, <1>1, <2>1, <2>2
<1> HIDE DEF Aging
<1>5. CASE DeleteCourse \/ UNCHANGED vars
  BY <1>3, <1>5 DEF DeleteCourse, vars, cache
<1>6. ASSUME NEW w \in Workers, Step(w)
      PROVE  \/ k \in DOMAIN charts /\ charts'[k] = charts[k]
             \/ /\ pc[w] = "store" /\ k = ChartKey(req[w])
                /\ charts'[k] = [value |-> req[w].value, until |-> now + ChartTimeout]
  <2>1. \/ charts' = charts
        \/ pc[w] = "store" /\ charts' = Put(charts, ChartKey(req[w]), req[w].value, ChartTimeout)
    BY <1>6, CacheStep
  <2>2. CASE pc[w] = "store" /\ charts' = Put(charts, ChartKey(req[w]), req[w].value, ChartTimeout)
    BY <2>2 DEF Put
  <2> QED BY <2>1, <2>2
<1> QED BY <1>2, <1>3, <1>4, <1>5, <1>6, StepTime DEF Next

\* Nothing is cached at the beginning.
LEMMA InitialAges == Init => AgeInv
<1> SUFFICES ASSUME Init PROVE AgeInv
  OBVIOUS
<1>1. TimeInv
  BY DEF Init, TimeInv, Idle
<1>2. TeacherAges /\ HiddenAges /\ ChartAges
  BY DEF Init, TeacherAges, HiddenAges, ChartAges
<1>3. RequestAges
  <2>1. Idle.hid.by = None /\ Idle.value.by = None
    BY DEF Idle, NothingHidden, EmptyChart
  <2>2. RequestAge("idle", Idle)
    BY <2>1, EmptyAge
  <2> QED BY <2>2 DEF Init, RequestAges
<1> QED BY <1>1, <1>2, <1>3 DEF AgeInv

\* Every step keeps the invariant of the ages.
LEMMA AgesStep == Types /\ AgeInv /\ [Next]_vars => AgeInv'
BY TimeStep, TeacherAgesStep, HiddenAgesStep, ChartAgesStep, RequestAgesStep DEF AgeInv

\* Answers that are young enough have seen what happened MaxAge before.
LEMMA AgesBoundAnswers == Types /\ AgeInv => ChartsAgeOut
<1> SUFFICES ASSUME Types, AgeInv, NEW w \in Workers
             PROVE  LET a == Applied(w)  r == req[w] IN
                    /\ a.by # None =>
                         \A i \in 1..Len(overrides[a.by]) : i > a.upto => now - overrides[a.by][i] <= MaxAge
                    /\ pc[w] = "reply" /\ r.chart = "company" =>
                         \A i \in 1..Len(accounts) : i > r.value.accounts => now - accounts[i] <= MaxAge
                    /\ (pc[w] \in {"reply", "add"} /\ r.user # Staff /\ a.by # TeacherOfStudent(r.user))
                         => leftAt[r.user][a.by] >= 0 /\ now - leftAt[r.user][a.by] <= MaxAge
  BY DEF ChartsAgeOut
<1> DEFINE r == req[w]
           a == Applied(w)
<1>0. /\ now \in Nat /\ LoadAge \in Nat /\ ChartAge \in Nat /\ RequestTimeout \in Nat
      /\ MaxAge = ChartAge + RequestTimeout /\ LoadAge <= ChartAge
      /\ RequestAge(pc[w], r) /\ r.start \in Nat /\ Shape(pc[w], r)
      /\ r.user \in Students \cup {Staff}
  BY Numbers, AgeFacts, RequestFacts
<1>1. a.by \in Teachers \cup {None} /\ a.upto \in Nat
  <2>1. NothingHidden.by = None /\ NothingHidden.upto = 0
    BY DEF NothingHidden
  <2>2. CASE pc[w] = "reply"
    BY <2>2, AgeFacts DEF Applied
  <2>3. CASE pc[w] = "add" /\ r.kind = "write"
    BY <2>3, AgeFacts DEF Applied
  <2>4. CASE pc[w] # "reply" /\ ~(pc[w] = "add" /\ r.kind = "write")
    <3>1. a = NothingHidden
      BY <2>4 DEF Applied
    <3> QED BY <2>1, <3>1
  <2> QED BY <2>2, <2>3, <2>4
<1>2. a.by # None => pc[w] = "reply" \/ (pc[w] = "add" /\ r.kind = "write")
  BY DEF Applied, NothingHidden
<1>3. (pc[w] = "reply" \/ (pc[w] = "add" /\ r.kind = "write")) =>
        Complete(a.by, a.upto, r.start - ChartAge)
  <2>1. CASE pc[w] = "reply"
    <3>1. a.by = r.value.by /\ a.upto = r.value.upto
      BY <2>1 DEF Applied
    <3> QED BY <1>0, <3>1 DEF RequestAge
  <2>2. CASE pc[w] = "add" /\ r.kind = "write"
    <3>1. a = r.hid
      BY <2>2 DEF Applied
    <3>2. Complete(a.by, a.upto, r.start - LoadAge)
      BY <1>0, <3>1 DEF RequestAge
    <3>3. /\ r.start - LoadAge \in Int /\ r.start - ChartAge \in Int
          /\ r.start - ChartAge <= r.start - LoadAge
      BY <1>0
    <3> HIDE DEF a, r
    <3> QED BY <1>1, <3>2, <3>3, Older
  <2> QED BY <2>1, <2>2
<1>4. pc[w] # "idle" => now <= r.start + RequestTimeout
  BY DEF AgeInv, TimeInv
<1>5. ASSUME a.by # None, NEW i \in 1..Len(overrides[a.by]), i > a.upto
      PROVE  now - overrides[a.by][i] <= MaxAge
  <2>1. overrides[a.by][i] \in Nat
    <3>1. overrides[a.by] \in Seq(Nat)
      BY <1>1, <1>5 DEF Types, DbTypes
    <3> HIDE DEF a
    <3> QED BY <1>5, <3>1
  <2>2. overrides[a.by][i] >= r.start - ChartAge /\ now <= r.start + RequestTimeout
    BY <1>2, <1>3, <1>4, <1>5 DEF Complete
  <2> HIDE DEF a, r
  <2> QED BY <1>0, <2>1, <2>2
<1>6. ASSUME pc[w] = "reply", r.chart = "company", NEW i \in 1..Len(accounts), i > r.value.accounts
      PROVE  now - accounts[i] <= MaxAge
  <2>1. accounts[i] \in Nat
    BY <1>6 DEF Types, DbTypes
  <2>2. accounts[i] >= r.start - ChartAge /\ now <= r.start + RequestTimeout
    BY <1>0, <1>4, <1>6 DEF RequestAge, HasAccounts
  <2> HIDE DEF a, r
  <2> QED BY <1>0, <2>1, <2>2
<1>7. ASSUME pc[w] \in {"reply", "add"}, r.user # Staff, a.by # TeacherOfStudent(r.user)
      PROVE  leftAt[r.user][a.by] >= 0 /\ now - leftAt[r.user][a.by] <= MaxAge
  <2>0. r.user \in Students
    BY <1>0, <1>7
  <2>1. Taught(r.user, a.by, r.start - ChartAge)
    <3>1. CASE pc[w] = "reply"
      <4>1. a.by = r.value.by
        BY <3>1 DEF Applied
      <4> QED BY <1>0, <2>0, <3>1, <4>1 DEF RequestAge
    <3>2. CASE pc[w] = "add"
      <4>1. r.kind = "write"
        BY <1>0, <1>7, <3>2 DEF Shape
      <4>2. a = r.hid
        BY <3>2, <4>1 DEF Applied
      <4>3. Taught(r.user, a.by, r.start - LoadAge)
        BY <1>0, <2>0, <3>2, <4>2 DEF RequestAge
      <4>4. /\ r.start - LoadAge \in Int /\ r.start - ChartAge \in Int
            /\ r.start - ChartAge <= r.start - LoadAge
        BY <1>0
      <4> HIDE DEF a, r
      <4> QED BY <1>1, <2>0, <4>3, <4>4, Older
    <3> QED BY <1>7, <3>1, <3>2
  <2>2. leftAt[r.user][a.by] \in Int
    BY <1>1, <2>0 DEF Types, DbTypes
  <2>3. leftAt[r.user][a.by] >= 0 /\ leftAt[r.user][a.by] >= r.start - ChartAge
    BY <1>7, <2>1 DEF Taught
  <2>4. now <= r.start + RequestTimeout
    BY <1>4, <1>7
  <2> HIDE DEF a, r
  <2> QED BY <1>0, <2>2, <2>3, <2>4
<1> QED BY <1>5, <1>6, <1>7

\* Whatever fails, dies or overlaps, an answer has every override and every account older than the
\* timeouts of the caches and of three requests together, and applies the overrides of no teacher who
\* had left the student longer ago.
THEOREM AnswersAgeOut == Spec => []ChartsAgeOut
<1>1. Spec => []AgeInv
  BY InitialAges, AgesStep, TypesAreInvariant, PTL DEF Spec
<1> QED BY <1>1, AgesBoundAnswers, TypesAreInvariant, PTL

(***************************************************************************)
(* Announced overrides reach every later answer.                           *)
(***************************************************************************)

\* A request knows of no override that is not announced, and saved none that is not committed.
Counted(r) ==
  /\ \A t \in Teachers : r.since[t] <= announced[t]
  /\ r.kind = "patch" => r.n <= Len(overrides[r.teacher])

CountsInv ==
  /\ \A t \in Teachers : announced[t] <= Len(overrides[t])
  /\ \A w \in Workers : Counted(req[w])

\* Overrides and announcements only grow.
LEMMA OnlyGrow ==
  ASSUME Types, CountsInv, [Next]_vars, NEW t \in Teachers
  PROVE  /\ announced[t] \in Nat /\ announced'[t] \in Nat /\ announced[t] <= announced'[t]
         /\ Len(overrides[t]) \in Nat /\ Len(overrides'[t]) \in Nat
         /\ Len(overrides[t]) <= Len(overrides'[t]) /\ announced'[t] <= Len(overrides'[t])
<1>0. /\ announced \in [Teachers -> Nat] /\ Len(overrides[t]) \in Nat /\ announced[t] \in Nat
      /\ overrides \in [Teachers -> Seq(Nat)] /\ announced[t] <= Len(overrides[t]) /\ now \in Nat
  BY DEF Types, DbTypes, CountsInv
<1>1. CASE UNCHANGED <<overrides, announced>>
  BY <1>0, <1>1
<1>2. ASSUME NEW w \in Workers, Announces(w), UNCHANGED overrides
      PROVE  announced'[t] \in Nat /\ announced[t] <= announced'[t] /\ announced'[t] <= Len(overrides[t])
  <2> DEFINE r == req[w]
  <2>1. CASE announced' = announced
    BY <1>0, <2>1
  <2>2. CASE r.kind = "patch" /\ announced' = [announced EXCEPT ![r.teacher] = IF r.n > @ THEN r.n ELSE @]
    <3>1. r.n \in Nat /\ r.n <= Len(overrides[r.teacher])
      BY <2>2, RequestFacts DEF CountsInv, Counted
    <3>2. CASE r.teacher = t
      <4>1. announced'[t] = IF r.n > announced[t] THEN r.n ELSE announced[t]
        BY <1>0, <2>2, <3>2
      <4> QED BY <1>0, <3>1, <3>2, <4>1
    <3>3. CASE r.teacher # t
      BY <1>0, <2>2, <3>3
    <3> QED BY <3>2, <3>3
  <2> QED BY <1>2, <2>1, <2>2 DEF Announces
<1>3. ASSUME NEW w \in Workers, SaveOverride(w)
      PROVE  /\ UNCHANGED announced
             /\ Len(overrides'[t]) \in Nat /\ Len(overrides[t]) <= Len(overrides'[t])
  <2>1. /\ announced' = announced /\ req[w].teacher \in Teachers
        /\ overrides' = [overrides EXCEPT ![req[w].teacher] = Append(@, now)]
    BY <1>3, SaveOverrideMoves
  <2>2. overrides[t] \in Seq(Nat)
    BY <1>0
  <2>3. overrides'[t] = overrides[t] \/ overrides'[t] = Append(overrides[t], now)
    BY <1>0, <2>1
  <2>4. Len(Append(overrides[t], now)) = Len(overrides[t]) + 1
    BY <1>0, <2>2
  <2> QED BY <1>0, <2>1, <2>3, <2>4
<1>4. ASSUME NEW w \in Workers, ReceivesAny(w) \/ ChangeCourse(w) PROVE UNCHANGED <<overrides, announced>>
  BY <1>4, ReceiveMoves, ChangeCourseMoves DEF db
<1>5. CASE Tick \/ DeleteCourse \/ UNCHANGED vars
  BY <1>1, <1>5 DEF Tick, DeleteCourse, vars, db
<1>6. ASSUME NEW w \in Workers, Step(w)
      PROVE  /\ announced'[t] \in Nat /\ announced[t] <= announced'[t]
             /\ Len(overrides'[t]) \in Nat /\ Len(overrides[t]) <= Len(overrides'[t])
             /\ announced'[t] <= Len(overrides'[t])
  BY <1>0, <1>2, <1>3, <1>4, <1>6, StepAlike
<1> QED BY <1>0, <1>1, <1>5, <1>6 DEF Next

\* Every step keeps announced changes committed ones.
LEMMA CountsStep == Types /\ CountsInv /\ [Next]_vars => CountsInv'
<1> SUFFICES ASSUME Types, CountsInv, [Next]_vars PROVE CountsInv'
  OBVIOUS
<1>0. Types'
  BY TypesStep
<1>1. \A t \in Teachers : announced'[t] <= Len(overrides'[t])
  BY OnlyGrow
<1>2. ASSUME NEW v \in Workers, NEW q \in Request, Alike(req[v], q) PROVE Counted(q)'
  <2>1. Counted(req[v]) /\ req[v] \in Request /\ Shape(pc[v], req[v])
    BY RequestFacts DEF CountsInv
  <2>2. \A t \in Teachers : q.since[t] \in Nat /\ q.since[t] <= announced'[t]
    BY <1>2, <2>1, OnlyGrow DEF Counted, Alike, Request
  <2>3. q.kind = "patch" => q.n <= Len(overrides'[q.teacher])
    <3>1. q.kind = "patch" => q.n \in Nat /\ q.teacher \in Teachers /\ q.n <= Len(overrides[q.teacher])
      BY <1>2, <2>1 DEF Counted, Alike, Shape, Request
    <3> QED BY <3>1, OnlyGrow
  <2> QED BY <2>2, <2>3 DEF Counted
<1>3. ASSUME NEW v \in Workers, pc'[v] = pc[v], req'[v] = req[v] PROVE Counted(req[v])'
  <2>1. PICK q \in Request : q = req[v]
    BY RequestFacts
  <2>2. Alike(req[v], q)
    BY <2>1, AlikeWith
  <2>3. Counted(q)'
    BY <1>2, <2>2
  <2> QED BY <1>3, <2>1, <2>3
<1>4. ASSUME NEW w \in Workers, Step(w) PROVE Counted(req[w])'
  <2>0. req'[w] \in Request /\ Shape(pc'[w], req'[w])
    BY <1>0 DEF Types, WorkerTypes, Shapes
  <2>1. CASE Alike(req[w], req'[w])
    <3>1. PICK q \in Request : q = req'[w]
      BY <2>0
    <3>2. Counted(q)'
      BY <1>2, <2>1, <3>1
    <3> QED BY <3>1, <3>2
  <2>2. CASE Announces(w)
    <3>1. CASE req[w].kind = "patch" /\ Proceeds(w, "version", [req[w] EXCEPT !.since = announced'])
      <4> DEFINE r == req[w]
                 q == [r EXCEPT !.since = announced']
      <4>1. r \in Request /\ req'[w] = q /\ Shape(pc[w], r) /\ Counted(r)
        BY <3>1, RequestFacts DEF Proceeds, Moves, CountsInv
      <4>2. q.since = announced' /\ q.n = r.n /\ q.teacher = r.teacher
        BY <4>1 DEF Request
      <4>3. r.teacher \in Teachers /\ r.n \in Nat /\ r.n <= Len(overrides[r.teacher])
        BY <3>1, <4>1 DEF Shape, Counted, Request
      <4>4. r.n <= Len(overrides'[r.teacher])
        BY <4>3, OnlyGrow
      <4>5. \A t \in Teachers : announced'[t] <= announced'[t]
        BY OnlyGrow
      <4> QED BY <4>1, <4>2, <4>4, <4>5 DEF Counted
    <3>2. CASE Proceeds(w, "commit", req[w])
      <4>1. req'[w] = req[w]
        BY <3>2 DEF Proceeds, Moves
      <4>2. Alike(req[w], req'[w])
        BY <4>1, RequestFacts, AlikeWith
      <4> QED BY <2>1, <4>2
    <3> QED BY <2>2, <3>1, <3>2 DEF Announces
  <2>3. CASE SaveOverride(w)
    <3> DEFINE r == req[w]
               n == Len(overrides[r.teacher]) + 1
    <3>1. /\ req'[w] = [r EXCEPT !.n = n] /\ r.teacher \in Teachers /\ n \in Nat
          /\ overrides' = [overrides EXCEPT ![r.teacher] = Append(@, now)] /\ UNCHANGED announced
      BY <2>3, SaveOverrideMoves DEF Proceeds, Moves
    <3>2. Len(overrides'[r.teacher]) = n
      BY <3>1 DEF Types, DbTypes
    <3>3. r \in Request /\ Counted(r)
      BY RequestFacts DEF CountsInv
    <3> HIDE DEF n
    <3>4. req'[w].n = n /\ req'[w].teacher = r.teacher /\ req'[w].since = r.since
      BY <3>1, <3>3 DEF Request
    <3> QED BY <3>1, <3>2, <3>3, <3>4 DEF Counted
  <2>4. CASE ReceivesAny(w)
    <3>1. PICK label \in PCs, q \in Request : Proceeds(w, label, q) /\ Begins(label, q)
      BY <2>4, ReceiveMoves
    <3>2. UNCHANGED announced /\ req'[w] = q /\ q.since = announced /\ q.n = 0
      BY <2>4, <3>1, ReceiveMoves DEF Begins, Proceeds, Moves
    <3>3. q.kind = "patch" => q.teacher \in Teachers
      BY <2>0, <3>2 DEF Shape
    <3>4. /\ \A t \in Teachers : announced[t] \in Nat
          /\ \A t \in Teachers : Len(overrides'[t]) \in Nat
      BY OnlyGrow
    <3> QED BY <3>2, <3>3, <3>4 DEF Counted
  <2>5. CASE ChangeCourse(w) \/ req'[w] = Idle
    <3>1. \A s : LET q == [Idle EXCEPT !.kind = "course", !.start = now, !.user = s] IN
                 q.since = [t \in Teachers |-> 0] /\ q.kind = "course"
      BY DEF Idle
    <3>2. Idle.since = [t \in Teachers |-> 0] /\ Idle.kind = "none"
      BY DEF Idle
    <3>3. req'[w].since = [t \in Teachers |-> 0] /\ req'[w].kind # "patch"
      <4>1. CASE ChangeCourse(w)
        <5>1. PICK s \in Students, k \in Courses \cup {None}, q \in Request :
                /\ course' = [course EXCEPT ![s] = k]
                /\ leftAt' = [leftAt EXCEPT ![s][TeacherOfStudent(s)] = now]
                /\ Proceeds(w, "forget", q) /\ q.user = s
                /\ q = [Idle EXCEPT !.kind = "course", !.start = now, !.user = s]
          BY <4>1, ChangeCourseMoves
        <5> QED BY <3>1, <5>1 DEF Proceeds, Moves
      <4> QED BY <2>5, <3>2, <4>1
    <3>4. \A t \in Teachers : 0 <= announced'[t]
      BY OnlyGrow
    <3> QED BY <3>3, <3>4 DEF Counted
  <2> QED BY <1>4, <2>1, <2>2, <2>3, <2>4, <2>5, StepAlike
<1>5. ASSUME NEW v \in Workers PROVE Counted(req[v])'
  <2>1. ASSUME NEW w \in Workers, Step(w) PROVE Counted(req[v])'
    BY <1>3, <1>4, <2>1, StepTime DEF Others
  <2>2. CASE Tick \/ DeleteCourse \/ UNCHANGED vars
    BY <1>3, <2>2 DEF Tick, DeleteCourse, vars
  <2> QED BY <2>1, <2>2 DEF Next
<1> QED BY <1>1, <1>5 DEF CountsInv

-----------------------------------------------------------------------------
(* While the cache answers and a version does not go back, what is cached  *)
(* or held under a version has every override announced before a request   *)
(* that holds this version or an earlier one began; under the current      *)
(* version, it has every override that is announced.                       *)

Good(t) == ~degraded /\ t \notin rewound

Current(t) == versions[t].value

Holds(r, t, v) ==
  \/ r.tok[1] = t /\ r.tok[2] <= v
  \/ r.key[1] = t /\ r.key[2] <= v

Fresh(t, v, upto) ==
  /\ v \in 1..Current(t)
  /\ v = Current(t) => upto >= announced[t]
  /\ \A w \in Workers : Holds(req[w], t, v) => upto >= req[w].since[t]

\* A bump never finds the version gone.
Bumps(t, label, r) ==
  /\ label = "incr" /\ BumpKey(r) = t => versions[t] # Missing
  /\ label \in {"reread", "reset"} => BumpKey(r) # t

\* The hidden accounts are looked up under a version that is no older than the one of the chart.
Tokens(t, r) ==
  /\ r.tok[1] = t => r.tok[2] \in 1..Current(t)
  /\ r.key[1] = t => r.key[2] \in 1..Current(t)
  /\ r.tok[1] = t /\ r.key[1] = t => r.tok[2] <= r.key[2]

Applies(t, label, r) ==
  /\ r.hid.by = t => Fresh(t, r.key[2], r.hid.upto)
  /\ label \in {"store", "reply"} /\ r.value.by = t /\ r.tok[1] = t =>
       Fresh(t, r.tok[2], r.value.upto)

CachedFresh(t) ==
  /\ \A k \in DOMAIN hidden : k[1] = t => Fresh(t, k[2], hidden[k].value.upto)
  /\ \A k \in DOMAIN charts :
       k[3][1] = t /\ charts[k].value.by = t => Fresh(t, k[3][2], charts[k].value.upto)

Reaches(t) ==
  /\ \A w \in Workers : Bumps(t, pc[w], req[w]) /\ Tokens(t, req[w]) /\ Applies(t, pc[w], req[w])
  /\ CachedFresh(t)

ReachInv == \A t \in Teachers : Good(t) => Reaches(t)

\* Announcing for one key says nothing of another.
LEMMA AnnouncesOther ==
  ASSUME Types, NEW w \in Workers, Announces(w), NEW t \in Teachers, BumpKey(req[w]) # t
  PROVE  announced'[t] = announced[t]
BY DEF Announces, BumpKey, Types, DbTypes

\* Setting a version below the current one is noted as a rewind.
LEMMA SetsVersion ==
  ASSUME Types, NEW k \in VersionKeys, NEW v \in Nat, SetVersion(k, v), NEW t \in VersionKeys
  PROVE  /\ t \in rewound => t \in rewound'
         /\ t # k => versions'[t] = versions[t]
         /\ t = k => Current(t)' = v /\ versions'[t] # Missing
         /\ t = k /\ v < Current(t) => t \in rewound'
<1>1. /\ now + VersionTimeout \in Nat /\ now + VersionTimeout > 0
      /\ versions \in [VersionKeys -> [value : Nat, until : Nat]]
  BY TimeoutsAssumption DEF Types, DbTypes, CacheTypes
<1>2. t = k => versions'[t] = [value |-> v, until |-> now + VersionTimeout]
  BY <1>1 DEF SetVersion
<1>3. t = k => Current(t)' = v /\ versions'[t] # Missing
  BY <1>1, <1>2 DEF Current, Missing
<1>4. t # k => versions'[t] = versions[t]
  BY <1>1 DEF SetVersion
<1>5. (t \in rewound => t \in rewound') /\ (t = k /\ v < Current(t) => t \in rewound')
  BY DEF SetVersion, Current
<1> QED BY <1>3, <1>4, <1>5

\* Versions only grow, and they do whenever an override is announced.
LEMMA VersionsGrow ==
  ASSUME Types, [Next]_vars, NEW t \in Teachers, Good(t)', Good(t) => Reaches(t)
  PROVE  /\ Good(t) /\ Current(t) \in Nat /\ Current(t)' \in Nat /\ Current(t) <= Current(t)'
         /\ versions[t] # Missing => versions'[t] # Missing
         /\ Current(t)' = Current(t) => announced'[t] = announced[t]
<1> DEFINE Grows == /\ Good(t) /\ Current(t) <= Current(t)'
                    /\ versions[t] # Missing => versions'[t] # Missing
                    /\ Current(t)' = Current(t) => announced'[t] = announced[t]
<1>0. /\ t \in VersionKeys /\ t \notin Charts /\ ~degraded' /\ t \notin rewound' /\ Current(t) \in Nat
      /\ versions \in [VersionKeys -> [value : Nat, until : Nat]]
  BY NamesAssumption DEF Good, VersionKeys, Types, CacheTypes, Current
<1>1. Current(t)' \in Nat
  BY <1>0, TypesStep DEF Types, CacheTypes, Current
<1>2. ASSUME versions'[t] = versions[t], announced'[t] = announced[t], ~degraded,
             t \in rewound => t \in rewound'
      PROVE  Grows
  BY <1>0, <1>2 DEF Good, Current
<1>3. ASSUME NEW w \in Workers, InitVersion(w) PROVE Grows
  <2> DEFINE k == VersionKey(req[w])
  <2>1. pc[w] = "init" /\ announced' = announced /\ Sets(k, 1)
    BY <1>3, InitVersionMoves
  <2>2. k \in VersionKeys
    BY <2>1, KeyTypes
  <2> HIDE DEF k
  <2>3. SetVersion(k, 1) /\ ~degraded
    BY <1>0, <2>1 DEF Sets
  <2>4. CASE k # t
    BY <1>0, <1>2, <2>1, <2>2, <2>3, <2>4, SetsVersion
  <2>5. CASE k = t
    <3>1. Current(t)' = 1 /\ versions'[t] # Missing /\ ~(1 < Current(t)) /\ t \notin rewound
      BY <1>0, <2>2, <2>3, <2>5, SetsVersion
    <3> QED BY <1>0, <2>1, <2>3, <3>1 DEF Good
  <2> QED BY <2>4, <2>5
<1>4. ASSUME NEW w \in Workers, BumpAdd(w) PROVE Grows
  <2> DEFINE k == BumpKey(req[w])
  <2>1. pc[w] = "add" /\ k \in VersionKeys
    BY <1>4, BumpAddMoves, KeyTypes
  <2>2. CASE UNCHANGED <<versions, rewound, announced>> /\ (degraded => degraded')
    BY <1>0, <1>2, <2>2
  <2>3. CASE versions[k] = Missing /\ SetVersion(k, 2) /\ (degraded => degraded') /\ Announces(w)
    <3>1. k # t => announced'[t] = announced[t]
      BY <2>3, AnnouncesOther
    <3> HIDE DEF k
    <3>2. CASE k # t
      BY <1>0, <1>2, <2>1, <2>3, <3>1, <3>2, SetsVersion
    <3>3. CASE k = t
      <4>1. Current(t)' = 2 /\ versions'[t] # Missing /\ t \notin rewound
        BY <1>0, <2>1, <2>3, <3>3, SetsVersion
      <4>2. Current(t) = 0
        BY <2>3, <3>3 DEF Current, Missing
      <4> QED BY <1>0, <2>3, <4>1, <4>2 DEF Good
    <3> QED BY <3>2, <3>3
  <2> QED BY <1>4, <2>2, <2>3, BumpAddMoves
<1>5. ASSUME NEW w \in Workers, BumpIncr(w) PROVE Grows
  <2> DEFINE k == BumpKey(req[w])
  <2>1. pc[w] = "incr" /\ k \in VersionKeys /\ rewound' = rewound /\ (degraded => degraded')
    BY <1>5, BumpIncrMoves, KeyTypes
  <2>2. CASE UNCHANGED <<versions, announced>>
    BY <1>0, <1>2, <2>1, <2>2
  <2>3. CASE versions' = [versions EXCEPT ![k].value = @ + 1] /\ Announces(w)
    <3>1. k # t => announced'[t] = announced[t]
      BY <2>3, AnnouncesOther
    <3> HIDE DEF k
    <3>2. CASE k # t
      <4>1. versions'[t] = versions[t]
        BY <1>0, <2>3, <3>2
      <4> QED BY <1>0, <1>2, <2>1, <3>1, <3>2, <4>1
    <3>3. CASE k = t
      <4>1. Current(t)' = Current(t) + 1
        BY <1>0, <2>1, <2>3, <3>3 DEF Current
      <4>2. versions'[t] # Missing
        BY <1>0, <4>1 DEF Current, Missing
      <4> QED BY <1>0, <2>1, <4>1, <4>2 DEF Good
    <3> QED BY <3>2, <3>3
  <2> QED BY <1>5, <2>2, <2>3, BumpIncrMoves
<1>6. ASSUME NEW w \in Workers, BumpSet(w) PROVE Grows
  <2> DEFINE k == BumpKey(req[w])
  <2>1. pc[w] = "reset" /\ k \in VersionKeys /\ Announces(w) /\ Sets(k, req[w].cv) /\ req[w].cv \in Nat
    BY <1>6, BumpSetMoves, KeyTypes, RequestFacts
  <2>2. SetVersion(k, req[w].cv) /\ ~degraded
    BY <1>0, <2>1 DEF Sets
  <2>3. versions'[t] = versions[t] \/ k = t
    BY <1>0, <2>1, <2>2, SetsVersion
  <2>4. t \in rewound => t \in rewound'
    BY <1>0, <2>1, <2>2, SetsVersion
  <2>5. k # t
    BY <1>0, <2>1, <2>2, <2>4 DEF Good, Reaches, Bumps
  <2>6. announced'[t] = announced[t]
    BY <2>1, <2>5, AnnouncesOther
  <2> QED BY <1>2, <2>2, <2>3, <2>4, <2>5, <2>6
<1>7. ASSUME Tick PROVE Grows
  <2>1. /\ announced' = announced /\ degraded' = degraded
        /\ rewound' = rewound \cup {k \in VersionKeys : versions'[k] # versions[k]}
    BY <1>7 DEF Tick
  <2>2. versions'[t] = versions[t]
    BY <1>0, <2>1
  <2> QED BY <1>0, <1>2, <2>1, <2>2
<1>8. ASSUME NEW w \in Workers,
             \/ ReceivesAny(w) \/ ChangeCourse(w) \/ GetVersion(w) \/ BumpRead(w)
             \/ Resolve(w) \/ LoadTeacher(w) \/ StoreTeacher(w) \/ Forget(w)
             \/ GetHidden(w) \/ LoadHidden(w) \/ StoreHidden(w)
             \/ Lookup(w) \/ Build(w) \/ Store(w) \/ Ends(w)
             \/ SaveOverride(w) \/ NothingToSave(w)
      PROVE  UNCHANGED <<versions, rewound, announced>> /\ (degraded => degraded')
  <2>1. CASE \/ ReceivesAny(w) \/ ChangeCourse(w) \/ GetVersion(w) \/ BumpRead(w) \/ Ends(w)
             \/ SaveOverride(w) \/ NothingToSave(w)
    BY <2>1, ReceiveMoves, ChangeCourseMoves, GetVersionMoves, BumpReadMoves, EndsMoves,
       SaveOverrideMoves, NothingToSaveMoves DEF cache
  <2>2. CASE Resolve(w) \/ LoadTeacher(w) \/ StoreTeacher(w) \/ Forget(w) \/ GetHidden(w)
    BY <2>2, ResolveMoves, LoadTeacherMoves, StoreTeacherMoves, ForgetMoves, GetHiddenMoves DEF cache
  <2>3. CASE LoadHidden(w) \/ StoreHidden(w) \/ Lookup(w) \/ Build(w) \/ Store(w)
    BY <2>3, LoadHiddenMoves, StoreHiddenMoves, LookupMoves, BuildMoves, StoreMoves DEF cache
  <2> QED BY <1>8, <2>1, <2>2, <2>3
<1>9. ASSUME DeleteCourse \/ UNCHANGED vars PROVE Grows
  <2>1. UNCHANGED <<versions, rewound, announced, degraded>>
    BY <1>9 DEF DeleteCourse, vars, cache
  <2> QED BY <1>0, <1>2, <2>1
<1> HIDE DEF Grows
<1>10. ASSUME NEW w \in Workers, Step(w) PROVE Grows
  BY <1>0, <1>2, <1>3, <1>4, <1>5, <1>6, <1>8, <1>10, StepCases
<1>11. Grows
  BY <1>7, <1>9, <1>10 DEF Next
<1> QED BY <1>0, <1>1, <1>11 DEF Grows

-----------------------------------------------------------------------------
(* What the worker that takes a step holds and applies afterwards.         *)

\* A request keeps its versions and what it knew when it began, or takes the current version c.
Held(c, t, r, q) ==
  \/ q.tok[1] # t /\ q.key[1] # t
  \/ /\ q.since = r.since
     /\ q.tok[1] = t => q.tok = r.tok \/ (q.tok[2] = c /\ c > 0 /\ q.key[1] # t)
     /\ q.key[1] = t => q.key = r.key \/ (q.key[2] = c /\ c > 0)

Follows(w, t) ==
  \E label, q : /\ Moves(w, label, q) /\ Held(Current(t)', t, req[w], q)
                /\ Applies(t, label, q) /\ Bumps(t, label, q)

\* A step that changes neither what the request holds nor what it applies.
LEMMA PlainFollows ==
  ASSUME NEW t \in Teachers, Reaches(t), NEW w \in Workers, NEW label, NEW q, Moves(w, label, q),
         q.tok = req[w].tok, q.key = req[w].key, q.hid = req[w].hid, q.value = req[w].value,
         q.since = req[w].since, label = "store" => pc[w] = "store", label = "reply" => pc[w] = "store",
         Bumps(t, label, q)
  PROVE  Follows(w, t)
<1>1. Applies(t, pc[w], req[w])
  BY DEF Reaches
<1>2. Applies(t, label, q)
  BY <1>1 DEF Applies
<1> QED BY <1>2 DEF Follows, Held

\* A request that has just read the version of a teacher holds the current one.
LEMMA VersionedFollows ==
  ASSUME Types, NEW t \in Teachers, Reaches(t), NEW w \in Workers, NEW v \in Nat,
         pc[w] \in {"version", "init"}, Versioned(w, v),
         VersionKey(req[w]) = t => v = Current(t)' /\ v > 0
  PROVE  Follows(w, t)
<1> DEFINE r == req[w]
<1>0. r \in Request /\ Shape(pc[w], r) /\ None # t /\ Public[1] = None /\ NothingHidden.by = None
  BY RequestFacts, NamesAssumption DEF Public, NothingHidden
<1>1. r.hid = NothingHidden /\ (r.phase # "hidden" => r.key = Public)
  BY <1>0 DEF Shape
<1>2. CASE Proceeds(w, "lookup", [r EXCEPT !.cv = v])
  <2> DEFINE q == [r EXCEPT !.cv = v]
  <2>1. q.tok = r.tok /\ q.key = r.key /\ q.hid = r.hid /\ q.value = r.value /\ q.since = r.since
    BY <1>0 DEF Request
  <2>2. Moves(w, "lookup", q)
    BY <1>2 DEF Proceeds
  <2> HIDE DEF q
  <2> QED BY <2>1, <2>2, PlainFollows DEF Bumps
<1>3. CASE Proceeds(w, "resolve", [r EXCEPT !.cv = v, !.phase = "token"])
  <2> DEFINE q == [r EXCEPT !.cv = v, !.phase = "token"]
  <2>1. q.tok = r.tok /\ q.key = r.key /\ q.hid = r.hid /\ q.value = r.value /\ q.since = r.since
    BY <1>0 DEF Request
  <2>2. Moves(w, "resolve", q)
    BY <1>3 DEF Proceeds
  <2> HIDE DEF q
  <2> QED BY <2>1, <2>2, PlainFollows DEF Bumps
<1>4. CASE r.phase \in {"token", "own"} /\ Proceeds(w, "lookup", [r EXCEPT !.tok = <<r.teacher, v>>])
  <2> DEFINE q == [r EXCEPT !.tok = <<r.teacher, v>>]
  <2>1. q.tok[1] = r.teacher /\ q.tok[2] = v /\ q.key = Public /\ q.hid = r.hid /\ q.since = r.since
    BY <1>0, <1>1, <1>4 DEF Request
  <2>2. Moves(w, "lookup", q)
    BY <1>4 DEF Proceeds
  <2>3. VersionKey(r) = r.teacher
    BY <1>4 DEF VersionKey
  <2> HIDE DEF q
  <2>4. Held(Current(t)', t, r, q)
    BY <1>0, <2>1, <2>3 DEF Held
  <2>5. Applies(t, "lookup", q) /\ Bumps(t, "lookup", q)
    BY <1>0, <1>1, <2>1 DEF Applies, Bumps
  <2> QED BY <2>2, <2>4, <2>5 DEF Follows
<1>5. CASE r.phase = "hidden" /\ Proceeds(w, "hidden", [r EXCEPT !.key = <<r.teacher, v>>])
  <2> DEFINE q == [r EXCEPT !.key = <<r.teacher, v>>]
  <2>1. q.key[1] = r.teacher /\ q.key[2] = v /\ q.tok = r.tok /\ q.hid = r.hid /\ q.since = r.since
    BY <1>0 DEF Request
  <2>2. Moves(w, "hidden", q)
    BY <1>5 DEF Proceeds
  <2>3. VersionKey(r) = r.teacher
    BY <1>5 DEF VersionKey
  <2> HIDE DEF q
  <2>4. Held(Current(t)', t, r, q)
    BY <1>0, <2>1, <2>3 DEF Held
  <2>5. Applies(t, "hidden", q) /\ Bumps(t, "hidden", q)
    BY <1>0, <1>1, <2>1 DEF Applies, Bumps
  <2> QED BY <2>2, <2>4, <2>5 DEF Follows
<1> QED BY <1>2, <1>3, <1>4, <1>5 DEF Versioned

\* Fresh hidden accounts are passed on with their version.
LEMMA HidesFollows ==
  ASSUME Types, NEW t \in Teachers, Reaches(t), NEW w \in Workers, NEW h \in Hidden, Hides(w, h),
         h.by = t => Fresh(t, req[w].key[2], h.upto)
  PROVE  Follows(w, t)
<1> DEFINE r == req[w]
           q == [r EXCEPT !.hid = h]
<1>0. r \in Request
  BY RequestFacts
<1>1. PICK label \in {"build", "add"} : Moves(w, label, q)
  BY DEF Hides, Proceeds
<1>2. q.tok = r.tok /\ q.key = r.key /\ q.hid = h /\ q.since = r.since
  BY <1>0 DEF Request
<1> HIDE DEF q
<1>3. Held(Current(t)', t, r, q)
  BY <1>2 DEF Held
<1>4. Applies(t, label, q) /\ Bumps(t, label, q)
  BY <1>2 DEF Applies, Bumps
<1> QED BY <1>1, <1>3, <1>4 DEF Follows

\* A request that has only found its teacher holds nothing of the teacher yet.
LEMMA TeachesFollows ==
  ASSUME Types, NEW t \in Teachers, Reaches(t), NEW w \in Workers, NEW u \in Teachers \cup {None},
         Teaches(w, u)
  PROVE  Follows(w, t)
<1> DEFINE r == req[w]
<1>0. /\ r \in Request /\ None # t /\ Public[1] = None /\ NothingHidden.by = None
      /\ NothingHidden \in Hidden
  BY RequestFacts, NamesAssumption, IdleType DEF Public, NothingHidden
<1>1. CASE Proceeds(w, "version", [r EXCEPT !.teacher = u])
  <2> DEFINE q == [r EXCEPT !.teacher = u]
  <2>1. q.tok = r.tok /\ q.key = r.key /\ q.hid = r.hid /\ q.value = r.value /\ q.since = r.since
    BY <1>0 DEF Request
  <2>2. Moves(w, "version", q)
    BY <1>1 DEF Proceeds
  <2> HIDE DEF q
  <2> QED BY <2>1, <2>2, PlainFollows DEF Bumps
<1>2. CASE Proceeds(w, "lookup", [r EXCEPT !.tok = Public])
  <2> DEFINE q == [r EXCEPT !.tok = Public]
  <2>1. q.tok = Public /\ q.key = r.key /\ q.hid = r.hid /\ q.since = r.since
    BY <1>0 DEF Request
  <2>2. Moves(w, "lookup", q)
    BY <1>2 DEF Proceeds
  <2> HIDE DEF q
  <2>3. Held(Current(t)', t, r, q)
    BY <1>0, <2>1 DEF Held
  <2>4. Applies(t, pc[w], r)
    BY DEF Reaches
  <2>5. Applies(t, "lookup", q) /\ Bumps(t, "lookup", q)
    BY <2>1, <2>4 DEF Applies, Bumps
  <2> QED BY <2>2, <2>3, <2>5 DEF Follows
<1>3. CASE Hides(w, NothingHidden)
  BY <1>0, <1>3, HidesFollows
<1> QED BY <1>1, <1>2, <1>3 DEF Teaches

\* A writer that has bumped holds nothing that was read under a version.
LEMMA AnnouncesFollows ==
  ASSUME Types, NEW t \in Teachers, Reaches(t), NEW w \in Workers, Announces(w),
         pc[w] \in {"add", "incr", "reread", "reset"}
  PROVE  Follows(w, t)
<1> DEFINE r == req[w]
<1>0. r \in Request /\ Shape(pc[w], r) /\ None # t /\ Public[1] = None /\ NothingHidden.by = None
  BY RequestFacts, NamesAssumption DEF Public, NothingHidden
<1>1. CASE r.kind = "patch" /\ Proceeds(w, "version", [r EXCEPT !.since = announced'])
  <2> DEFINE q == [r EXCEPT !.since = announced']
  <2>1. r.tok = Public /\ r.key = Public /\ r.hid = NothingHidden
    BY <1>0, <1>1 DEF Shape
  <2>2. q.tok = Public /\ q.key = Public /\ q.hid = NothingHidden
    BY <1>0, <2>1 DEF Request
  <2>3. Moves(w, "version", q)
    BY <1>1 DEF Proceeds
  <2> HIDE DEF q
  <2>4. Held(Current(t)', t, r, q)
    BY <1>0, <2>2 DEF Held
  <2>5. Applies(t, "version", q) /\ Bumps(t, "version", q)
    BY <1>0, <2>2 DEF Applies, Bumps
  <2> QED BY <2>3, <2>4, <2>5 DEF Follows
<1>2. CASE Proceeds(w, "commit", r)
  BY <1>2, PlainFollows DEF Proceeds, Bumps
<1> QED BY <1>1, <1>2 DEF Announces

\* A request that has not begun, or has ended, holds nothing.
LEMMA EmptyFollows ==
  ASSUME NEW t \in Teachers, NEW w \in Workers, NEW label, NEW q, Moves(w, label, q),
         q.tok = Public, q.key = Public, q.hid = NothingHidden,
         label \in {"idle", "forget", "version", "save", "resolve", "add"}
  PROVE  Follows(w, t)
<1>0. None # t /\ Public[1] = None /\ NothingHidden.by = None
  BY NamesAssumption DEF Public, NothingHidden
<1>1. Held(Current(t)', t, req[w], q)
  BY <1>0 DEF Held
<1>2. Applies(t, label, q) /\ Bumps(t, label, q)
  BY <1>0 DEF Applies, Bumps
<1> QED BY <1>1, <1>2 DEF Follows

\* With every override loaded, what is applied under a version that a request holds is fresh.
LEMMA LoadedFresh ==
  ASSUME Types, CountsInv, NEW t \in Teachers, NEW v \in 1..Current(t)
  PROVE  Fresh(t, v, Len(overrides[t]))
<1>1. announced[t] \in Nat /\ Len(overrides[t]) \in Nat /\ announced[t] <= Len(overrides[t])
  BY DEF Types, DbTypes, CountsInv
<1>2. \A w \in Workers : req[w].since[t] \in Nat /\ req[w].since[t] <= announced[t]
  BY RequestFacts DEF CountsInv, Counted
<1> QED BY <1>1, <1>2 DEF Fresh

\* What is fresh under a version is fresh under an earlier one.
LEMMA FreshDown ==
  ASSUME Types, NEW t \in Teachers, NEW v \in Nat, NEW u \in Nat, NEW upto,
         Fresh(t, v, upto), u \in 1..Current(t), u <= v
  PROVE  Fresh(t, u, upto)
<1>0. Current(t) \in Nat
  BY DEF Types, CacheTypes, Current, VersionKeys
<1>1. v \in 1..Current(t) /\ (u = Current(t) => v = Current(t))
  BY <1>0 DEF Fresh
<1>2. ASSUME NEW w \in Workers, Holds(req[w], t, u) PROVE Holds(req[w], t, v)
  <2>1. req[w].tok[2] \in Nat /\ req[w].key[2] \in Nat
    BY RequestFacts DEF Token
  <2> QED BY <1>2, <2>1 DEF Holds
<1> QED BY <1>1, <1>2 DEF Fresh

\* What a request holds after a step of its worker is fresh.
LEMMA StepFollows ==
  ASSUME Types, CountsInv, NEW t \in Teachers, Good(t)', Reaches(t), NEW w \in Workers, Step(w)
  PROVE  Follows(w, t)
<1> DEFINE r == req[w]
<1>0. /\ r \in Request /\ Shape(pc[w], r) /\ Bumps(t, pc[w], r) /\ Tokens(t, r) /\ Applies(t, pc[w], r)
      /\ CachedFresh(t) /\ ~degraded' /\ r.tok[2] \in Nat /\ r.key[2] \in Nat /\ None # t
      /\ t \in VersionKeys
  BY RequestFacts, NamesAssumption DEF Reaches, Good, Token, VersionKeys
<1>1. ASSUME NEW label, Proceeds(w, label, r), label \notin {"store", "incr", "reread", "reset"},
             label = "reply" => pc[w] = "store"
      PROVE  Follows(w, t)
  BY <1>1, PlainFollows DEF Proceeds, Bumps
<1>2. CASE GetVersion(w)
  <2> DEFINE found == versions[VersionKey(r)].value
  <2>1. /\ pc[w] = "version" /\ UNCHANGED versions
        /\ (found > 0 /\ Versioned(w, found)) \/ Proceeds(w, "init", r)
    BY <1>2, GetVersionMoves DEF cache
  <2>2. found \in Nat /\ (VersionKey(r) = t => found = Current(t)')
    BY <2>1, KeyTypes DEF Types, CacheTypes, Current
  <2> HIDE DEF found
  <2> QED BY <1>1, <2>1, <2>2, VersionedFollows
<1>3. CASE InitVersion(w)
  <2>1. pc[w] = "init" /\ Versioned(w, 1) /\ Sets(VersionKey(r), 1) /\ VersionKey(r) \in VersionKeys
    BY <1>3, InitVersionMoves, KeyTypes
  <2>2. SetVersion(VersionKey(r), 1)
    BY <1>0, <2>1 DEF Sets
  <2>3. VersionKey(r) = t => Current(t)' = 1
    BY <1>0, <2>1, <2>2, SetsVersion
  <2> QED BY <2>1, <2>3, VersionedFollows
<1>4. CASE BumpAdd(w)
  <2>1. pc[w] = "add"
    BY <1>4, BumpAddMoves
  <2>2. CASE Announces(w)
    BY <2>1, <2>2, AnnouncesFollows
  <2>3. CASE (versions[BumpKey(r)] # Missing \/ degraded') /\ Proceeds(w, "incr", r)
    <3>1. Bumps(t, "incr", r)
      BY <1>0, <2>3 DEF Bumps
    <3> QED BY <2>3, <3>1, PlainFollows DEF Proceeds
  <2> QED BY <1>4, <2>2, <2>3, BumpAddMoves
<1>5. CASE BumpIncr(w)
  <2>1. pc[w] = "incr"
    BY <1>5, BumpIncrMoves
  <2>2. CASE Announces(w)
    BY <2>1, <2>2, AnnouncesFollows
  <2>3. CASE (versions[BumpKey(r)] = Missing \/ degraded') /\ Proceeds(w, "reread", r)
    <3>1. Bumps(t, "reread", r)
      BY <1>0, <2>1, <2>3 DEF Bumps
    <3> QED BY <2>3, <3>1, PlainFollows DEF Proceeds
  <2> QED BY <1>5, <2>2, <2>3, BumpIncrMoves
<1>6. CASE BumpRead(w)
  <2>1. pc[w] = "reread"
    BY <1>6, BumpReadMoves
  <2>2. PICK c \in Nat : Proceeds(w, "reset", [r EXCEPT !.cv = c])
    BY <1>6, BumpReadMoves
  <2> DEFINE q == [r EXCEPT !.cv = c]
  <2>3. /\ q.tok = r.tok /\ q.key = r.key /\ q.hid = r.hid /\ q.value = r.value /\ q.since = r.since
        /\ q.kind = r.kind /\ q.teacher = r.teacher /\ q.chart = r.chart
    BY <1>0 DEF Request
  <2> HIDE DEF q
  <2>4. Bumps(t, "reset", q)
    BY <1>0, <2>1, <2>3 DEF Bumps, BumpKey
  <2> QED BY <2>2, <2>3, <2>4, PlainFollows DEF Proceeds, q
<1>7. CASE BumpSet(w)
  BY <1>7, BumpSetMoves, AnnouncesFollows
<1>8. CASE Resolve(w)
  <2> DEFINE found == resolved[r.user]
  <2>1. pc[w] = "resolve" /\ (Teaches(w, found.value) \/ Proceeds(w, "enrolment", r))
    BY <1>8, ResolveMoves
  <2>2. found.value \in Teachers \cup {None}
    BY <1>0, <2>1 DEF Shape, Types, CacheTypes
  <2> HIDE DEF found
  <2> QED BY <1>1, <2>1, <2>2, TeachesFollows
<1>9. CASE LoadTeacher(w)
  <2> DEFINE u == TeacherOfStudent(r.user)
             q == [r EXCEPT !.teacher = u]
  <2>1. Proceeds(w, "remember", q)
    BY <1>9, LoadTeacherMoves
  <2> HIDE DEF u
  <2>2. q.tok = r.tok /\ q.key = r.key /\ q.hid = r.hid /\ q.value = r.value /\ q.since = r.since
    BY <1>0 DEF Request
  <2> HIDE DEF q
  <2> QED BY <2>1, <2>2, PlainFollows DEF Proceeds, Bumps
<1>10. CASE StoreTeacher(w)
  BY <1>10, StoreTeacherMoves, TeachesFollows
<1>11. CASE Forget(w) \/ Ends(w)
  <2>1. Proceeds(w, "idle", Idle)
    BY <1>11, ForgetMoves, EndsMoves
  <2>2. Idle.tok = Public /\ Idle.key = Public /\ Idle.hid = NothingHidden
    BY DEF Idle
  <2> QED BY <2>1, <2>2, EmptyFollows DEF Proceeds
<1>12. CASE GetHidden(w)
  <2> DEFINE k == r.key
  <2>1. pc[w] = "hidden" /\ ((k \in DOMAIN hidden /\ Hides(w, hidden[k].value)) \/ Proceeds(w, "overrides", r))
    BY <1>12, GetHiddenMoves
  <2>2. CASE k \in DOMAIN hidden /\ Hides(w, hidden[k].value)
    <3>1. hidden[k].value \in Hidden /\ hidden[k].value.by = k[1]
      BY <2>2 DEF Types, CacheTypes
    <3>2. k[1] = t => Fresh(t, k[2], hidden[k].value.upto)
      BY <1>0, <2>2 DEF CachedFresh
    <3> QED BY <2>2, <3>1, <3>2, HidesFollows
  <2> QED BY <1>1, <2>1, <2>2
<1>13. CASE LoadHidden(w)
  <2> DEFINE u == r.key[1]
             h == [by |-> u, upto |-> Len(overrides[u])]
             q == [r EXCEPT !.hid = h]
  <2>1. Moves(w, "keep", q) /\ h \in Hidden
    BY <1>13, LoadHiddenMoves DEF Proceeds
  <2>2. h.by = u /\ h.upto = Len(overrides[u])
    OBVIOUS
  <2> HIDE DEF h
  <2>3. q.tok = r.tok /\ q.key = r.key /\ q.hid = h /\ q.since = r.since
    BY <1>0 DEF Request
  <2>4. u = t => Fresh(t, r.key[2], Len(overrides[t]))
    BY <1>0, LoadedFresh DEF Tokens
  <2> HIDE DEF q
  <2>5. Held(Current(t)', t, r, q)
    BY <2>3 DEF Held
  <2>6. Applies(t, "keep", q) /\ Bumps(t, "keep", q)
    BY <2>2, <2>3, <2>4 DEF Applies, Bumps
  <2> QED BY <2>1, <2>5, <2>6 DEF Follows
<1>14. CASE StoreHidden(w)
  <2>1. Hides(w, r.hid) /\ r.hid \in Hidden
    BY <1>14, StoreHiddenMoves, RequestFacts
  <2> QED BY <1>0, <2>1, HidesFollows DEF Applies
<1>15. CASE Lookup(w)
  <2> DEFINE k == ChartKey(r)
             a == charts[k].value
  <2>1. CASE k \in DOMAIN charts /\ Proceeds(w, "reply", [r EXCEPT !.value = a])
    <3> DEFINE q == [r EXCEPT !.value = a]
    <3>1. k[3] = r.tok
      BY DEF ChartKey
    <3>2. r.tok[1] = t /\ a.by = t => Fresh(t, r.tok[2], a.upto)
      BY <1>0, <2>1, <3>1 DEF CachedFresh
    <3>3. Moves(w, "reply", q)
      BY <2>1 DEF Proceeds
    <3> HIDE DEF a, k
    <3>4. q.tok = r.tok /\ q.key = r.key /\ q.hid = r.hid /\ q.value = a /\ q.since = r.since
      BY <1>0 DEF Request
    <3> HIDE DEF q
    <3>5. Held(Current(t)', t, r, q)
      BY <3>4 DEF Held
    <3>6. Applies(t, "reply", q) /\ Bumps(t, "reply", q)
      BY <1>0, <3>2, <3>4 DEF Applies, Bumps
    <3> QED BY <3>3, <3>5, <3>6 DEF Follows
  <2>2. CASE Proceeds(w, "resolve", [r EXCEPT !.phase = "hidden"])
    <3> DEFINE q == [r EXCEPT !.phase = "hidden"]
    <3>1. q.tok = r.tok /\ q.key = r.key /\ q.hid = r.hid /\ q.value = r.value /\ q.since = r.since
      BY <1>0 DEF Request
    <3>2. Moves(w, "resolve", q)
      BY <2>2 DEF Proceeds
    <3> HIDE DEF q
    <3> QED BY <3>1, <3>2, PlainFollows DEF Bumps
  <2>3. CASE Proceeds(w, "build", r)
    BY <1>1, <2>3
  <2> QED BY <1>15, <2>1, <2>2, <2>3, LookupMoves
<1>16. CASE Build(w)
  <2>1. PICK a \in Chart : Built(r, a) /\ Proceeds(w, "store", [r EXCEPT !.value = a])
    BY <1>16, BuildMoves
  <2>2. pc[w] = "build"
    BY <1>16, BuildMoves
  <2> DEFINE q == [r EXCEPT !.value = a]
  <2>3. q.tok = r.tok /\ q.key = r.key /\ q.hid = r.hid /\ q.value = a /\ q.since = r.since
    BY <1>0 DEF Request
  <2>4. Moves(w, "store", q)
    BY <2>1 DEF Proceeds
  <2> HIDE DEF q
  <2>5. ASSUME a.by = t, r.tok[1] = t PROVE Fresh(t, r.tok[2], a.upto)
    <3>1. r.tok[2] \in 1..Current(t)
      BY <1>0, <2>5 DEF Tokens
    <3>2. CASE r.phase = "own"
      <4>1. a.upto = Len(overrides[t])
        BY <2>1, <2>5, <3>2 DEF Built
      <4> QED BY <3>1, <4>1, LoadedFresh
    <3>3. CASE r.phase # "own"
      <4>1. r.hid.by = t /\ a.upto = r.hid.upto
        BY <2>1, <2>5, <3>3 DEF Built
      <4>2. r.key[1] = t
        BY <1>0, <4>1 DEF Shape
      <4>3. r.tok[2] <= r.key[2] /\ Fresh(t, r.key[2], a.upto)
        BY <1>0, <2>5, <4>1, <4>2 DEF Tokens, Applies
      <4> HIDE DEF r
      <4> QED BY <1>0, <3>1, <4>3, FreshDown
    <3> QED BY <3>2, <3>3
  <2>6. Held(Current(t)', t, r, q)
    BY <2>3 DEF Held
  <2>7. Applies(t, "store", q) /\ Bumps(t, "store", q)
    BY <1>0, <2>3, <2>5 DEF Applies, Bumps
  <2> QED BY <2>4, <2>6, <2>7 DEF Follows
<1>17. CASE Store(w) \/ NothingToSave(w)
  BY <1>1, <1>17, StoreMoves, NothingToSaveMoves
<1>18. CASE SaveOverride(w)
  <2>1. PICK label \in {"add", "save"}, n \in Nat : Proceeds(w, label, [r EXCEPT !.n = n])
    <3>1. Len(overrides[r.teacher]) + 1 \in Nat
      BY <1>18, SaveOverrideMoves
    <3> QED BY <1>18, <3>1, SaveOverrideMoves
  <2> DEFINE q == [r EXCEPT !.n = n]
  <2>2. q.tok = r.tok /\ q.key = r.key /\ q.hid = r.hid /\ q.value = r.value /\ q.since = r.since
    BY <1>0 DEF Request
  <2>3. Moves(w, label, q)
    BY <2>1 DEF Proceeds
  <2> HIDE DEF q
  <2> QED BY <2>2, <2>3, PlainFollows DEF Bumps
<1>19. CASE ReceivesAny(w)
  <2>1. PICK label \in PCs, q \in Request : Proceeds(w, label, q) /\ Begins(label, q)
    BY <1>19, ReceiveMoves
  <2> QED BY <2>1, EmptyFollows DEF Begins, Proceeds
<1>20. CASE ChangeCourse(w)
  <2>1. PICK s \in Students, k \in Courses \cup {None}, q \in Request :
          /\ course' = [course EXCEPT ![s] = k]
          /\ leftAt' = [leftAt EXCEPT ![s][TeacherOfStudent(s)] = now]
          /\ Proceeds(w, "forget", q) /\ q.user = s
          /\ q = [Idle EXCEPT !.kind = "course", !.start = now, !.user = s]
    BY <1>20, ChangeCourseMoves
  <2>2. q.tok = Public /\ q.key = Public /\ q.hid = NothingHidden
    BY <2>1 DEF Idle
  <2> QED BY <2>1, <2>2, EmptyFollows DEF Proceeds
<1> QED BY <1>2, <1>3, <1>4, <1>5, <1>6, <1>7, <1>8, <1>9, <1>10, <1>11, <1>12, <1>13, <1>14, <1>15,
           <1>16, <1>17, <1>18, <1>19, <1>20, StepCases

-----------------------------------------------------------------------------
(* What was fresh stays fresh.                                             *)

\* What was fresh under a version stays so: announced changes get a version of their own.
LEMMA FreshKept ==
  ASSUME Types, CountsInv, [Next]_vars, NEW t \in Teachers, Good(t)', Good(t) => Reaches(t),
         \A w \in Workers : Held(Current(t)', t, req[w], req'[w]),
         NEW v \in Nat, NEW upto \in Nat, Fresh(t, v, upto)
  PROVE  Fresh(t, v, upto)'
<1> DEFINE c == Current(t)'
<1>0. Types'
  BY TypesStep
<1>1. /\ Current(t) \in Nat /\ c \in Nat /\ Current(t) <= c
      /\ c = Current(t) => announced'[t] = announced[t]
  BY VersionsGrow
<1>2. /\ v >= 1 /\ v <= Current(t) /\ (v = Current(t) => upto >= announced[t])
      /\ \A w \in Workers : Holds(req[w], t, v) => upto >= req[w].since[t]
  BY <1>1 DEF Fresh
<1> HIDE DEF c
<1>3. v \in 1..c /\ (v = c => upto >= announced'[t])
  BY <1>1, <1>2
<1>4. ASSUME NEW w \in Workers, Holds(req'[w], t, v) PROVE upto >= req'[w].since[t]
  <2> DEFINE r == req[w]
             q == req'[w]
  <2>1. q.tok[2] \in Nat /\ q.key[2] \in Nat /\ r.since[t] \in Nat
    BY <1>0, RequestFacts DEF Types, WorkerTypes, Request, Token
  <2>2. Held(c, t, r, q)
    BY DEF c
  <2>3. q.since = r.since
    BY <1>4, <2>2 DEF Held, Holds
  <2>4. r.since[t] <= announced[t] /\ announced[t] \in Nat
    BY DEF CountsInv, Counted, Types, DbTypes
  <2>5. CASE q.tok[1] = t /\ q.tok[2] <= v
    <3>1. CASE q.tok = r.tok
      <4>1. Holds(r, t, v)
        BY <2>5, <3>1 DEF Holds
      <4> QED BY <1>2, <2>3, <4>1
    <3>2. CASE q.tok[2] = c
      BY <1>1, <1>2, <2>1, <2>3, <2>4, <2>5, <3>2
    <3> QED BY <2>2, <2>5, <3>1, <3>2 DEF Held
  <2>6. CASE q.key[1] = t /\ q.key[2] <= v
    <3>1. CASE q.key = r.key
      <4>1. Holds(r, t, v)
        BY <2>6, <3>1 DEF Holds
      <4> QED BY <1>2, <2>3, <4>1
    <3>2. CASE q.key[2] = c
      BY <1>1, <1>2, <2>1, <2>3, <2>4, <2>6, <3>2
    <3> QED BY <2>2, <2>6, <3>1, <3>2 DEF Held
  <2> QED BY <1>4, <2>5, <2>6 DEF Holds
<1> QED BY <1>3, <1>4 DEF Fresh, c

\* The versions that a request holds are none that is still to come.
LEMMA TokensKept ==
  ASSUME Types, [Next]_vars, NEW t \in Teachers, Good(t)', Good(t) => Reaches(t), NEW w \in Workers,
         Held(Current(t)', t, req[w], req'[w])
  PROVE  Tokens(t, req[w])'
<1> DEFINE c == Current(t)'
           r == req[w]
           q == req'[w]
<1>0. Types'
  BY TypesStep
<1>1. Good(t) /\ Current(t) \in Nat /\ c \in Nat /\ Current(t) <= c
  BY VersionsGrow
<1>2. /\ r.tok[1] = t => r.tok[2] \in 1..Current(t)
      /\ r.key[1] = t => r.key[2] \in 1..Current(t)
      /\ r.tok[1] = t /\ r.key[1] = t => r.tok[2] <= r.key[2]
  BY <1>1 DEF Reaches, Tokens
<1>3. Held(c, t, r, q)
  OBVIOUS
<1> HIDE DEF c, r, q
<1>4. q.tok[1] = t => q.tok[2] \in 1..c
  BY <1>1, <1>2, <1>3 DEF Held
<1>5. q.key[1] = t => q.key[2] \in 1..c
  BY <1>1, <1>2, <1>3 DEF Held
<1>6. q.tok[1] = t /\ q.key[1] = t => q.tok[2] <= q.key[2]
  <2> SUFFICES ASSUME q.tok[1] = t, q.key[1] = t PROVE q.tok[2] <= q.key[2]
    OBVIOUS
  <2>1. q.tok = r.tok
    BY <1>3 DEF Held
  <2>2. CASE q.key = r.key
    BY <1>2, <2>1, <2>2
  <2>3. CASE q.key[2] = c
    BY <1>1, <1>4, <2>3
  <2> QED BY <1>3, <2>2, <2>3 DEF Held
<1> QED BY <1>4, <1>5, <1>6 DEF Tokens, c, q

\* Every step keeps what is held and cached fresh, as long as the teacher is good.
LEMMA ReachesStep ==
  ASSUME Types, CountsInv, [Next]_vars, NEW t \in Teachers, Good(t)', Good(t) => Reaches(t)
  PROVE  Reaches(t)'
<1>0. Types' /\ Good(t) /\ Reaches(t) /\ (versions[t] # Missing => versions'[t] # Missing)
  BY TypesStep, VersionsGrow
<1>1. ASSUME NEW w \in Workers
      PROVE  /\ Held(Current(t)', t, req[w], req'[w])
             /\ Applies(t, pc'[w], req'[w]) /\ Bumps(t, pc'[w], req'[w])
  <2>1. CASE pc'[w] = pc[w] /\ req'[w] = req[w]
    <3>1. Applies(t, pc[w], req[w]) /\ Bumps(t, pc[w], req[w])
      BY <1>0 DEF Reaches
    <3>2. Held(Current(t)', t, req[w], req[w])
      BY DEF Held
    <3> QED BY <2>1, <3>1, <3>2
  <2>2. ASSUME NEW v \in Workers, Step(v)
        PROVE  (pc'[w] = pc[w] /\ req'[w] = req[w]) \/ (v = w /\ Follows(w, t))
    BY <1>0, <2>2, StepTime, StepFollows DEF Others
  <2>3. CASE Follows(w, t)
    <3>1. PICK label, q : /\ Moves(w, label, q) /\ Held(Current(t)', t, req[w], q)
                          /\ Applies(t, label, q) /\ Bumps(t, label, q)
      BY <2>3 DEF Follows
    <3>2. pc'[w] = label /\ req'[w] = q
      BY <3>1 DEF Moves
    <3> QED BY <3>1, <3>2
  <2>4. CASE Tick \/ DeleteCourse \/ UNCHANGED vars
    BY <2>1, <2>4 DEF Tick, DeleteCourse, vars
  <2> QED BY <2>1, <2>2, <2>3, <2>4 DEF Next
<1>2. ASSUME NEW v \in Nat, NEW upto \in Nat, Fresh(t, v, upto) PROVE Fresh(t, v, upto)'
  BY <1>0, <1>1, <1>2, FreshKept
<1>3. ASSUME NEW w \in Workers PROVE Bumps(t, pc[w], req[w])' /\ Applies(t, pc[w], req[w])'
  <2>1. PICK label \in PCs, q \in Request : label = pc'[w] /\ q = req'[w]
    BY <1>0 DEF Types, WorkerTypes
  <2>2. Applies(t, label, q) /\ Bumps(t, label, q)
    BY <1>1, <2>1
  <2>3. Bumps(t, label, q)'
    BY <1>0, <2>2 DEF Bumps
  <2>4. /\ q.key[2] \in Nat /\ q.tok[2] \in Nat /\ q.hid.upto \in Nat /\ q.value.upto \in Nat
    BY DEF Request, Token, Hidden, Chart
  <2>5. Applies(t, label, q)'
    BY <1>2, <2>2, <2>4 DEF Applies
  <2> QED BY <2>1, <2>3, <2>5
<1>4. ASSUME NEW w \in Workers PROVE Tokens(t, req[w])'
  BY <1>0, <1>1, TokensKept
<1>5. ASSUME NEW k \in DOMAIN hidden', k[1] = t PROVE Fresh(t, k[2], hidden[k].value.upto)'
  <2>0. k[2] \in Nat /\ hidden'[k].value.upto \in Nat
    BY <1>0, <1>5 DEF Types, CacheTypes, Hidden
  <2>1. Fresh(t, k[2], hidden'[k].value.upto)
    <3>1. CASE k \in DOMAIN hidden /\ hidden'[k] = hidden[k]
      BY <1>0, <1>5, <3>1 DEF Reaches, CachedFresh
    <3>2. ASSUME NEW w \in Workers, pc[w] = "keep", k = req[w].key,
                 hidden'[k] = [value |-> req[w].hid, until |-> now + VisibilityTimeout]
          PROVE  Fresh(t, k[2], hidden'[k].value.upto)
      <4>1. req[w].hid.by = t
        BY <1>5, <3>2, RequestFacts DEF Shape
      <4>2. Applies(t, pc[w], req[w])
        BY <1>0 DEF Reaches
      <4> QED BY <3>2, <4>1, <4>2 DEF Applies
    <3>3. ASSUME NEW w \in Workers, Step(w)
          PROVE  \/ k \in DOMAIN hidden /\ hidden'[k] = hidden[k]
                 \/ /\ pc[w] = "keep" /\ k = req[w].key
                    /\ hidden'[k] = [value |-> req[w].hid, until |-> now + VisibilityTimeout]
      <4>1. \/ hidden' = hidden
            \/ pc[w] = "keep" /\ hidden' = Put(hidden, req[w].key, req[w].hid, VisibilityTimeout)
        BY <3>3, CacheStep
      <4>2. CASE pc[w] = "keep" /\ hidden' = Put(hidden, req[w].key, req[w].hid, VisibilityTimeout)
        BY <1>5, <4>2 DEF Put
      <4> QED BY <1>5, <4>1, <4>2
    <3>4. CASE Tick
      BY <1>5, <3>1, <3>4 DEF Tick, Unexpired
    <3>5. CASE DeleteCourse \/ UNCHANGED vars
      BY <1>5, <3>1, <3>5 DEF DeleteCourse, vars, cache
    <3> QED BY <3>1, <3>2, <3>3, <3>4, <3>5 DEF Next
  <2>2. PICK n \in Nat : n = hidden'[k].value.upto
    BY <2>0
  <2>3. Fresh(t, k[2], n)'
    BY <1>2, <2>0, <2>1, <2>2
  <2> QED BY <2>2, <2>3
<1>6. ASSUME NEW k \in DOMAIN charts', k[3][1] = t, charts'[k].value.by = t
      PROVE  Fresh(t, k[3][2], charts[k].value.upto)'
  <2>0. k[3][2] \in Nat /\ charts'[k].value.upto \in Nat
    BY <1>0, <1>6 DEF Types, CacheTypes, Chart, Token
  <2>1. Fresh(t, k[3][2], charts'[k].value.upto)
    <3>1. CASE k \in DOMAIN charts /\ charts'[k] = charts[k]
      BY <1>0, <1>6, <3>1 DEF Reaches, CachedFresh
    <3>2. ASSUME NEW w \in Workers, pc[w] = "store", k = ChartKey(req[w]),
                 charts'[k] = [value |-> req[w].value, until |-> now + ChartTimeout]
          PROVE  Fresh(t, k[3][2], charts'[k].value.upto)
      <4>1. req[w].value.by = t /\ k[3] = req[w].tok /\ charts'[k].value = req[w].value
        BY <1>6, <3>2 DEF ChartKey
      <4>2. Applies(t, pc[w], req[w])
        BY <1>0 DEF Reaches
      <4> QED BY <1>6, <3>2, <4>1, <4>2 DEF Applies
    <3>3. ASSUME NEW w \in Workers, Step(w)
          PROVE  \/ k \in DOMAIN charts /\ charts'[k] = charts[k]
                 \/ /\ pc[w] = "store" /\ k = ChartKey(req[w])
                    /\ charts'[k] = [value |-> req[w].value, until |-> now + ChartTimeout]
      <4>1. \/ charts' = charts
            \/ pc[w] = "store" /\ charts' = Put(charts, ChartKey(req[w]), req[w].value, ChartTimeout)
        BY <3>3, CacheStep
      <4>2. CASE pc[w] = "store" /\ charts' = Put(charts, ChartKey(req[w]), req[w].value, ChartTimeout)
        BY <1>6, <4>2 DEF Put
      <4> QED BY <1>6, <4>1, <4>2
    <3>4. CASE Tick
      BY <1>6, <3>1, <3>4 DEF Tick, Unexpired
    <3>5. CASE DeleteCourse \/ UNCHANGED vars
      BY <1>6, <3>1, <3>5 DEF DeleteCourse, vars, cache
    <3> QED BY <3>1, <3>2, <3>3, <3>4, <3>5 DEF Next
  <2>2. PICK n \in Nat, u \in Nat : n = charts'[k].value.upto /\ u = k[3][2]
    BY <2>0
  <2>3. Fresh(t, u, n)'
    BY <1>2, <2>1, <2>2
  <2> QED BY <2>2, <2>3
<1> QED BY <1>3, <1>4, <1>5, <1>6 DEF Reaches, CachedFresh

\* Nothing is held, cached or announced at the beginning.
LEMMA InitialReach == Init => CountsInv /\ ReachInv
<1> SUFFICES ASSUME Init PROVE CountsInv /\ ReachInv
  OBVIOUS
<1>1. CountsInv
  <2>1. \A w \in Workers : Counted(req[w])
    BY DEF Init, Counted, Idle
  <2> QED BY <2>1 DEF Init, CountsInv
<1>2. ASSUME NEW t \in Teachers PROVE Reaches(t)
  <2>0. None # t /\ Public[1] = None /\ NothingHidden.by = None
    BY NamesAssumption DEF Public, NothingHidden
  <2>1. \A w \in Workers : pc[w] = "idle" /\ req[w].tok = Public /\ req[w].key = Public
                           /\ req[w].hid = NothingHidden
    BY DEF Init, Idle
  <2>2. \A w \in Workers : Bumps(t, pc[w], req[w]) /\ Tokens(t, req[w]) /\ Applies(t, pc[w], req[w])
    BY <2>0, <2>1 DEF Bumps, Tokens, Applies
  <2>3. CachedFresh(t)
    BY DEF Init, CachedFresh
  <2> QED BY <2>2, <2>3 DEF Reaches
<1> QED BY <1>1, <1>2 DEF ReachInv

\* Fresh answers contain the overrides that were announced before.
LEMMA ReachIsEnough == Types /\ ReachInv => OverridesReach
<1> SUFFICES ASSUME Types, ReachInv, NEW w \in Workers,
                    Applied(w).by # None, ~degraded, Applied(w).by \notin rewound,
                    req[w].kind = "chart" => Applied(w).by = req[w].tok[1]
             PROVE  Applied(w).upto >= req[w].since[Applied(w).by]
  BY DEF OverridesReach
<1> DEFINE r == req[w]
           t == Applied(w).by
<1>0. r \in Request /\ Shape(pc[w], r) /\ r.hid \in Hidden /\ r.value \in Chart /\ r.tok[2] \in Nat
      /\ r.key[2] \in Nat
  BY RequestFacts DEF Token
<1>1. CASE pc[w] = "reply"
  <2>1. t = r.value.by /\ Applied(w).upto = r.value.upto
    BY <1>1 DEF Applied
  <2>2. t \in Teachers
    BY <1>0, <2>1 DEF Chart
  <2>3. r.tok[1] = t
    BY <1>0, <1>1, <2>1 DEF Shape
  <2>4. Fresh(t, r.tok[2], r.value.upto)
    BY <1>1, <2>1, <2>2, <2>3 DEF ReachInv, Good, Reaches, Applies
  <2>5. Holds(r, t, r.tok[2])
    BY <1>0, <2>3 DEF Holds
  <2> QED BY <2>1, <2>4, <2>5 DEF Fresh
<1>2. CASE pc[w] = "add" /\ r.kind = "write"
  <2>1. t = r.hid.by /\ Applied(w).upto = r.hid.upto
    BY <1>2 DEF Applied
  <2>2. t \in Teachers
    BY <1>0, <2>1 DEF Hidden
  <2>3. r.key[1] = t
    BY <1>0, <1>2, <2>1 DEF Shape
  <2>4. Fresh(t, r.key[2], r.hid.upto)
    BY <2>1, <2>2 DEF ReachInv, Good, Reaches, Applies
  <2>5. Holds(r, t, r.key[2])
    BY <1>0, <2>3 DEF Holds
  <2> QED BY <2>1, <2>4, <2>5 DEF Fresh
<1>3. CASE pc[w] # "reply" /\ ~(pc[w] = "add" /\ r.kind = "write")
  BY <1>3 DEF Applied, NothingHidden
<1> QED BY <1>1, <1>2, <1>3

\* With a cache that answers, whatever requests overlap, an answer applies every override that was
\* announced before its request began, unless the version of the teacher's overrides went back or
\* the student's teacher changed while the chart was built.
THEOREM AnnouncedOverridesReach == Spec => []OverridesReach
<1>1. Types /\ CountsInv /\ ReachInv /\ [Next]_vars => CountsInv' /\ ReachInv'
  BY CountsStep, ReachesStep DEF ReachInv
<1>2. Spec => [](CountsInv /\ ReachInv)
  BY <1>1, InitialReach, TypesAreInvariant, PTL DEF Spec
<1> QED BY <1>2, ReachIsEnough, TypesAreInvariant, PTL
=============================================================================
