---------------------------- MODULE AccessProofs ----------------------------
(***************************************************************************)
(* Proofs about Access, for any users, courses, companies and workers.     *)
(***************************************************************************)
EXTENDS Access, TLAPS

(***************************************************************************)
(* The inductive invariant.  A request writes what it loaded and checked   *)
(* some steps before, so the invariant says what a request in flight holds *)
(* (RequestInv); courses come and go under it, so it also says that no row *)
(* refers to a course that has gone (RowsHaveCourses), and who is behind   *)
(* the rows that students see (SharersInv).  An update_me holds the role   *)
(* of its user until the user is given another.                            *)
(***************************************************************************)

Request == [op : Ops \cup {"none"}, actor : Users \cup {None}, course : Courses \cup {None},
            teacher : Users \cup {None}, user : Users \cup {None}, role : Roles,
            company : Companies \cup {None}, on : BOOLEAN]

\* The role that an update_me holds is still the user's, or was outrun by another.
HoldsRole(w) == req[w].user \in outrun \/ req[w].role = role[req[w].user]

\* What a request in flight has established, and nobody can take back unnoticed.
RequestInv ==
  \A w \in Workers :
    /\ pc[w] \in {"update", "delete", "enroll", "unenroll", "demo", "share"} => req[w].course \in used
    /\ pc[w] \in {"create", "update"} => req[w].teacher \in Users
    /\ pc[w] \in {"enroll", "unenroll", "role", "me", "import"} => req[w].user \in Users
    /\ pc[w] \in {"demo", "publish"} => req[w].company \in Demos
    /\ pc[w] = "share" => /\ req[w].company \in Companies \ Demos
                          /\ req[w].role = "admin" \/ Owner[req[w].company] = req[w].actor
    /\ pc[w] = "me" => HoldsRole(w)

\* A course that has gone has taken its rows along.
RowsHaveCourses ==
  /\ demoShown \subseteq ExistingCourses \X Demos
  /\ shared \subseteq ExistingCourses \X (Companies \ Demos)

\* Behind every visible row is its owner, or an admin.
SharersInv ==
  \A row \in shared :
    \E v \in sharers : /\ v[1] = row[1] /\ v[2] = row[2]
                       /\ v[3] = Owner[row[2]] \/ v[4] = "admin"

IInv ==
  /\ TypeOK
  /\ req \in [Workers -> Request]
  /\ RequestInv
  /\ RowsHaveCourses
  /\ OneCoursePerStudent
  /\ RolesAreLatest
  /\ SharersInv

\* No courses, no rows and no requests at the start.
LEMMA InitIInv == Init => IInv
<1> SUFFICES ASSUME Init PROVE IInv
  OBVIOUS
<1> USE UsersAssumption, BoundAssumption
<1>1. TypeOK
  BY DEF Init, TypeOK, ExistingCourses
<1>2. req \in [Workers -> Request] /\ RequestInv
  BY DEF Init, Idle, Request, Roles, RequestInv
<1>3. RowsHaveCourses /\ OneCoursePerStudent /\ RolesAreLatest /\ SharersInv
  BY DEF Init, RowsHaveCourses, OneCoursePerStudent, RolesAreLatest, SharersInv
<1> QED
  BY <1>1, <1>2, <1>3 DEF IInv

\* A request is loaded: the tables stay, and it holds what RequestInv says of it.
LEMMA LoadStep ==
  ASSUME IInv, NEW w \in Workers, NEW r \in Request, r.op \in Ops, Load(w, r),
         r.op \in {"update", "delete", "enroll", "unenroll", "demo", "share"} => r.course \in used,
         r.op \in {"create", "update"} => r.teacher \in Users,
         r.op \in {"enroll", "unenroll", "role", "me", "import"} => r.user \in Users,
         r.op \in {"demo", "publish"} => r.company \in Demos,
         r.op = "share" => /\ r.company \in Companies \ Demos
                           /\ r.role = "admin" \/ Owner[r.company] = r.actor,
         r.op = "me" => r.role = role[r.user]
  PROVE  IInv'
<1>1. UNCHANGED <<role, teacherOf, used, enrolments, demoShown, shared, published, latest, outrun, sharers>>
  BY DEF Load, tables, histories
<1>2. TypeOK'
  BY <1>1, BoundAssumption DEF Load, IInv, TypeOK, ExistingCourses
<1>3. req' \in [Workers -> Request]
  BY DEF Load, IInv
<1>4. RequestInv'
  <2> USE DEF HoldsRole
  <2> SUFFICES ASSUME NEW v \in Workers
               PROVE  RequestInv!(v)'
    BY DEF RequestInv
  <2>1. CASE v = w
    <3>1. pc'[v] = r.op /\ req'[v] = r
      BY <2>1 DEF Load, IInv, TypeOK
    <3> QED
      BY <3>1, <1>1
  <2>2. CASE v # w
    <3>1. pc'[v] = pc[v] /\ req'[v] = req[v]
      BY <2>2 DEF Load, IInv, TypeOK
    <3> QED
      BY <3>1, <1>1 DEF IInv, RequestInv
  <2> QED
    BY <2>1, <2>2
<1>5. RowsHaveCourses' /\ OneCoursePerStudent' /\ RolesAreLatest' /\ SharersInv'
  BY <1>1 DEF IInv, RowsHaveCourses, ExistingCourses, OneCoursePerStudent, RolesAreLatest, SharersInv
<1> QED
  BY <1>2, <1>3, <1>4, <1>5 DEF IInv

\* A request ends: the others keep what they hold, since keys stay used, and a role that is
\* changed under an update_me is outrun.
LEMMA DoneStep ==
  ASSUME IInv, NEW w \in Workers, Done(w), used \subseteq used',
         \/ UNCHANGED <<role, outrun>>
         \/ \A v \in Workers \ {w} : pc[v] = "me" =>
              req[v].user \in outrun' \/ req[v].role = role'[req[v].user]
  PROVE  /\ pc' \in [Workers -> Ops \cup {"idle"}]
         /\ requests' \in 0..MaxRequests
         /\ req' \in [Workers -> Request]
         /\ RequestInv'
<1>1. pc' \in [Workers -> Ops \cup {"idle"}] /\ requests' \in 0..MaxRequests
  BY DEF Done, IInv, TypeOK
<1>2. req' \in [Workers -> Request]
  BY DEF Done, IInv, Idle, Request, Roles
<1>3. RequestInv'
  <2> SUFFICES ASSUME NEW v \in Workers
               PROVE  RequestInv!(v)'
    BY DEF RequestInv
  <2>1. CASE v = w
    <3>1. pc'[v] = "idle"
      BY <2>1 DEF Done, IInv, TypeOK
    <3> QED
      BY <3>1
  <2>2. CASE v # w
    <3>1. pc'[v] = pc[v] /\ req'[v] = req[v]
      BY <2>2 DEF Done, IInv, TypeOK
    <3>2. pc[v] = "me" => req[v].user \in outrun' \/ req[v].role = role'[req[v].user]
      BY <2>2 DEF IInv, RequestInv, HoldsRole
    <3> QED
      BY <3>1, <3>2 DEF IInv, RequestInv, HoldsRole
  <2> QED
    BY <2>1, <2>2
<1> QED
  BY <1>1, <1>2, <1>3

\* A role is given: whoever holds another is outrun, and everybody has the role they were given
\* last.
LEMMA GiveRoleStep ==
  ASSUME IInv, NEW u \in Users, NEW r \in Roles, GiveRole(u, r)
  PROVE  /\ \A v \in Workers : pc[v] = "me" =>
              req[v].user \in outrun' \/ req[v].role = role'[req[v].user]
         /\ RolesAreLatest'
         /\ role' \in [Users -> Roles] /\ latest' \in [Users -> Roles] /\ outrun' \subseteq Users
<1>0. /\ role \in [Users -> Roles] /\ latest \in [Users -> Roles] /\ outrun \subseteq Users
      /\ RolesAreLatest
  BY DEF IInv, TypeOK
<1>1. SavedRole(u, r) \in Roles
  BY DEF SavedRole, Roles
<1>2. /\ role' = [role EXCEPT ![u] = SavedRole(u, r)]
      /\ latest' = [latest EXCEPT ![u] = r]
      /\ outrun' \subseteq outrun \cup {u} /\ outrun \ {u} \subseteq outrun'
      /\ (\E v \in Workers : pc[v] = "me" /\ req[v].user = u) => u \in outrun'
  BY DEF GiveRole
<1>3. ASSUME NEW v \in Workers, pc[v] = "me"
      PROVE  req[v].user \in outrun' \/ req[v].role = role'[req[v].user]
  <2>1. req[v].user \in Users /\ HoldsRole(v)
    BY <1>3 DEF IInv, RequestInv
  <2>2. CASE req[v].user = u
    BY <1>2, <1>3, <2>2
  <2>3. CASE req[v].user # u
    BY <1>0, <1>2, <2>1, <2>3 DEF HoldsRole
  <2> QED
    BY <2>2, <2>3
<1>4. RolesAreLatest'
  BY <1>0, <1>2 DEF RolesAreLatest, SavedRole
<1> QED
  BY <1>0, <1>1, <1>2, <1>3, <1>4

\* A request that is received checks enough for what it will write.
LEMMA ReceiveStep ==
  ASSUME IInv, NEW w \in Workers, Receive(w)
  PROVE  IInv'
<1> USE DEF Request, Idle, Ops, Roles
<1>0. /\ ExistingCourses \subseteq used /\ used \subseteq Courses
      /\ \A k \in ExistingCourses : teacherOf[k] \in Users
      /\ role \in [Users -> {"admin", "teacher", "student"}]
  BY DEF IInv, TypeOK
<1>1. CASE ReceiveCreateCourse(w)
  <2>1. PICK u \in Users, t \in Users :
          Load(w, [Idle EXCEPT !.op = "create", !.actor = u, !.teacher = t])
    BY <1>1 DEF ReceiveCreateCourse, CourseTeachers
  <2> QED
    BY <2>1, LoadStep
<1>2. CASE ReceiveUpdateCourse(w)
  <2>1. PICK u \in Users, k \in ExistingCourses :
          Load(w, [Idle EXCEPT !.op = "update", !.actor = u, !.course = k, !.teacher = teacherOf[k]])
    BY <1>2 DEF ReceiveUpdateCourse
  <2> QED
    BY <1>0, <2>1, LoadStep
<1>3. CASE ReceiveDeleteCourse(w)
  <2>1. PICK u \in Users, k \in ExistingCourses :
          Load(w, [Idle EXCEPT !.op = "delete", !.actor = u, !.course = k])
    BY <1>3 DEF ReceiveDeleteCourse
  <2> QED
    BY <1>0, <2>1, LoadStep
<1>4. CASE ReceiveEnroll(w)
  <2>1. PICK u \in Users, k \in ExistingCourses, s \in Users :
          Load(w, [Idle EXCEPT !.op = "enroll", !.actor = u, !.course = k, !.user = s])
    BY <1>4 DEF ReceiveEnroll
  <2> QED
    BY <1>0, <2>1, LoadStep
<1>5. CASE ReceiveUnenroll(w)
  <2>1. PICK u \in Users, k \in ExistingCourses, s \in Users :
          Load(w, [Idle EXCEPT !.op = "unenroll", !.actor = u, !.course = k, !.user = s])
    BY <1>5 DEF ReceiveUnenroll
  <2> QED
    BY <1>0, <2>1, LoadStep
<1>6. CASE ReceiveShowDemo(w)
  <2>1. PICK u \in Users, k \in ExistingCourses, on \in BOOLEAN, c \in Demos :
          Load(w, [Idle EXCEPT !.op = "demo", !.actor = u, !.course = k, !.company = c, !.on = on])
    BY <1>6 DEF ReceiveShowDemo, CourseDemos
  <2>2. c \in Companies
    BY <2>1, CompaniesAssumption
  <2> QED
    BY <1>0, <2>1, <2>2, LoadStep
<1>7. CASE ReceiveShare(w)
  <2>1. PICK u \in Users, k \in ExistingCourses, on \in BOOLEAN, c \in Companies \ Demos :
          /\ role[u] = "admin" \/ Owner[c] = u
          /\ Load(w, [Idle EXCEPT !.op = "share", !.actor = u, !.role = role[u], !.course = k,
                                  !.company = c, !.on = on])
    BY <1>7 DEF ReceiveShare, Shareable
  <2> QED
    BY <1>0, <2>1, LoadStep
<1>8. CASE ReceiveSetRole(w)
  <2>1. PICK u \in Users, v \in Users, r \in Roles :
          Load(w, [Idle EXCEPT !.op = "role", !.actor = u, !.user = v, !.role = r])
    BY <1>8 DEF ReceiveSetRole
  <2> QED
    BY <2>1, LoadStep
<1>9. CASE ReceiveUpdateMe(w)
  <2>1. PICK u \in Users :
          Load(w, [Idle EXCEPT !.op = "me", !.actor = u, !.user = u, !.role = role[u]])
    BY <1>9 DEF ReceiveUpdateMe, ProfileRoles
  <2> QED
    BY <1>0, <2>1, LoadStep
<1>10. CASE ReceivePublish(w)
  <2>1. PICK u \in Users, c \in Demos, on \in BOOLEAN :
          Load(w, [Idle EXCEPT !.op = "publish", !.actor = u, !.company = c, !.on = on])
    BY <1>10 DEF ReceivePublish
  <2>2. c \in Companies
    BY <2>1, CompaniesAssumption
  <2> QED
    BY <2>1, <2>2, LoadStep
<1>11. CASE ReceiveImport(w)
  <2>1. PICK u \in Users : Load(w, [Idle EXCEPT !.op = "import", !.user = u])
    BY <1>11 DEF ReceiveImport
  <2> QED
    BY <2>1, LoadStep
<1> QED
  BY <1>1, <1>2, <1>3, <1>4, <1>5, <1>6, <1>7, <1>8, <1>9, <1>10, <1>11 DEF Receive

\* A write keeps the invariant, although it uses what was loaded steps before.
LEMMA WriteStep ==
  ASSUME IInv, NEW w \in Workers, Write(w)
  PROVE  IInv'
<1> USE DEF ExistingCourses, histories
<1>0. TypeOK /\ RowsHaveCourses /\ OneCoursePerStudent /\ RolesAreLatest /\ SharersInv
      /\ (\A v \in Workers : RequestInv!(v))
  BY DEF IInv, RequestInv
<1>1. CASE CreateCourse(w)
  <2>1. PICK k \in Courses \ used : PutCourse(k, req[w].teacher) /\ used' = used \cup {k}
    BY <1>1 DEF CreateCourse
  <2>2. Done(w) /\ UNCHANGED <<role, enrolments, demoShown, shared, published, latest, outrun, sharers>>
    BY <1>1 DEF CreateCourse
  <2>3. req[w].teacher \in Users
    BY <1>0, <1>1 DEF CreateCourse
  <2>4. DOMAIN teacherOf' = DOMAIN teacherOf \cup {k} /\ \A j \in DOMAIN teacherOf' : teacherOf'[j] \in Users
    BY <1>0, <2>1, <2>3 DEF PutCourse, TypeOK
  <2>5. RowsHaveCourses' /\ OneCoursePerStudent' /\ RolesAreLatest' /\ SharersInv'
    BY <1>0, <2>2, <2>4 DEF RowsHaveCourses, OneCoursePerStudent, RolesAreLatest, SharersInv
  <2>6. /\ pc' \in [Workers -> Ops \cup {"idle"}] /\ requests' \in 0..MaxRequests
        /\ req' \in [Workers -> Request] /\ RequestInv'
    BY <2>1, <2>2, DoneStep
  <2>7. TypeOK'
    BY <1>0, <2>1, <2>2, <2>4, <2>6 DEF TypeOK
  <2> QED
    BY <2>5, <2>6, <2>7 DEF IInv
<1>2. CASE UpdateCourse(w)
  <2>2. Done(w) /\ UNCHANGED <<role, used, enrolments, demoShown, shared, published, latest, outrun, sharers>>
    BY <1>2 DEF UpdateCourse
  <2>3. req[w].teacher \in Users /\ req[w].course \in used
    BY <1>0, <1>2 DEF UpdateCourse
  <2>4. /\ DOMAIN teacherOf' = DOMAIN teacherOf \cup {req[w].course}
        /\ \A j \in DOMAIN teacherOf' : teacherOf'[j] \in Users
    BY <1>0, <1>2, <2>3 DEF UpdateCourse, PutCourse, TypeOK
  <2>5. RowsHaveCourses' /\ OneCoursePerStudent' /\ RolesAreLatest' /\ SharersInv'
    BY <1>0, <2>2, <2>4 DEF RowsHaveCourses, OneCoursePerStudent, RolesAreLatest, SharersInv
  <2>6. /\ pc' \in [Workers -> Ops \cup {"idle"}] /\ requests' \in 0..MaxRequests
        /\ req' \in [Workers -> Request] /\ RequestInv'
    BY <2>2, DoneStep
  <2>7. TypeOK'
    BY <1>0, <2>2, <2>3, <2>4, <2>6 DEF TypeOK
  <2> QED
    BY <2>5, <2>6, <2>7 DEF IInv
<1>3. CASE DeleteCourse(w)
  <2> DEFINE k == req[w].course
  <2>2. /\ Done(w) /\ UNCHANGED <<role, used, published, latest, outrun>>
        /\ teacherOf' = [j \in DOMAIN teacherOf \ {k} |-> teacherOf[j]]
        /\ enrolments' = {e \in enrolments : e[2] # k}
        /\ demoShown' = {v \in demoShown : v[1] # k}
        /\ shared' = {v \in shared : v[1] # k}
        /\ sharers' = {v \in sharers : v[1] # k}
    BY <1>3 DEF DeleteCourse
  <2> HIDE DEF k
  <2>3. RowsHaveCourses' /\ OneCoursePerStudent' /\ RolesAreLatest'
    BY <1>0, <2>2 DEF RowsHaveCourses, OneCoursePerStudent, RolesAreLatest
  <2>4. SharersInv'
    BY <1>0, <2>2 DEF SharersInv
  <2>6. /\ pc' \in [Workers -> Ops \cup {"idle"}] /\ requests' \in 0..MaxRequests
        /\ req' \in [Workers -> Request] /\ RequestInv'
    BY <2>2, DoneStep
  <2>7. TypeOK'
    BY <1>0, <2>2, <2>6 DEF TypeOK
  <2> QED
    BY <2>3, <2>4, <2>6, <2>7 DEF IInv
<1>4. CASE Enroll(w)
  <2>2. /\ Done(w) /\ UNCHANGED <<role, teacherOf, used, demoShown, shared, published, latest, outrun, sharers>>
        /\ req[w].course \in DOMAIN teacherOf /\ UniqueStudent(req[w].user)
        /\ enrolments' = enrolments \cup {<<req[w].user, req[w].course>>}
    BY <1>4 DEF Enroll
  <2>3. req[w].user \in Users
    BY <1>0, <1>4 DEF Enroll
  <2>4. OneCoursePerStudent'
    BY <1>0, <2>2 DEF OneCoursePerStudent, UniqueStudent
  <2>5. RowsHaveCourses' /\ RolesAreLatest' /\ SharersInv'
    BY <1>0, <2>2 DEF RowsHaveCourses, RolesAreLatest, SharersInv
  <2>6. /\ pc' \in [Workers -> Ops \cup {"idle"}] /\ requests' \in 0..MaxRequests
        /\ req' \in [Workers -> Request] /\ RequestInv'
    BY <2>2, DoneStep
  <2>7. TypeOK'
    BY <1>0, <2>2, <2>3, <2>6 DEF TypeOK
  <2> QED
    BY <2>4, <2>5, <2>6, <2>7 DEF IInv
<1>5. CASE Unenroll(w)
  <2>2. /\ Done(w) /\ UNCHANGED <<role, teacherOf, used, demoShown, shared, published, latest, outrun, sharers>>
        /\ enrolments' \subseteq enrolments
    BY <1>5 DEF Unenroll
  <2>5. RowsHaveCourses' /\ OneCoursePerStudent' /\ RolesAreLatest' /\ SharersInv'
    BY <1>0, <2>2 DEF RowsHaveCourses, OneCoursePerStudent, RolesAreLatest, SharersInv
  <2>6. /\ pc' \in [Workers -> Ops \cup {"idle"}] /\ requests' \in 0..MaxRequests
        /\ req' \in [Workers -> Request] /\ RequestInv'
    BY <2>2, DoneStep
  <2>7. TypeOK'
    BY <1>0, <2>2, <2>6 DEF TypeOK
  <2> QED
    BY <2>5, <2>6, <2>7 DEF IInv
<1>6. CASE ShowDemo(w)
  <2>1. req[w].company \in Demos
    BY <1>0, <1>6 DEF ShowDemo
  <2>2. /\ Done(w) /\ UNCHANGED <<role, teacherOf, used, enrolments, shared, published, latest, outrun, sharers>>
        /\ req[w].course \in DOMAIN teacherOf
        /\ demoShown' \subseteq demoShown \cup {<<req[w].course, req[w].company>>}
    BY <1>6 DEF ShowDemo, Toggle
  <2>5. RowsHaveCourses' /\ OneCoursePerStudent' /\ RolesAreLatest' /\ SharersInv'
    BY <1>0, <2>1, <2>2 DEF RowsHaveCourses, OneCoursePerStudent, RolesAreLatest, SharersInv
  <2>6. /\ pc' \in [Workers -> Ops \cup {"idle"}] /\ requests' \in 0..MaxRequests
        /\ req' \in [Workers -> Request] /\ RequestInv'
    BY <2>2, DoneStep
  <2>7. TypeOK'
    BY <1>0, <2>1, <2>2, <2>6 DEF TypeOK
  <2> QED
    BY <2>5, <2>6, <2>7 DEF IInv
<1>7. CASE Share(w)
  <2> DEFINE r == req[w]
  <2>1. r.company \in Companies \ Demos /\ (r.role = "admin" \/ Owner[r.company] = r.actor)
    BY <1>0, <1>7 DEF Share
  <2>2. /\ Done(w) /\ UNCHANGED <<role, teacherOf, used, enrolments, demoShown, published, latest, outrun>>
        /\ r.course \in DOMAIN teacherOf
        /\ shared' = Toggle(shared, <<r.course, r.company>>, r.on)
        /\ sharers' = {v \in sharers : <<v[1], v[2]>> # <<r.course, r.company>>}
                        \cup (IF r.on THEN {<<r.course, r.company, r.actor, r.role>>} ELSE {})
    BY <1>7 DEF Share
  <2>3. r.on \in BOOLEAN
    BY DEF IInv, Request
  <2> HIDE DEF r
  <2>4. SharersInv'
    <3> SUFFICES ASSUME NEW row \in shared'
                 PROVE  \E v \in sharers' : /\ v[1] = row[1] /\ v[2] = row[2]
                                            /\ v[3] = Owner[row[2]] \/ v[4] = "admin"
      BY DEF SharersInv
    <3>1. CASE row = <<r.course, r.company>>
      <4>1. r.on
        BY <2>2, <2>3, <3>1 DEF Toggle
      <4>2. <<r.course, r.company, r.actor, r.role>> \in sharers'
        BY <2>2, <4>1
      <4>3. row[1] = r.course /\ row[2] = r.company
        BY <3>1
      <4> QED
        BY <2>1, <4>2, <4>3
    <3>2. CASE row # <<r.course, r.company>>
      <4>1. row \in shared
        BY <2>2, <3>2 DEF Toggle
      <4>2. row = <<row[1], row[2]>>
        BY <1>0, <4>1 DEF RowsHaveCourses
      <4>3. PICK v \in sharers : /\ v[1] = row[1] /\ v[2] = row[2]
                                 /\ v[3] = Owner[row[2]] \/ v[4] = "admin"
        BY <1>0, <4>1 DEF SharersInv
      <4>4. v \in sharers'
        BY <2>2, <3>2, <4>2, <4>3
      <4> QED
        BY <4>3, <4>4
    <3> QED
      BY <3>1, <3>2
  <2>5. RowsHaveCourses' /\ OneCoursePerStudent' /\ RolesAreLatest'
    BY <1>0, <2>1, <2>2 DEF RowsHaveCourses, OneCoursePerStudent, RolesAreLatest, Toggle
  <2>6. /\ pc' \in [Workers -> Ops \cup {"idle"}] /\ requests' \in 0..MaxRequests
        /\ req' \in [Workers -> Request] /\ RequestInv'
    BY <2>2, DoneStep
  <2>7. TypeOK'
    BY <1>0, <2>1, <2>2, <2>6 DEF TypeOK, Toggle
  <2> QED
    BY <2>4, <2>5, <2>6, <2>7 DEF IInv
<1>8. CASE SetRole(w) \/ ImportDemo(w)
  <2>1. req[w].user \in Users /\ req[w].role \in Roles /\ "admin" \in Roles
    BY <1>0, <1>8 DEF SetRole, ImportDemo, IInv, Request, Roles
  <2>2. /\ Done(w) /\ UNCHANGED <<teacherOf, used, enrolments, demoShown, shared, published, sharers>>
        /\ \E r \in Roles : GiveRole(req[w].user, r)
    BY <1>8, <2>1 DEF SetRole, ImportDemo
  <2>3. /\ \A v \in Workers : pc[v] = "me" =>
             req[v].user \in outrun' \/ req[v].role = role'[req[v].user]
        /\ RolesAreLatest'
        /\ role' \in [Users -> Roles] /\ latest' \in [Users -> Roles] /\ outrun' \subseteq Users
    BY <2>1, <2>2, GiveRoleStep
  <2>5. RowsHaveCourses' /\ OneCoursePerStudent' /\ SharersInv'
    BY <1>0, <2>2 DEF RowsHaveCourses, OneCoursePerStudent, SharersInv
  <2>6. /\ pc' \in [Workers -> Ops \cup {"idle"}] /\ requests' \in 0..MaxRequests
        /\ req' \in [Workers -> Request] /\ RequestInv'
    BY <2>2, <2>3, DoneStep
  <2>7. TypeOK'
    BY <1>0, <2>2, <2>3, <2>6 DEF TypeOK
  <2> QED
    BY <2>3, <2>5, <2>6, <2>7 DEF IInv
<1>9. CASE UpdateMe(w)
  <2>1. req[w].user \in Users /\ req[w].role \in Roles /\ HoldsRole(w)
    BY <1>0, <1>9 DEF UpdateMe, IInv, Request
  <2>2. /\ Done(w) /\ UNCHANGED <<teacherOf, used, enrolments, demoShown, shared, published>>
        /\ UNCHANGED <<latest, outrun, sharers>>
        /\ role' = [role EXCEPT ![req[w].user] = SavedRole(req[w].user, req[w].role)]
        /\ SavedRole(req[w].user, req[w].role) \in Roles
    BY <1>9, <2>1 DEF UpdateMe, SavedRole, Roles
  <2>3. role' \in [Users -> Roles] /\ \A u \in Users \ outrun : role'[u] = role[u]
    <3>1. ASSUME req[w].user \notin outrun
          PROVE  SavedRole(req[w].user, req[w].role) = role[req[w].user]
      BY <1>0, <2>1, <3>1 DEF HoldsRole, SavedRole, RolesAreLatest
    <3> QED
      BY <1>0, <2>1, <2>2, <3>1 DEF TypeOK
  <2>4. RolesAreLatest'
    BY <1>0, <2>1, <2>2, <2>3 DEF RolesAreLatest, TypeOK, SavedRole
  <2>5. RowsHaveCourses' /\ OneCoursePerStudent' /\ SharersInv'
    BY <1>0, <2>2 DEF RowsHaveCourses, OneCoursePerStudent, SharersInv
  <2>6. \A v \in Workers \ {w} : pc[v] = "me" =>
          req[v].user \in outrun' \/ req[v].role = role'[req[v].user]
    BY <1>0, <2>2, <2>3 DEF HoldsRole
  <2>7. /\ pc' \in [Workers -> Ops \cup {"idle"}] /\ requests' \in 0..MaxRequests
        /\ req' \in [Workers -> Request] /\ RequestInv'
    BY <2>2, <2>6, DoneStep
  <2>8. TypeOK'
    BY <1>0, <2>2, <2>3, <2>7 DEF TypeOK
  <2> QED
    BY <2>4, <2>5, <2>7, <2>8 DEF IInv
<1>10. CASE Publish(w)
  <2>1. req[w].company \in Demos
    BY <1>0, <1>10 DEF Publish
  <2>2. /\ Done(w) /\ UNCHANGED <<role, teacherOf, used, enrolments, demoShown, shared, latest, outrun, sharers>>
        /\ published' \subseteq published \cup {req[w].company}
    BY <1>10 DEF Publish, Toggle
  <2>5. RowsHaveCourses' /\ OneCoursePerStudent' /\ RolesAreLatest' /\ SharersInv'
    BY <1>0, <2>2 DEF RowsHaveCourses, OneCoursePerStudent, RolesAreLatest, SharersInv
  <2>6. /\ pc' \in [Workers -> Ops \cup {"idle"}] /\ requests' \in 0..MaxRequests
        /\ req' \in [Workers -> Request] /\ RequestInv'
    BY <2>2, DoneStep
  <2>7. TypeOK'
    BY <1>0, <2>1, <2>2, <2>6 DEF TypeOK
  <2> QED
    BY <2>5, <2>6, <2>7 DEF IInv
<1>11. CASE Fail(w)
  <2>2. Done(w) /\ UNCHANGED <<role, teacherOf, used, enrolments, demoShown, shared, published, latest, outrun, sharers>>
    BY <1>11 DEF Fail, tables
  <2>5. RowsHaveCourses' /\ OneCoursePerStudent' /\ RolesAreLatest' /\ SharersInv'
    BY <1>0, <2>2 DEF RowsHaveCourses, OneCoursePerStudent, RolesAreLatest, SharersInv
  <2>6. /\ pc' \in [Workers -> Ops \cup {"idle"}] /\ requests' \in 0..MaxRequests
        /\ req' \in [Workers -> Request] /\ RequestInv'
    BY <2>2, DoneStep
  <2>7. TypeOK'
    BY <1>0, <2>2, <2>6 DEF TypeOK
  <2> QED
    BY <2>5, <2>6, <2>7 DEF IInv
<1> QED
  BY <1>1, <1>2, <1>3, <1>4, <1>5, <1>6, <1>7, <1>8, <1>9, <1>10, <1>11 DEF Write

\* The invariant is inductive.
LEMMA NextIInv == IInv /\ [Next]_vars => IInv'
<1> SUFFICES ASSUME IInv, [Next]_vars PROVE IInv'
  OBVIOUS
<1>1. CASE Next
  <2>1. PICK w \in Workers : Receive(w) \/ Write(w)
    BY <1>1 DEF Next
  <2> QED
    BY <2>1, ReceiveStep, WriteStep
<1>2. CASE UNCHANGED vars
  <2>1. /\ UNCHANGED <<role, teacherOf, used, enrolments, demoShown, shared, published>>
        /\ UNCHANGED <<pc, req, requests, latest, outrun, sharers>>
    BY <1>2 DEF vars, tables, histories
  <2> QED
    BY <2>1 DEF IInv, TypeOK, ExistingCourses, RequestInv, HoldsRole, RowsHaveCourses, OneCoursePerStudent,
                RolesAreLatest, SharersInv
<1> QED
  BY <1>1, <1>2

\* The inductive invariant always holds.
LEMMA Invariant == Spec => []IInv
  BY InitIInv, NextIInv, PTL DEF Spec

(***************************************************************************)
(* The theorems.                                                           *)
(***************************************************************************)

\* Access keeps its types: enrolments refer to courses that exist, whatever is deleted
\* and brought back meanwhile.
THEOREM TypeCorrect == Spec => []TypeOK
<1>1. IInv => TypeOK
  BY DEF IInv
<1> QED
  BY <1>1, Invariant, PTL

\* A student is in one course at most, however many enroll them at once (enroll_student).
THEOREM OneCourse == Spec => []OneCoursePerStudent
<1>1. IInv => OneCoursePerStudent
  BY DEF IInv
<1> QED
  BY <1>1, Invariant, PTL

\* set_user_role, get_or_create_demo_owner, update_me, User.save: a superuser is an admin, and
\* whoever had no update_me in flight when they were given a role has the role they were given
\* last.
THEOREM RolesLatest == Spec => []RolesAreLatest
<1>1. IInv => RolesAreLatest
  BY DEF IInv
<1> QED
  BY <1>1, Invariant, PTL

\* A company is written only by admins, its owner, and the teachers of its owner.
THEOREM InsidersWrite == Spec => []WritersAreInsiders
<1>1. IInv => WritersAreInsiders
  <2> SUFFICES ASSUME IInv, NEW u \in Users, NEW c \in Companies, CanWrite(u, c)
               PROVE  /\ c \notin Demos
                      /\ \/ role[u] = "admin" \/ Owner[c] = u
                         \/ role[u] = "teacher" /\ \E k \in ExistingCourses :
                              teacherOf[k] = u /\ <<Owner[c], k>> \in enrolments
    BY DEF WritersAreInsiders
  <2>1. c \notin Demos /\ GetCompany(u, c) /\ (role[u] \in {"admin", "teacher"} \/ Owner[c] = u)
    BY DEF CanWrite, ViewerCanWrite
  <2>2. CASE role[u] = "teacher" /\ Owner[c] \in StudentsOf(u)
    <3>1. PICK e \in enrolments : teacherOf[e[2]] = u /\ e[1] = Owner[c]
      BY <2>2 DEF StudentsOf
    <3>2. e = <<e[1], e[2]>> /\ e[2] \in ExistingCourses
      BY <3>1 DEF IInv, TypeOK
    <3> QED
      BY <2>1, <2>2, <3>1, <3>2
  <2> QED
    BY <2>1, <2>2 DEF GetCompany
<1> QED
  BY <1>1, Invariant, PTL

\* A student sees the company of somebody else only if its owner or an admin shared it.
THEOREM SharedRightly == Spec => []SharedByOwnerOrAdmin
<1>1. IInv => SharedByOwnerOrAdmin
  <2> SUFFICES ASSUME IInv, NEW s \in Users, role[s] = "student", NEW c \in Companies \ Demos,
                      GetCompany(s, c), Owner[c] # s
               PROVE  \E v \in sharers : /\ <<s, v[1]>> \in enrolments /\ v[2] = c
                                         /\ v[3] = Owner[c] \/ v[4] = "admin"
    BY DEF SharedByOwnerOrAdmin
  <2>1. PICK k \in ExistingCourses : <<s, k>> \in enrolments /\ <<k, c>> \in shared
    BY DEF GetCompany, VisibleShared
  <2>2. PICK v \in sharers : v[1] = k /\ v[2] = c /\ (v[3] = Owner[c] \/ v[4] = "admin")
    BY <2>1 DEF IInv, SharersInv
  <2> QED
    BY <2>1, <2>2
<1> QED
  BY <1>1, Invariant, PTL

\* list_companies and get_company agree, but for the unpublished demos of a teacher.
THEOREM ListAgreesWithGet == Spec => []ListMatchesGet
<1>1. IInv => ListMatchesGet
  <2> SUFFICES ASSUME IInv, NEW u \in Users, NEW c \in Companies
               PROVE  \/ (c \in ListCompanies(u)) = GetCompany(u, c)
                      \/ role[u] = "teacher" /\ StrayDemo(u, c)
    BY DEF ListMatchesGet
  <2>1. role[u] \in {"admin", "teacher", "student"}
    BY DEF IInv, TypeOK, Roles
  <2>2. GetCompany(u, c) \in BOOLEAN
    BY DEF GetCompany
  <2>3. CASE role[u] = "admin"
    BY <2>2, <2>3 DEF ListCompanies, GetCompany
  <2>4. CASE role[u] = "teacher"
    <3>1. c \in ListCompanies(u) <=> c \in Demos \cap published \/ Owner[c] = u \/ Owner[c] \in StudentsOf(u)
      BY <2>4 DEF ListCompanies
    <3>2. GetCompany(u, c) <=> \/ c \in Demos \cap published
                               \/ c \notin Demos /\ (Owner[c] = u \/ Owner[c] \in StudentsOf(u))
      BY <2>4 DEF GetCompany
    <3> QED
      BY <2>2, <2>4, <3>1, <3>2 DEF StrayDemo
  <2>5. CASE role[u] = "student"
    <3>1. c \in ListCompanies(u) <=> \/ c \notin Demos /\ Owner[c] = u
                                     \/ c \in VisibleDemos(u) \cap published
                                     \/ c \in VisibleShared(u)
      BY <2>5 DEF ListCompanies
    <3>2. GetCompany(u, c) <=> \/ c \in Demos /\ c \in published /\ c \in VisibleDemos(u)
                               \/ c \notin Demos /\ (Owner[c] = u \/ c \in VisibleShared(u))
      BY <2>5 DEF GetCompany
    <3>3. VisibleDemos(u) \subseteq Demos /\ VisibleShared(u) \cap Demos = {}
      BY DEF VisibleDemos, VisibleShared
    <3> QED
      BY <2>2, <3>1, <3>2, <3>3
  <2> QED
    BY <2>1, <2>3, <2>4, <2>5
<1> QED
  BY <1>1, Invariant, PTL

\* The course views show no company that get_company refuses, but for the same demos.
THEOREM CourseViewsAgree == Spec => []CourseViewsMatchGet
<1>1. IInv => CourseViewsMatchGet
  <2> SUFFICES ASSUME IInv, NEW u \in Users,
                      NEW c \in OverviewCompanies(u)
                        \cup (UNION {CourseCompanies(u, k) \cup CourseJournals(u, k) : k \in Courses})
                        \cup (UNION {StudentContext(u, s) : s \in Users})
               PROVE  GetCompany(u, c) \/ StrayDemo(u, c)
    BY DEF CourseViewsMatchGet
  <2>0. enrolments \subseteq Users \X ExistingCourses
    BY DEF IInv, TypeOK
  <2>1. \E s \in Users, k \in ExistingCourses :
          <<s, k>> \in enrolments /\ GetCourse(u, k) /\ c \in Companies /\ Owner[c] = s
    <3>1. CASE c \in OverviewCompanies(u)
      <4>1. PICK k \in ListCourses(u) : c \in OwnedBy(EnrolledIn(k))
        BY <3>1 DEF OverviewCompanies
      <4> QED
        BY <4>1 DEF ListCourses, OwnedBy, EnrolledIn, GetCourse
    <3>2. CASE \E k \in Courses : c \in CourseCompanies(u, k) \cup CourseJournals(u, k)
      BY <3>2 DEF CourseCompanies, CourseJournals, OwnedBy, EnrolledIn, GetCourse
    <3>3. CASE \E s \in Users : c \in StudentContext(u, s)
      <4>1. PICK s \in Users : c \in StudentContext(u, s)
          BY <3>3
      <4>2. PICK e \in enrolments : e[1] = s /\ GetCourse(u, e[2])
        BY <4>1 DEF StudentContext
      <4>3. e = <<s, e[2]>> /\ e[2] \in ExistingCourses
        BY <2>0, <4>2
      <4>4. c \in OwnedBy({s})
        BY <4>1, <4>2 DEF StudentContext
      <4> QED
        BY <4>2, <4>3, <4>4 DEF OwnedBy
    <3>4. CASE c \in UNION {CourseCompanies(u, k) \cup CourseJournals(u, k) : k \in Courses}
      <4>1. \E k \in Courses : c \in CourseCompanies(u, k) \cup CourseJournals(u, k)
        BY <3>4
      <4> QED
        BY <3>2, <4>1
    <3>5. CASE c \in UNION {StudentContext(u, s) : s \in Users}
      <4>1. \E s \in Users : c \in StudentContext(u, s)
        BY <3>5
      <4> QED
        BY <3>3, <4>1
    <3> QED
      BY <3>1, <3>4, <3>5
  <2>2. PICK s \in Users, k \in ExistingCourses :
          <<s, k>> \in enrolments /\ GetCourse(u, k) /\ c \in Companies /\ Owner[c] = s
    BY <2>1
  <2>3. CASE role[u] = "admin"
    BY <2>3 DEF GetCompany
  <2>4. CASE role[u] = "teacher" /\ teacherOf[k] = u
    <3>1. Owner[c] \in StudentsOf(u)
      <4> DEFINE e == <<s, k>>
      <4>1. e \in enrolments /\ teacherOf[e[2]] = u /\ e[1] = Owner[c]
        BY <2>2, <2>4
      <4> QED
        BY <4>1 DEF StudentsOf
    <3> QED
      BY <2>4, <3>1 DEF GetCompany, StrayDemo
  <2> QED
    BY <2>2, <2>3, <2>4 DEF GetCourse
<1> QED
  BY <1>1, Invariant, PTL

\* Every way to find a company agrees with get_company, but for the same demos.
THEOREM ViewsAgree == Spec => []ViewsMatchGet
  BY ListAgreesWithGet, CourseViewsAgree, PTL DEF ViewsMatchGet

\* A course that update_course brings back has no students and shows nothing.
THEOREM ReturnsEmpty == Spec => CourseReturnsEmpty
<1> DEFINE Empty == \A k \in ExistingCourses' \ ExistingCourses :
                      \A s \in Users, c \in Companies :
                        <<s, k>> \notin enrolments' /\ <<k, c>> \notin shared' \cup demoShown'
<1>1. IInv /\ [Next]_vars => [Empty]_vars
  <2> SUFFICES ASSUME IInv, Next PROVE Empty
    OBVIOUS
  <2>0. /\ enrolments \subseteq Users \X ExistingCourses
        /\ demoShown \subseteq ExistingCourses \X Demos
        /\ shared \subseteq ExistingCourses \X (Companies \ Demos)
    BY DEF IInv, TypeOK, RowsHaveCourses
  <2>1. PICK w \in Workers : Receive(w) \/ Write(w)
    BY DEF Next
  <2>2. CASE CreateCourse(w) \/ UpdateCourse(w)
    <3>1. UNCHANGED <<enrolments, demoShown, shared>>
      BY <2>2 DEF CreateCourse, UpdateCourse
    <3> QED
      BY <2>0, <3>1
  <2>3. CASE DeleteCourse(w)
    BY <2>3 DEF DeleteCourse, ExistingCourses
  <2>4. CASE UNCHANGED teacherOf
    BY <2>4 DEF ExistingCourses
  <2>5. Receive(w) => UNCHANGED teacherOf
    BY DEF Receive, ReceiveCreateCourse, ReceiveUpdateCourse, ReceiveDeleteCourse, ReceiveEnroll,
           ReceiveUnenroll, ReceiveShowDemo, ReceiveShare, ReceiveSetRole, ReceiveUpdateMe,
           ReceiveImport, ReceivePublish, Load, tables
  <2>6. Write(w) => CreateCourse(w) \/ UpdateCourse(w) \/ DeleteCourse(w) \/ UNCHANGED teacherOf
    BY DEF Write, Enroll, Unenroll, ShowDemo, Share, SetRole, ImportDemo, UpdateMe, Publish, Fail, tables
  <2> QED
    BY <2>1, <2>2, <2>3, <2>4, <2>5, <2>6
<1>2. Spec => [][Next]_vars
  BY DEF Spec
<1> QED
  BY <1>1, <1>2, Invariant, PTL DEF CourseReturnsEmpty
=============================================================================
