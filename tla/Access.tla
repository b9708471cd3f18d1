------------------------------- MODULE Access -------------------------------
(***************************************************************************)
(* Who may see and change which company (apps/courses, companies/selectors *)
(* and viewer_can_write_company, roles of apps/users): roles, courses,     *)
(* enrolments, demo publication, and the companies a course shows to its   *)
(* students.                                                               *)
(*                                                                         *)
(* A writing request has two steps.  It loads the user who asks (request   *)
(* .user), the course, the company and the other user, and passes the      *)
(* permission classes, the selectors' checks and the services' checks on   *)
(* what it loaded; later it writes, statement by statement committed, with *)
(* nothing but the database's constraints to protect it.  Reads are state  *)
(* functions: one query each.  A role is also written by the command that  *)
(* imports a demo, and by User.save for superusers; what the forms of the  *)
(* Django admin write is what set_user_role writes.                        *)
(***************************************************************************)
EXTENDS FiniteSets, Naturals

CONSTANTS
  Workers,
  Users, InitialRole,       \* the users and the role each starts with
  Superusers,               \* the users with is_superuser
  Courses,                  \* primary keys of courses
  Companies, Owner, Demos,  \* the companies, their owners, and which are (read-only) demos
  MaxRequests,              \* bound: writing requests
  None

Roles == {"admin", "teacher", "student"}

ASSUME UsersAssumption ==
  /\ InitialRole \in [Users -> Roles]
  /\ Superusers \subseteq Users /\ \A u \in Superusers : InitialRole[u] = "admin"
ASSUME CompaniesAssumption == Owner \in [Companies -> Users] /\ Demos \subseteq Companies
ASSUME NoneAssumption == None \notin Users \cup Courses \cup Companies
ASSUME BoundAssumption == MaxRequests \in Nat

VARIABLES
  role,       \* User.role
  teacherOf,  \* the courses that exist and the teacher of each
  used,       \* primary keys of courses given out so far
  enrolments, \* CourseEnrollment: pairs of student and course
  demoShown, shared,  \* rows with is_visible: pairs of course and company
  published,  \* demos with is_published
  pc, req,
  requests,
  latest,     \* history: the role that each user was given last
  outrun,     \* history: users who were given it while an update_me of theirs was in flight
  sharers     \* history: who made a shared row visible, and the role they had

tables == <<role, teacherOf, used, enrolments, demoShown, shared, published>>
histories == <<latest, outrun, sharers>>
vars == <<tables, pc, req, requests, histories>>

Idle == [op |-> "none", actor |-> None, course |-> None, teacher |-> None, user |-> None,
         role |-> "student", company |-> None, on |-> FALSE]

Init ==
  /\ role = InitialRole
  /\ teacherOf = [k \in {} |-> None]
  /\ used = {} /\ enrolments = {} /\ demoShown = {} /\ shared = {}
  /\ published \in SUBSET Demos
  /\ pc = [w \in Workers |-> "idle"]
  /\ req = [w \in Workers |-> Idle]
  /\ requests = 0
  /\ latest = InitialRole /\ outrun = {}
  /\ sharers = {}

-----------------------------------------------------------------------------
(* Selectors.                                                              *)

ExistingCourses == DOMAIN teacherOf

\* get_course: IsTeacherOrAdminRole, and a teacher only for their own.
GetCourse(u, k) ==
  /\ k \in ExistingCourses
  /\ role[u] = "admin" \/ (role[u] = "teacher" /\ teacherOf[k] = u)

StudentsOf(u) == {e[1] : e \in {f \in enrolments : teacherOf[f[2]] = u}}

\* _visible_demo_company_ids_for_student.
VisibleDemos(s) == {c \in Demos : \E k \in ExistingCourses :
                                    <<s, k>> \in enrolments /\ <<k, c>> \in demoShown}

\* _visible_shared_company_ids_for_student.
VisibleShared(s) == {c \in Companies \ Demos : \E k \in ExistingCourses :
                                    <<s, k>> \in enrolments /\ <<k, c>> \in shared}

ListCompanies(u) ==
  CASE role[u] = "admin"   -> Companies
    [] role[u] = "teacher" -> {c \in Companies : \/ c \in Demos \cap published
                                                 \/ Owner[c] = u
                                                 \/ Owner[c] \in StudentsOf(u)}
    [] role[u] = "student" -> {c \in Companies \ Demos : Owner[c] = u}
                                \cup (VisibleDemos(u) \cap published) \cup VisibleShared(u)

\* Mutant: an unpublished demo is found by its number.
GetCompany_Unpublished(u, c) ==
  \/ role[u] = "admin"
  \/ c \in Demos /\ (role[u] = "teacher" \/ c \in VisibleDemos(u))
  \/ /\ c \notin Demos
     /\ \/ Owner[c] = u
        \/ role[u] = "student" /\ c \in VisibleShared(u)
        \/ role[u] = "teacher" /\ Owner[c] \in StudentsOf(u)

\* get_company does not raise.
GetCompany(u, c) ==
  \/ role[u] = "admin"
  \/ c \in Demos /\ c \in published /\ (role[u] = "teacher" \/ c \in VisibleDemos(u))
  \/ /\ c \notin Demos
     /\ \/ Owner[c] = u
        \/ role[u] = "student" /\ c \in VisibleShared(u)
        \/ role[u] = "teacher" /\ Owner[c] \in StudentsOf(u)

OwnedBy(students) == {c \in Companies : Owner[c] \in students}
EnrolledIn(k) == {s \in Users : <<s, k>> \in enrolments}

\* The companies of a course, for whoever may open the course.
CourseCompanies(u, k) == IF GetCourse(u, k) THEN OwnedBy(EnrolledIn(k)) ELSE {}

\* The companies whose entries the journal of a course shows.
CourseJournals(u, k) == IF GetCourse(u, k) THEN OwnedBy(EnrolledIn(k)) ELSE {}

\* list_courses and list_course_overviews: the companies counted in a user's courses.
ListCourses(u) ==
  {k \in ExistingCourses : role[u] = "admin" \/ (role[u] = "teacher" /\ teacherOf[k] = u)}
OverviewCompanies(u) == UNION {OwnedBy(EnrolledIn(k)) : k \in ListCourses(u)}

\* get_teacher_student_context: the student's enrolment leads to the course.
StudentContext(u, s) ==
  IF \E e \in enrolments : e[1] = s /\ GetCourse(u, e[2]) THEN OwnedBy({s}) ELSE {}

\* viewer_can_write_company, of a company that get_company returned; demos are read-only.
ViewerCanWrite(u, c) ==
  c \notin Demos /\ (role[u] \in {"admin", "teacher"} \/ Owner[c] = u)

CanWrite(u, c) == GetCompany(u, c) /\ ViewerCanWrite(u, c)

-----------------------------------------------------------------------------
(* Requests that write: what they load and check.                          *)

Load(w, r) ==
  /\ pc[w] = "idle"
  /\ requests < MaxRequests
  /\ requests' = requests + 1
  /\ pc' = [pc EXCEPT ![w] = r.op]
  /\ req' = [req EXCEPT ![w] = r]
  /\ UNCHANGED <<tables, histories>>

\* resolve_teacher_for_actor: a teacher is the teacher, an admin names one.
CourseTeachers(u) ==
  CASE role[u] = "teacher" -> {u}
    [] role[u] = "admin"   -> {t \in Users : role[t] = "teacher"}
    [] OTHER               -> {}

ReceiveCreateCourse(w) ==
  \E u \in Users : \E t \in CourseTeachers(u) :
    Load(w, [Idle EXCEPT !.op = "create", !.actor = u, !.teacher = t])

\* update_course: clean() looks at the teacher that came with the course.
ReceiveUpdateCourse(w) ==
  \E u \in Users, k \in ExistingCourses :
    /\ GetCourse(u, k) /\ role[teacherOf[k]] = "teacher"
    /\ Load(w, [Idle EXCEPT !.op = "update", !.actor = u, !.course = k, !.teacher = teacherOf[k]])

ReceiveDeleteCourse(w) ==
  \E u \in Users, k \in ExistingCourses :
    GetCourse(u, k) /\ Load(w, [Idle EXCEPT !.op = "delete", !.actor = u, !.course = k])

\* enroll_student: a student who has no course.
EnrollAllowed(s) == role[s] = "student" /\ \A e \in enrolments : e[1] # s

ReceiveEnroll(w) ==
  \E u \in Users, k \in ExistingCourses, s \in Users :
    /\ GetCourse(u, k) /\ EnrollAllowed(s)
    /\ Load(w, [Idle EXCEPT !.op = "enroll", !.actor = u, !.course = k, !.user = s])

ReceiveUnenroll(w) ==
  \E u \in Users, k \in ExistingCourses, s \in Users :
    /\ GetCourse(u, k) /\ <<s, k>> \in enrolments
    /\ Load(w, [Idle EXCEPT !.op = "unenroll", !.actor = u, !.course = k, !.user = s])

\* list_course_demo_companies.
CourseDemos(u) == {c \in Demos : role[u] = "admin" \/ c \in published}

ReceiveShowDemo(w) ==
  \E u \in Users, k \in ExistingCourses, on \in BOOLEAN : \E c \in CourseDemos(u) :
    /\ GetCourse(u, k)
    /\ Load(w, [Idle EXCEPT !.op = "demo", !.actor = u, !.course = k, !.company = c, !.on = on])

\* Mutant: a teacher may share the companies of their students as well.
Shareable_Students(u) ==
  {c \in Companies \ Demos : role[u] = "admin" \/ Owner[c] = u \/ Owner[c] \in StudentsOf(u)}

\* Mutant: demos can be shared like any other company.
Shareable_Demos(u) == {c \in Companies : role[u] = "admin" \/ Owner[c] = u}

\* list_course_shared_companies.
Shareable(u) == {c \in Companies \ Demos : role[u] = "admin" \/ Owner[c] = u}

ReceiveShare(w) ==
  \E u \in Users, k \in ExistingCourses, on \in BOOLEAN : \E c \in Shareable(u) :
    /\ GetCourse(u, k)
    /\ Load(w, [Idle EXCEPT !.op = "share", !.actor = u, !.role = role[u], !.course = k,
                            !.company = c, !.on = on])

ReceiveSetRole(w) ==
  \E u \in Users, v \in Users, r \in Roles :
    /\ role[u] = "admin"
    /\ Load(w, [Idle EXCEPT !.op = "role", !.actor = u, !.user = v, !.role = r])

\* Mutant: the profile takes the role from the request.
ProfileRoles_Any(u) == Roles

\* UserUpdateSerializer has no role: it stays what request.user has.
ProfileRoles(u) == {role[u]}

ReceiveUpdateMe(w) ==
  \E u \in Users : \E r \in ProfileRoles(u) :
    Load(w, [Idle EXCEPT !.op = "me", !.actor = u, !.user = u, !.role = r])

\* import_demo_company for the username of somebody who is no admin.  The company itself is
\* one of Companies from the start.
ReceiveImport(w) ==
  \E u \in Users :
    /\ role[u] # "admin"
    /\ Load(w, [Idle EXCEPT !.op = "import", !.user = u])

ReceivePublish(w) ==
  \E u \in Users, c \in Demos, on \in BOOLEAN :
    /\ role[u] = "admin" /\ (c \in published) # on
    /\ Load(w, [Idle EXCEPT !.op = "publish", !.actor = u, !.company = c, !.on = on])

Receive(w) ==
  \/ ReceiveCreateCourse(w) \/ ReceiveUpdateCourse(w) \/ ReceiveDeleteCourse(w)
  \/ ReceiveEnroll(w) \/ ReceiveUnenroll(w) \/ ReceiveShowDemo(w) \/ ReceiveShare(w)
  \/ ReceiveSetRole(w) \/ ReceiveUpdateMe(w) \/ ReceiveImport(w) \/ ReceivePublish(w)

-----------------------------------------------------------------------------
(* What they write.                                                        *)

Done(w) ==
  /\ pc' = [pc EXCEPT ![w] = "idle"]
  /\ req' = [req EXCEPT ![w] = Idle]
  /\ UNCHANGED requests

Toggle(rows, row, on) == IF on THEN rows \cup {row} ELSE rows \ {row}

PutCourse(k, t) ==
  teacherOf' = [j \in ExistingCourses \cup {k} |-> IF j = k THEN t ELSE teacherOf[j]]

CreateCourse(w) ==
  /\ pc[w] = "create"
  /\ \E k \in Courses \ used : PutCourse(k, req[w].teacher) /\ used' = used \cup {k}
  /\ Done(w)
  /\ UNCHANGED <<role, enrolments, demoShown, shared, published, histories>>

\* course.save() updates the row, or inserts it again when it has gone.
UpdateCourse(w) ==
  /\ pc[w] = "update"
  /\ PutCourse(req[w].course, req[w].teacher)
  /\ Done(w)
  /\ UNCHANGED <<role, used, enrolments, demoShown, shared, published, histories>>

\* Mutant: the rows that make companies visible outlive their course.
DeleteCourse_KeepsVisibility(w) ==
  LET k == req[w].course IN
  /\ pc[w] = "delete"
  /\ teacherOf' = [j \in ExistingCourses \ {k} |-> teacherOf[j]]
  /\ enrolments' = {e \in enrolments : e[2] # k}
  /\ Done(w)
  /\ UNCHANGED <<role, used, demoShown, shared, published, histories>>

\* on_delete=CASCADE of the three tables that refer to a course.
DeleteCourse(w) ==
  LET k == req[w].course IN
  /\ pc[w] = "delete"
  /\ teacherOf' = [j \in ExistingCourses \ {k} |-> teacherOf[j]]
  /\ enrolments' = {e \in enrolments : e[2] # k}
  /\ demoShown' = {v \in demoShown : v[1] # k}
  /\ shared' = {v \in shared : v[1] # k}
  /\ sharers' = {v \in sharers : v[1] # k}
  /\ Done(w)
  /\ UNCHANGED <<role, used, published, latest, outrun>>

\* Mutant: student is a plain foreign key.
UniqueStudent_Dropped(s) == TRUE

\* CourseEnrollment.student is a OneToOneField.
UniqueStudent(s) == \A e \in enrolments : e[1] # s

Enroll(w) ==
  LET r == req[w] IN
  /\ pc[w] = "enroll"
  /\ r.course \in ExistingCourses /\ UniqueStudent(r.user)
  /\ enrolments' = enrolments \cup {<<r.user, r.course>>}
  /\ Done(w)
  /\ UNCHANGED <<role, teacherOf, used, demoShown, shared, published, histories>>

Unenroll(w) ==
  /\ pc[w] = "unenroll"
  /\ enrolments' = enrolments \ {<<req[w].user, req[w].course>>}
  /\ Done(w)
  /\ UNCHANGED <<role, teacherOf, used, demoShown, shared, published, histories>>

ShowDemo(w) ==
  LET r == req[w] IN
  /\ pc[w] = "demo"
  /\ r.course \in ExistingCourses
  /\ demoShown' = Toggle(demoShown, <<r.course, r.company>>, r.on)
  /\ Done(w)
  /\ UNCHANGED <<role, teacherOf, used, enrolments, shared, published, histories>>

Share(w) ==
  LET r == req[w] IN
  /\ pc[w] = "share"
  /\ r.course \in ExistingCourses
  /\ shared' = Toggle(shared, <<r.course, r.company>>, r.on)
  /\ sharers' = {v \in sharers : <<v[1], v[2]>> # <<r.course, r.company>>}
                  \cup (IF r.on THEN {<<r.course, r.company, r.actor, r.role>>} ELSE {})
  /\ Done(w)
  /\ UNCHANGED <<role, teacherOf, used, enrolments, demoShown, published, latest, outrun>>

\* User.save: a superuser is an admin.
SavedRole(u, r) == IF u \in Superusers THEN "admin" ELSE r

GiveRole(u, r) ==
  /\ role' = [role EXCEPT ![u] = SavedRole(u, r)]
  /\ latest' = [latest EXCEPT ![u] = r]
  /\ outrun' = IF \E v \in Workers : pc[v] = "me" /\ req[v].user = u THEN outrun \cup {u}
                                                                    ELSE outrun \ {u}

\* set_user_role: only role and is_staff are written.
SetRole(w) ==
  /\ pc[w] = "role"
  /\ GiveRole(req[w].user, req[w].role)
  /\ Done(w)
  /\ UNCHANGED <<teacherOf, used, enrolments, demoShown, shared, published, sharers>>

\* get_or_create_demo_owner, committed with the import: the owner becomes an admin.
ImportDemo(w) ==
  /\ pc[w] = "import"
  /\ GiveRole(req[w].user, "admin")
  /\ Done(w)
  /\ UNCHANGED <<teacherOf, used, enrolments, demoShown, shared, published, sharers>>

\* update_me: user.save() writes every column, the role that was loaded included.
UpdateMe(w) ==
  /\ pc[w] = "me"
  /\ role' = [role EXCEPT ![req[w].user] = SavedRole(req[w].user, req[w].role)]
  /\ Done(w)
  /\ UNCHANGED <<teacherOf, used, enrolments, demoShown, shared, published, histories>>

Publish(w) ==
  /\ pc[w] = "publish"
  /\ published' = Toggle(published, req[w].company, req[w].on)
  /\ Done(w)
  /\ UNCHANGED <<role, teacherOf, used, enrolments, demoShown, shared, histories>>

\* A constraint refuses the statement, a serializer refuses the body, or the process dies.
Fail(w) ==
  /\ pc[w] # "idle"
  /\ Done(w)
  /\ UNCHANGED <<tables, histories>>

Write(w) ==
  \/ CreateCourse(w) \/ UpdateCourse(w) \/ DeleteCourse(w) \/ Enroll(w) \/ Unenroll(w)
  \/ ShowDemo(w) \/ Share(w) \/ SetRole(w) \/ ImportDemo(w) \/ UpdateMe(w) \/ Publish(w)
  \/ Fail(w)

Next == \E w \in Workers : Receive(w) \/ Write(w)

Spec == Init /\ [][Next]_vars

-----------------------------------------------------------------------------
(* Properties.                                                             *)

Ops == {"create", "update", "delete", "enroll", "unenroll", "demo", "share", "role", "me",
        "import", "publish"}

\* Every variable holds values of its type; enrolments refer to courses that exist, and
\* demos are never among the shared companies.
TypeOK ==
  /\ role \in [Users -> Roles]
  /\ used \subseteq Courses /\ ExistingCourses \subseteq used
  /\ \A k \in ExistingCourses : teacherOf[k] \in Users
  /\ enrolments \subseteq Users \X ExistingCourses
  /\ demoShown \subseteq Courses \X Demos
  /\ shared \subseteq Courses \X (Companies \ Demos)
  /\ published \subseteq Demos
  /\ pc \in [Workers -> Ops \cup {"idle"}]
  /\ requests \in 0..MaxRequests
  /\ latest \in [Users -> Roles] /\ outrun \subseteq Users

\* README.md:67: "one course per student", although two requests may both find the student
\* without a course.
OneCoursePerStudent ==
  \A e, f \in enrolments : e[1] = f[1] => e = f

\* An unpublished demo whose owner (an admin when it was imported) is u, or is u's student now.
StrayDemo(u, c) == c \in Demos \ published /\ (Owner[c] = u \/ Owner[c] \in StudentsOf(u))

\* list_companies and get_company decide alike, for every user and company, whatever roles,
\* courses and publications have gone through.  The exception: the list of a teacher has the
\* unpublished demos of their own and of their students, which get_company refuses.
ListMatchesGet ==
  \A u \in Users, c \in Companies :
    \/ (c \in ListCompanies(u)) = GetCompany(u, c)
    \/ role[u] = "teacher" /\ StrayDemo(u, c)

\* The course views show no company that get_company would refuse, with the same exception.
CourseViewsMatchGet ==
  \A u \in Users :
    LET shown == OverviewCompanies(u)
                   \cup (UNION {CourseCompanies(u, k) \cup CourseJournals(u, k) : k \in Courses})
                   \cup (UNION {StudentContext(u, s) : s \in Users})
    IN  \A c \in shown : GetCompany(u, c) \/ StrayDemo(u, c)

\* Every way to find a company decides like get_company: list_companies and the course views.
ViewsMatchGet == ListMatchesGet /\ CourseViewsMatchGet

\* README.md:63: "Students see/manage own companies. Teachers see own + companies of students
\* enrolled in their courses."  Nobody else can write, sharing a company gives no write access,
\* and demos are never written.
WritersAreInsiders ==
  \A u \in Users, c \in Companies :
    CanWrite(u, c) =>
      /\ c \notin Demos
      /\ \/ role[u] = "admin" \/ Owner[c] = u
         \/ role[u] = "teacher" /\ \E k \in ExistingCourses :
              teacherOf[k] = u /\ <<Owner[c], k>> \in enrolments

\* list_course_shared_companies: a student sees the company of somebody else only if its owner,
\* or somebody who was an admin, shared it with the student's course.
SharedByOwnerOrAdmin ==
  \A s \in Users : role[s] = "student" =>
    \A c \in Companies \ Demos :
      GetCompany(s, c) /\ Owner[c] # s =>
        \E v \in sharers : /\ <<s, v[1]>> \in enrolments /\ v[2] = c
                           /\ v[3] = Owner[c] \/ v[4] = "admin"

\* set_user_role, get_or_create_demo_owner, update_me and User.save: a superuser is an admin,
\* and everybody else has the role that they were given last - a role that was taken from them
\* does not come back - unless an update_me of theirs, which writes back the role it loaded, was
\* in flight when they were given it.
RolesAreLatest ==
  \A u \in Users : IF u \in Superusers THEN role[u] = "admin"
                                       ELSE role[u] = latest[u] \/ u \in outrun

\* update_course may bring back a course that was deleted meanwhile; it then comes back without
\* students and shows nothing to anybody.
CourseReturnsEmpty ==
  [][\A k \in ExistingCourses' \ ExistingCourses :
       \A s \in Users, c \in Companies :
         <<s, k>> \notin enrolments' /\ <<k, c>> \notin shared' \cup demoShown']_vars
=============================================================================
