------------------------------ MODULE MCAccess ------------------------------
(* Values for TLC that a configuration file cannot write down.             *)
EXTENDS Access, TLC

CONSTANTS root, adm, t1, s1, s2, c1, c2, d1

\* Two admins, of whom one is a superuser, a teacher and two students.
RoleAtStart == [u \in {root, adm, t1, s1, s2} |->
                  CASE u \in {root, adm} -> "admin" [] u = t1 -> "teacher" [] OTHER -> "student"]

\* A company of a student, one of the teacher, and a demo imported by the admin.
OwnerOf == [c \in {c1, c2, d1} |-> CASE c = c1 -> s1 [] c = c2 -> t1 [] c = d1 -> adm]

\* Workers and keys of courses are alike.
Symmetry == Permutations(Workers) \cup Permutations(Courses)
=============================================================================
