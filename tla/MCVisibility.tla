---------------------------- MODULE MCVisibility ----------------------------
(* Values for TLC that a configuration file cannot write down.             *)
EXTENDS Visibility, TLC

CONSTANTS s1, t1, t2, k1, k2

Teaches == [k \in {k1, k2} |-> IF k = k1 THEN t1 ELSE t2]

Start(k, global, company, public, own, patch, write, crs, tick, fail) ==
  [course |-> [s \in {s1} |-> k],
   left |-> [b \in Bounded |->
               CASE b = "global" -> global [] b = "company" -> company [] b = "public" -> public
                 [] b = "own" -> own [] b = "patch" -> patch [] b = "write" -> write
                 [] b = "course" -> crs [] b = "tick" -> tick [] b = "fail" -> fail]]

\* Charts against overrides; a write that is checked; a course that changes; the timeouts; a call
\* to the cache that fails.
Scenarios == {Start(k1, 3, 0, 0, 0, 1, 0, 0, 0, 0), Start(k1, 0, 1, 0, 1, 1, 1, 0, 0, 0),
              Start(k1, 2, 0, 0, 0, 0, 0, 2, 1, 0), Start(k1, 2, 0, 0, 0, 1, 0, 0, 6, 0),
              Start(k1, 0, 1, 1, 0, 0, 1, 0, 2, 0), Start(k1, 1, 0, 0, 0, 1, 1, 0, 0, 1),
              Start(k1, 0, 0, 0, 2, 1, 0, 0, 6, 0)}

WorkerSymmetry == Permutations(Workers)
=============================================================================
