--------------------------- MODULE MCRegistration ---------------------------
(* Values for TLC that a configuration file cannot write down.             *)
EXTENDS Registration

\* One failure blocks for a tick, two for two ticks.
TwoSteps == <<<<1, 1>>, <<2, 2>>>>

Start(initial, register, show, rotate, tick, fail) ==
  [rows |-> initial,
   left |-> [b \in Bounded |->
               CASE b = "register" -> register [] b = "show" -> show [] b = "rotate" -> rotate
                 [] b = "tick" -> tick [] b = "fail" -> fail]]

\* Attempts, limits and cooldowns; codes that are shown, rotated and outlive their windows;
\* the first requests of all; a call to the cache that fails.
Scenarios == {Start(<<1>>, 3, 0, 0, 2, 0), Start(<<1>>, 1, 1, 1, 6, 0),
              Start(<<>>, 1, 1, 1, 1, 0), Start(<<1>>, 1, 1, 1, 0, 1)}
=============================================================================
