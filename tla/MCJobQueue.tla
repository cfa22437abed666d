----------------------------- MODULE MCJobQueue -----------------------------
(***************************************************************************)
(* Instances of JobQueue for TLC: two processes that can host a runner,    *)
(* two jobs, and backoffs of one and two ticks.                            *)
(***************************************************************************)
EXTENDS JobQueue

MCBackoff == [n \in 1 .. MaxAttempts |-> IF n = 1 THEN 1 ELSE 2]
=============================================================================
