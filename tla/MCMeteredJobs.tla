---------------------------- MODULE MCMeteredJobs ----------------------------
(***************************************************************************)
(* Instances of MeteredJobs for TLC: two processes that take turns at      *)
(* hosting the runner, and two jobs over two paid questions.               *)
(***************************************************************************)
EXTENDS MeteredJobs

CONSTANTS volume, suggest, ranks

MCBackoff == [n \in 1 .. MaxAttempts |-> 1]
MCEstimate == [q \in Questions |-> CASE q = volume -> 2 [] q = suggest -> 0 [] q = ranks -> 2]
MCCharges == [q \in Questions |-> {None}]
MCTTL == [q \in Questions |-> IF q = volume THEN 2 ELSE 1]
=============================================================================
