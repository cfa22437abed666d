--------------------------- MODULE MCMeteredFetch ---------------------------
(***************************************************************************)
(* Instances of MeteredFetch for TLC: a TUI with two tasks, and a command  *)
(* line beside it; a paid question whose vendor may charge one unit more   *)
(* than it was priced at, a free question of a capability without a        *)
(* validate hook, and a paid question nobody has credentials for.          *)
(***************************************************************************)
EXTENDS MeteredFetch

CONSTANTS runner, command, other, tui, cli, volume, suggest, ranks

MCHostOf == [c \in Callers |-> IF c = other THEN cli ELSE tui]
MCEstimate == [q \in Questions |-> CASE q = volume -> 2 [] q = suggest -> 0 [] q = ranks -> 1]
MCCharges == [q \in Questions |-> IF q = volume THEN {None, 3} ELSE {None}]
MCTTL == [q \in Questions |-> IF q = volume THEN 2 ELSE 1]
=============================================================================
