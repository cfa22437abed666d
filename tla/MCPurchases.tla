---------------------------- MODULE MCPurchases ----------------------------
(***************************************************************************)
(* The terminal application and one command line.  Two keywords, one of    *)
(* them typed in capitals or beside a blank, at most one per call so that  *)
(* two keywords are two batches; one domain of one's own and a rival; a    *)
(* limit beyond MAX_LIMIT.  Two batches are above the threshold and one is *)
(* not.                                                                    *)
(***************************************************************************)
EXTENDS Purchases

CONSTANTS tui, cli, own, rival

MCCleaned == [w \in 0 .. 3 |-> IF w = 3 THEN 1 ELSE w]
MCTyped == {<<1>>, <<2, 0, 3, 1>>}
MCAnswers == {{1}, {1, 2}}
MCGaps == {<<rival, own>>, <<own, own>>, <<rival, 0>>}
MCTTL == [c \in Capabilities |-> IF c \in {"volume", "ideas"} THEN 1 ELSE 0]
=============================================================================
