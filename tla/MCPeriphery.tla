---------------------------- MODULE MCPeriphery ----------------------------
(***************************************************************************)
(* What stands around fetch and the queue, part beside part: the limiter,  *)
(* the application's screen, `zipf init` and readers of two releases of    *)
(* the program, and, on the schema that one of them was let in on, two     *)
(* `zipf gsc` commands.  They share nothing but the schema, so the         *)
(* instance moves one part while the others are at their beginning, which  *)
(* adds their states instead of multiplying them.                          *)
(***************************************************************************)
EXTENDS RateLimiter, Explorer, Migrations, SearchConsole, TLC

CONSTANTS
  first, second,                                      \* processes
  site, rival, response, domainTable, queryTable      \* what the screen shows

MCExtent == [day \in 0 .. 1 |-> day + 1]
Swaps == Permutations(Importers)

MCKnownFor == [x \in {site, rival} |-> {1, 2}]
MCQueryOf == [w \in {1, 2} |-> "one"]
MCPlainness == <<2, 1>>
MCSourceOf == [w \in {1, 2} |-> response]
MCProduced == [r \in {response} |-> <<domainTable, queryTable>>]
MCTableView == [t \in {domainTable, queryTable} |-> IF t = domainTable THEN "domains" ELSE "gsc"]
MCTerms == {{2}}
MCRankings == {<<1>>, <<2, 1>>}

\* The schema is there: the first has migrated, undisturbed, and been let in.
Settled ==
  /\ losses = 0 /\ script = NoScript
  /\ handle = [p \in Openers |-> IF p = first THEN Max(Releases) ELSE 0]
  /\ migrator = [p \in Openers |->
       IF p = first
       THEN [pc |-> "done", release |-> Max(Releases), already |-> {}, next |-> Max(Releases) + 1]
       ELSE NotMigrating]

Opened == ExplorerInit /\ ranking = <<1>>

\* Bounds of the instance: a watched keyword beside no mark and on a short way back;
\* a second consent only until a page is stored.
FewChoices == watched' = {} \/ (marked' = {} /\ Len(back') < 2)
FewConsents == granted' < 2 \/ store' = <<>>

PeripheryInit == Init /\ Opened /\ MigrationsInit /\ ConsoleInit

PeripheryNext ==
  \/ /\ ConsoleInit /\ MigrationsInit /\ Opened
     /\ Next /\ UNCHANGED <<explorerVars, migrationVars, consoleVars>>
  \/ /\ ConsoleInit /\ MigrationsInit /\ Init
     /\ ExplorerNext /\ FewChoices /\ UNCHANGED <<rateVars, migrationVars, consoleVars>>
  \/ /\ ConsoleInit /\ Init /\ Opened
     /\ MigrationsNext /\ UNCHANGED <<rateVars, explorerVars, consoleVars>>
  \/ /\ Settled /\ Init /\ Opened
     /\ ConsoleNext /\ FewConsents /\ UNCHANGED <<rateVars, explorerVars, migrationVars>>

PeripherySpec ==
  PeripheryInit /\ [][PeripheryNext]_<<rateVars, explorerVars, migrationVars, consoleVars>>
=============================================================================
