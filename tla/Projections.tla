---------------------------- MODULE Projections ----------------------------
(***************************************************************************)
(* The stored responses and what is derived from them: projection on the   *)
(* hot path (fetch.py 197-220, projections/), `zipf db rebuild`            *)
(* (projections/rebuild.py) and `zipf db prune` (prune.py), run by several *)
(* processes over one SQLite file.                                         *)
(*                                                                         *)
(* Figures are abstracted to their provenance: a column holds the id of    *)
(* the response whose figure stands in it, or Null.  Two responses never   *)
(* say the same thing, so a table tells which response won each column.    *)
(* A response is the set of records its parser returns; volume, cpc and    *)
(* competition are written together and are one column here, as a position *)
(* and its url are.                                                        *)
(***************************************************************************)
EXTENDS Naturals, FiniteSets, Sequences, FiniteSetsExt, SequencesExt, Lists

CONSTANTS
    Processes,      \* CLI and TUI processes that share the database file
    Responses,      \* the answers that can arrive: [capability, question, cost, records]
    FreeTTL,        \* ticks an answer of a capability without a projector stays fresh
    MaxId,          \* bound: the largest rowid given out
    MaxNow          \* bound: the largest time

(***************************************************************************)
(* A capability's projector, by the tables it writes.  Names are those of  *)
(* the Projector constants; user_data and sites have none.                 *)
(***************************************************************************)
PROJECTORS ==
    [AUTOCOMPLETE            |-> {"keyword"},
     SEARCH_ANALYTICS        |-> {"gsc_query"},
     SEARCH_VOLUME           |-> {"keyword", "keyword_month"},
     BULK_KEYWORD_DIFFICULTY |-> {"keyword"},
     SEARCH_INTENT           |-> {"keyword"},
     KEYWORDS_FOR_KEYWORDS   |-> {"keyword", "keyword_month"},
     RANKED_KEYWORDS         |-> {"domain_keyword", "keyword", "keyword_month"},
     DOMAIN_INTERSECTION     |-> {"domain_keyword", "keyword", "keyword_month"}]

Projected == DOMAIN PROJECTORS
REGISTRY  == Projected \cup {"USER_DATA", "SITES"}
Tables    == {"keyword", "keyword_month", "domain_keyword", "gsc_query"}
Null      == 0
Figures   == {"volume", "difficulty", "intent", "probability"}

(***************************************************************************)
(* A confidence is never reported without the label it belongs to          *)
(* (labs.parse_search_intent reads both from one keyword_intent object).   *)
(***************************************************************************)
ASSUME ResponsesAssumption ==
    \A a \in Responses :
        /\ a.capability \in REGISTRY
        /\ a.cost \in Nat
        /\ \A r \in a.records :
            /\ r.says \subseteq Figures
            /\ "probability" \in r.says => "intent" \in r.says

ASSUME BoundsAssumption == FreeTTL \in Nat /\ MaxId \in Nat /\ MaxNow \in Nat

VARIABLES
    raw,        \* raw_response: rowid -> row
    tables,     \* the projection tables: name -> key -> row
    proc,       \* what each process is in the middle of
    now,        \* the clock
    applied,    \* history: name -> the responses the table stands for, in order
    lastId      \* history: the last rowid given out

vars == <<raw, tables, proc, now, applied, lastId>>

Idle == [pc |-> "idle"]

Init ==
    /\ raw = <<>>
    /\ tables = [t \in Tables |-> <<>>]
    /\ proc = [p \in Processes |-> Idle]
    /\ now = 0
    /\ applied = [t \in Tables |-> <<>>]
    /\ lastId = 0

-----------------------------------------------------------------------------
(* Projection                                                              *)

Writes(c) == IF c \in Projected THEN PROJECTORS[c] ELSE {}

\* What response i says of a column: the figure itself, or NULL.
Said(i, r, column) == IF column \in r.says THEN i ELSE Null

\* The row an INSERT of response i starts from.
Inserted(i) ==
    [volume |-> Null, difficulty |-> Null, intent |-> Null, probability |-> Null,
     updated_at |-> raw[i].at, raw_id |-> i]

\* Mutant: intent is merged and its confidence is merged on its own.
MeasuredUnpaired(i, r, old) ==
    [volume      |-> Said(i, r, "volume"),
     difficulty  |-> IF "difficulty" \in r.says THEN i ELSE old.difficulty,
     intent      |-> IF "intent" \in r.says THEN i ELSE old.intent,
     probability |-> IF "probability" \in r.says THEN i ELSE old.probability,
     updated_at  |-> raw[i].at,
     raw_id      |-> i]

\* _UPSERT_MEASURED: volume is overwritten, difficulty and intent are kept when
\* the response is silent, the confidence follows the label.
Measured(i, r, old) ==
    [volume      |-> Said(i, r, "volume"),
     difficulty  |-> IF "difficulty" \in r.says THEN i ELSE old.difficulty,
     intent      |-> IF "intent" \in r.says THEN i ELSE old.intent,
     probability |-> IF "intent" \in r.says THEN Said(i, r, "probability")
                                            ELSE old.probability,
     updated_at  |-> raw[i].at,
     raw_id      |-> i]

\* Mutant: a difficulty response takes over the provenance of the row.
WrittenRepointed(c, i, r, old) ==
    CASE c = "AUTOCOMPLETE" -> old
      [] c = "BULK_KEYWORD_DIFFICULTY" ->
            [old EXCEPT !.difficulty = Said(i, r, "difficulty"),
                        !.updated_at = raw[i].at, !.raw_id = i]
      [] c = "SEARCH_INTENT" ->
            [old EXCEPT !.intent = Said(i, r, "intent"),
                        !.probability = Said(i, r, "probability")]
      [] OTHER -> Measured(i, r, old)

\* The keyword row that response i leaves where `old` stood: discovery leaves it
\* alone, an attribute sets its own columns, a measurement takes the row over.
Written(c, i, r, old) ==
    CASE c = "AUTOCOMPLETE" -> old
      [] c = "BULK_KEYWORD_DIFFICULTY" ->
            [old EXCEPT !.difficulty = Said(i, r, "difficulty")]
      [] c = "SEARCH_INTENT" ->
            [old EXCEPT !.intent = Said(i, r, "intent"),
                        !.probability = Said(i, r, "probability")]
      [] OTHER -> Measured(i, r, old)

\* The records of response i by what keys them: a keyword, or in gsc_query what was
\* asked of a page on a day.
Named(i) == {r.keyword : r \in raw[i].records}

\* upsert_months: a row for each month of each keyword's series.
MonthKeys(i) == UNION {{r.keyword} \X r.months : r \in raw[i].records}

\* _write_ranks: a row for each domain that has a position, at the time of the fetch.
RankKeys(i) == UNION {r.domains \X {r.keyword} \X {raw[i].at} : r \in raw[i].records}

\* What response i says of a keyword it names.
RecordOf(i, k) == CHOOSE r \in raw[i].records : r.keyword = k

\* The keys of table t that response i writes.
Keys(t, i) ==
    IF t \notin Writes(raw[i].capability) THEN {}
    ELSE CASE t = "keyword_month"  -> MonthKeys(i)
           [] t = "domain_keyword" -> RankKeys(i)
           [] OTHER                -> Named(i)

\* The projector of response i, applied to the tables T.  Every table but
\* `keyword` is a plain upsert.
Apply(T, i) ==
    LET current(k) == IF k \in DOMAIN T["keyword"] THEN T["keyword"][k] ELSE Inserted(i)
        written(t, x) == IF t = "keyword"
                         THEN Written(raw[i].capability, i, RecordOf(i, x), current(x))
                         ELSE i
    IN  [t \in Tables |-> [x \in Keys(t, i) \cup DOMAIN T[t] |->
                              IF x \in Keys(t, i) THEN written(t, x) ELSE T[t][x]]]

-----------------------------------------------------------------------------
(* Rebuild                                                                 *)

\* The stored responses that table t is derived from.
Archive(t) == {i \in DOMAIN raw : t \in Writes(raw[i].capability)}

\* Mutant: a targeted rebuild replays its own capability only.
ClosureOfOne == [target \in Projected |-> {target}]

\* _closure: the least set with the target that no projector outside shares a
\* table with.
Closure ==
    LET closed(S) == \A c \in Projected \ S : \A d \in S : Writes(c) \cap Writes(d) = {}
    IN  [target \in Projected |->
            {c \in Projected : \A S \in SUBSET Projected : target \in S /\ closed(S) => c \in S}]

\* `zipf db rebuild` takes every projector, `--capability` one and its closure.
Selections == {Projected} \cup {Closure[target] : target \in Projected}

\* Mutant: the newest response is replayed first.
ReplayNewestFirst(S) ==
    LET after(i, j) == raw[i].at > raw[j].at \/ (raw[i].at = raw[j].at /\ i > j)
    IN  Arranged(S, {pair \in S \X S : after(pair[1], pair[2])})

\* ORDER BY fetched_at ASC, id ASC.
ReplayOrder(S) ==
    LET before(i, j) == raw[i].at < raw[j].at \/ (raw[i].at = raw[j].at /\ i < j)
    IN  Arranged(S, {pair \in S \X S : before(pair[1], pair[2])})

-----------------------------------------------------------------------------
(* Prune                                                                   *)

\* Mutant: a response supersedes itself.
SupersededBySelf(i) ==
    \E j \in DOMAIN raw :
        /\ raw[j].capability = raw[i].capability
        /\ raw[j].question = raw[i].question
        /\ i <= j

\* i is not the newest answer to its question: id NOT IN (SELECT MAX(id) ...).
Superseded(i) ==
    \E j \in DOMAIN raw :
        /\ raw[j].capability = raw[i].capability
        /\ raw[j].question = raw[i].question
        /\ i < j

\* Mutant: the newest answer may go as well.
CandidatesNewestToo(c) ==
    {i \in DOMAIN raw : raw[i].capability = c /\ raw[i].cost = 0 /\ raw[i].at + FreeTTL < now}

\* _CANDIDATES: free, past its TTL, superseded.
Candidates(c) ==
    {i \in DOMAIN raw :
        /\ raw[i].capability = c
        /\ raw[i].cost = 0
        /\ raw[i].at + FreeTTL < now
        /\ Superseded(i)}

\* Mutant: whatever is free may be pruned, projected or not.
PrunableFree == {raw[i].capability : i \in {j \in DOMAIN raw : raw[j].cost = 0}}

\* prunable_capabilities: registered, and read by no projector.
Prunable == REGISTRY \ Projected

-----------------------------------------------------------------------------
(* Steps                                                                   *)

\* The rowid SQLite gives an INTEGER PRIMARY KEY without AUTOINCREMENT.
NewId == IF DOMAIN raw = {} THEN 1 ELSE Max(DOMAIN raw) + 1

\* _persist: the response is committed in a transaction of its own.
Store(p, a) ==
    /\ proc[p].pc = "idle"
    /\ NewId <= MaxId
    /\ LET row == [capability |-> a.capability, question |-> a.question,
                   cost |-> a.cost, at |-> now, records |-> a.records]
       IN  raw' = [i \in DOMAIN raw \cup {NewId} |-> IF i = NewId THEN row ELSE raw[i]]
    /\ proc' = [proc EXCEPT ![p] = [pc |-> "stored", row |-> NewId, capability |-> a.capability]]
    /\ lastId' = NewId
    /\ UNCHANGED <<tables, now, applied>>

\* _project_without_losing_bytes: the projector runs in a second transaction.  A
\* capability without one is a no-op; a row that is gone is an error, reported
\* and survived.
Project(p) ==
    /\ proc[p].pc = "stored"
    /\ proc' = [proc EXCEPT ![p] = Idle]
    /\ LET i == proc[p].row
           hit == {t \in Tables : i \in DOMAIN raw /\ t \in Writes(raw[i].capability)}
       IN  /\ tables' = IF hit = {} THEN tables ELSE Apply(tables, i)
           /\ applied' = [t \in Tables |-> IF t \in hit THEN Append(applied[t], i)
                                                        ELSE applied[t]]
    /\ UNCHANGED <<raw, now, lastId>>

\* The projector raises, the database stays busy, or the process dies: the
\* transaction is rolled back and the bytes are kept.
GiveUp(p) ==
    /\ proc[p].pc = "stored"
    /\ proc' = [proc EXCEPT ![p] = Idle]
    /\ UNCHANGED <<raw, tables, now, applied, lastId>>

\* rebuild: one transaction clears the tables of the chosen projectors and
\* replays every response of theirs.  A failure rolls back and is no step.  The
\* history takes a rebuild at its word: every response, in the order of storing.
Rebuild(p, chosen) ==
    /\ proc[p].pc = "idle"
    /\ LET cleared == UNION {Writes(c) : c \in chosen}
           replayed == ReplayOrder({i \in DOMAIN raw : raw[i].capability \in chosen})
           emptied == [t \in Tables |-> IF t \in cleared THEN <<>> ELSE tables[t]]
       IN  /\ tables' = FoldLeft(Apply, emptied, replayed)
           /\ applied' = [t \in Tables |-> IF t \in cleared THEN InOrder(Archive(t))
                                                            ELSE applied[t]]
    /\ UNCHANGED <<raw, proc, now, lastId>>

\* preview, the first half of prune: reads without a transaction.  Only the
\* capabilities go on to the delete; the rows are kept as history.
PrunePreview(p) ==
    /\ proc[p].pc = "idle"
    /\ LET planned == {c \in Prunable : Candidates(c) # {}}
       IN  /\ planned # {}
           /\ proc' = [proc EXCEPT ![p] = [pc |-> "previewed", by_capability |-> planned,
                                           rows |-> UNION {Candidates(c) : c \in planned}]]
    /\ UNCHANGED <<raw, tables, now, applied, lastId>>

\* Mutant: the sweep is reported and never committed.
PruneUncommitted(p) ==
    /\ proc[p].pc = "previewed"
    /\ proc' = [proc EXCEPT ![p] = Idle]
    /\ UNCHANGED <<raw, tables, now, applied, lastId>>

\* The second half of prune: one transaction deletes what the same conditions
\* select now, from the capabilities of the preview.
PruneDelete(p) ==
    /\ proc[p].pc = "previewed"
    /\ LET gone == UNION {Candidates(c) : c \in proc[p].by_capability}
       IN  raw' = [i \in DOMAIN raw \ gone |-> raw[i]]
    /\ proc' = [proc EXCEPT ![p] = Idle]
    /\ UNCHANGED <<tables, now, applied, lastId>>

Tick ==
    /\ now < MaxNow
    /\ now' = now + 1
    /\ UNCHANGED <<raw, tables, proc, applied, lastId>>

Next ==
    \/ \E p \in Processes :
        \/ \E a \in Responses : Store(p, a)
        \/ Project(p)
        \/ GiveUp(p)
        \/ \E chosen \in Selections : Rebuild(p, chosen)
        \/ PrunePreview(p)
        \/ PruneDelete(p)
    \/ Tick

Spec == Init /\ [][Next]_vars

-----------------------------------------------------------------------------
(* Properties                                                              *)

Ids == 0..lastId

\* Every reference is to a row that was stored, and a response waiting for its
\* projector is still there: prune may only overtake one nothing is derived from.
TypeOK ==
    /\ now \in 0..MaxNow /\ lastId \in 0..MaxId
    /\ DOMAIN raw \subseteq 1..lastId
    /\ \A i \in DOMAIN raw : /\ raw[i].capability \in REGISTRY
                             /\ raw[i].at \in 0..now
    /\ DOMAIN tables = Tables
    /\ \A t \in Tables \ {"keyword"} : \A x \in DOMAIN tables[t] : tables[t][x] \in Ids
    /\ \A k \in DOMAIN tables["keyword"] : \A c \in Figures : tables["keyword"][k][c] \in Ids
    /\ \A p \in Processes : /\ proc[p].pc \in {"idle", "stored", "previewed"}
                            /\ proc[p].pc = "stored" =>
                                    \/ proc[p].row \in DOMAIN raw
                                    \/ proc[p].row \in 1..lastId /\ proc[p].capability \notin Projected
    /\ \A t \in Tables : \A n \in DOMAIN applied[t] : applied[t][n] \in DOMAIN raw

\* The last of the responses in S, or Null, if it says the column; the column is
\* NULL when it does not.
LastSaid(S, k, column) ==
    IF S # {} /\ column \in RecordOf(Max(S), k).says THEN Max(S) ELSE Null

\* Of the responses in S: those that name a keyword, those of them that were asked
\* for an attribute, and those that measured it (and report a column).
Naming(S, k) == {i \in S : k \in Keys("keyword", i)}
AskedFor(S, k, c) == {i \in Naming(S, k) : raw[i].capability = c}
Measuring(S, k) ==
    {i \in Naming(S, k) : raw[i].capability \notin
        {"AUTOCOMPLETE", "BULK_KEYWORD_DIFFICULTY", "SEARCH_INTENT"}}
Reporting(S, k, column) == {i \in Measuring(S, k) : column \in RecordOf(i, k).says}

Rated(S, k) == AskedFor(S, k, "BULK_KEYWORD_DIFFICULTY") \cup Reporting(S, k, "difficulty")
Labelled(S, k) == AskedFor(S, k, "SEARCH_INTENT") \cup Reporting(S, k, "intent")
Owner(S, k) == IF Measuring(S, k) # {} THEN Max(Measuring(S, k)) ELSE Min(Naming(S, k))

\* What they say of a keyword, column by column, without a replay:
\* volume and provenance from the newest measurement, or else from the first
\* response to name the keyword; difficulty from the newest that reports it or was
\* asked for it; intent likewise, with the confidence of the same response.
KeywordOf(S, k) ==
    [volume      |-> LastSaid(Measuring(S, k), k, "volume"),
     difficulty  |-> LastSaid(Rated(S, k), k, "difficulty"),
     intent      |-> LastSaid(Labelled(S, k), k, "intent"),
     probability |-> LastSaid(Labelled(S, k), k, "probability"),
     updated_at  |-> raw[Owner(S, k)].at,
     raw_id      |-> Owner(S, k)]

\* What they say of a table: the newest response with a key has its row.
Derived(t, S) ==
    [x \in UNION {Keys(t, i) : i \in S} |->
        IF t = "keyword" THEN KeywordOf(S, x)
        ELSE Max({i \in S : x \in Keys(t, i)})]

\* A table that every stored response was projected to in the order of storing, or
\* that was rebuilt and then projected to so, is what the archive says: "a pure derivation" (projections/base.py 3-10), "the most recent
\* measurement wins" (projections/keyword.py 13-14).
TablesFollowArchive ==
    \A t \in Tables :
        applied[t] = InOrder(Archive(t)) => tables[t] = Derived(t, Archive(t))

\* No step takes a key from a table: "a rebuild should never shrink a table"
\* (cli/main.py 459-462, projections/rebuild.py 62), whatever projected before.
NothingLost ==
    [][\A t \in Tables : DOMAIN tables[t] \subseteq DOMAIN tables'[t]]_vars

\* The raw_id of a keyword is a stored response, updated_at is its time, and a
\* volume came from no other: fresh_keywords takes it for the purchase of the volume
\* (projections/keyword.py 175-182, services/volume.py 67-89).
Provenance ==
    \A k \in DOMAIN tables["keyword"] :
        LET row == tables["keyword"][k]
        IN  /\ row.raw_id \in DOMAIN raw
            /\ k \in Keys("keyword", row.raw_id)
            /\ row.updated_at = raw[row.raw_id].at
            /\ row.volume \in {Null, row.raw_id}

\* A confidence stands beside the label it was measured for, through merges,
\* purchases and replays in any order (projections/keyword.py 61-68).
IntentPaired ==
    \A k \in DOMAIN tables["keyword"] :
        tables["keyword"][k].probability \in {Null, tables["keyword"][k].intent}

\* A rowid is never given out twice, although prune deletes rows and the table has
\* no AUTOINCREMENT: "id is monotonic with insertion" (projections/rebuild.py 38-40).
IdsNeverReused ==
    [][\A i \in DOMAIN raw' \ DOMAIN raw : i > lastId]_vars

\* The cache never falls back to an older answer, or to none, although prune keeps the
\* largest id of a question and the look-up takes the latest fetched_at (prune.py 17-19,
\* "so a cached answer never disappears", db/migrations/007 line 18; fetch.py 48-53).
CacheNeverFallsBack ==
    [][\A i \in DOMAIN raw :
        \E j \in DOMAIN raw' :
            /\ raw'[j].capability = raw[i].capability
            /\ raw'[j].question = raw[i].question
            /\ raw'[j].at >= raw[i].at]_vars

\* What a preview counted is gone when its prune is done, whatever was stored or
\* pruned between: the total printed is not more than went (prune.py 101-104).
PlannedGone ==
    [][\A p \in Processes :
        proc[p].pc = "previewed" /\ proc'[p].pc = "idle" =>
            proc[p].rows \cap DOMAIN raw' = {}]_vars
=============================================================================
