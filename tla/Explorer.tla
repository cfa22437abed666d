------------------------------ MODULE Explorer ------------------------------
(***************************************************************************)
(* The terminal application at rest and under the user's hands             *)
(* (tui/app.py, tui/views.py, services/browse.py, watchlist.py): one table *)
(* that is rebuilt from the view, the filter, the sort, the marks and the  *)
(* watchlist by whatever happens: a key, a message of the table that was   *)
(* posted before another handler ran, a job that finished, a command that  *)
(* returns.  What a command buys is Purchases; here it ends as owned,      *)
(* declined, queued or refused.                                            *)
(***************************************************************************)
EXTENDS Integers, Sequences, FiniteSets, FiniteSetsExt, SequencesExt, Lists

CONSTANTS
  Words,          \* keywords, numbered in alphabetical order
  Sites, Pairs,   \* domains with ranks, and gap pulls "theirs|mine"
  KnownFor,       \* the keywords stored for each domain and each pair
  Responses, SourceOf,  \* stored responses, and the one behind each keyword
  Tables, Produced,     \* the projected tables, and those each response wrote to
  TableView,      \* _TABLE_VIEWS
  QueryOf,        \* cluster_key: what each keyword asks, however it is phrased
  Plainness,      \* the order in which _representative picks a phrasing
  Searched,       \* queries of Search Console
  Terms,          \* what may be typed in the filter bar, as the set of keys it matches
  Rankings,       \* sequences of keywords: the keyword table, best volume first
  Nothing

Kinds == {"keywords", "domains", "domain", "gap", "gsc", "response"}

\* SORT_CYCLES, of two keys each where there are more.
SORT_CYCLES ==
  [kind \in Kinds |-> CASE kind = "keywords" -> <<"volume", "keyword">>
                        [] kind = "domains" -> <<"keywords", "domain">>
                        [] kind = "gsc" -> <<"clicks", "query">>
                        [] OTHER -> <<>>]

\* SORT_BY_COLUMN: the header of a column sorts by the key of the same name.
Sortable(kind) == ToSet(SORT_CYCLES[kind])

ASSUME ExplorerAssumption ==
  /\ Words \subseteq Nat /\ Searched \subseteq Words
  /\ KnownFor \in [Sites \cup Pairs -> SUBSET Words]
  /\ Plainness \in Seq(Words) /\ ToSet(Plainness) = Words /\ Words \subseteq DOMAIN QueryOf
  /\ SourceOf \in [Words -> Responses] /\ Produced \in [Responses -> Seq(Tables)]
  /\ TableView \in [Tables -> {"keywords", "domains", "gsc"}]
  /\ Rankings \subseteq Seq(Words) /\ IsFiniteSet(Sites)

VARIABLES
  ranking,   \* the keyword table, as committed
  watched,   \* the watchlist table
  view, contains, sort, mode,  \* what decides what is on screen
  marked,
  back,      \* where escape goes back to
  bar,       \* the bar that has the keyboard: none, filter or command
  screen,    \* the keys of the table as it was last built
  cursor,    \* the row the cursor is on, from 1
  posted,    \* a message of the table that is on its way to its handler
  worker     \* the command being run

explorerVars == <<ranking, watched, view, contains, sort, mode, marked, back, bar,
                  screen, cursor, posted, worker>>

View(kind, arg) == [kind |-> kind, arg |-> arg]
Home == View("keywords", Nothing)
NoWorker == [name |-> "none", arg |-> Nothing, asking |-> FALSE]
NoMessage == [type |-> "none", what |-> Nothing]

-----------------------------------------------------------------------------
(* What a view shows *)

\* The LIKE of each query.
Filtered(rows, filter) == IF filter = Nothing THEN rows ELSE Kept(rows, filter)

\* browse.keywords: best volume first unless another key is asked for.
KeywordRows(order, collection, watchlist) ==
  LET rows == IF order = "keyword" THEN InOrder(ToSet(ranking)) ELSE ranking
  IN IF collection = "watchlist" THEN Kept(rows, watchlist) ELSE rows

\* Best volume first, the keywords without a row of their own after them.
ByVolume(words) == Kept(ranking, words) \o InOrder(words \ ToSet(ranking))

\* browse.domain_keywords.
DomainKeywordRows(domain) == ByVolume(KnownFor[domain])

\* cluster_rows: the phrasings of one query are one row, where the best of them stands.
Cluster(words, k) == {m \in words : QueryOf[m] = QueryOf[k]}

ClusterRows(words) ==
  LET rows == ByVolume(words) IN Kept(rows, {k \in words : k = Kept(rows, Cluster(words, k))[1]})

\* _representative.
Representative(cluster) == Kept(Plainness, cluster)[1]

\* _gap_rows, of "theirs|mine": a cluster is found by any of its phrasings.
GapRows(pair, filter) ==
  LET words == KnownFor[pair]
      found == {k \in words : filter = Nothing \/ Cluster(words, k) \cap filter # {}}
      shown == Kept(ClusterRows(words), found)
  IN [i \in DOMAIN shown |-> Representative(Cluster(words, shown[i]))]

DomainRows == SetToSeq(Sites)
QueryRows == InOrder(Searched)

\* table_for.  What a response was projected into is not filtered.
Rows(v, filter, order, collection, watchlist) ==
  CASE v.kind = "keywords" -> Filtered(KeywordRows(order, collection, watchlist), filter)
    [] v.kind = "domains" -> Filtered(DomainRows, filter)
    [] v.kind = "domain" -> Filtered(DomainKeywordRows(v.arg), filter)
    [] v.kind = "gap" -> GapRows(v.arg, filter)
    [] v.kind = "gsc" -> Filtered(QueryRows, filter)
    [] v.kind = "response" -> Produced[v.arg]

\* Mutant: domains keep the default kind of key.
KeywordKeysDefault == {"keywords", "domain", "gap", "gsc", "domains"}

\* The kinds whose rows are keywords: they can be marked and watched.
KeywordKeys == {"keywords", "domain", "gap", "gsc"}

\* Mutant: the cursor stays where it was by position.
LandingByPosition(rows) == Max({1, Min({cursor, Len(rows)})})

\* Where the cursor goes in a rebuilt table: to its key if that is still there.
Landing(rows) ==
  IF cursor <= Len(screen) /\ screen[cursor] \in ToSet(rows)
  THEN CHOOSE i \in DOMAIN rows : rows[i] = screen[cursor]
  ELSE 1

\* _reload_table, from what is then in force.
Reload(v, filter, order, collection, watchlist) ==
  /\ view' = v /\ contains' = filter /\ sort' = order /\ mode' = collection
  /\ watched' = watchlist
  /\ screen' = Rows(v, filter, order, collection, watchlist)
  /\ cursor' = Landing(screen')

ReloadAsIs == Reload(view, contains, sort, mode, watched)

\* Mutant: a sort key is carried into the next view.
ShowSorted(v, collection) ==
  /\ Reload(v, Nothing, sort, collection, watched)
  /\ bar' = IF bar = "filter" THEN "none" ELSE bar

\* show_view: filter and sort belong to the view that is left.
Show(v, collection) ==
  /\ Reload(v, Nothing, Nothing, collection, watched)
  /\ bar' = IF bar = "filter" THEN "none" ELSE bar

\* Bound of the model: the way back has no view on it twice.
Room == view \notin ToSet(back)

\* ... with remember = True.
Open(v) ==
  /\ Room /\ back' = Append(back, view)
  /\ Show(v, mode)

-----------------------------------------------------------------------------
(* Keys *)

\* A modal takes every key, an open bar all that are not escape.
AtTable == bar = "none" /\ ~worker.asking

OnRow == cursor <= Len(screen)

CursorMoves ==
  /\ AtTable
  /\ cursor' \in DOMAIN screen \ {cursor}
  /\ UNCHANGED <<ranking, watched, view, contains, sort, mode, marked, back, bar, screen,
                 posted, worker>>

Toggle(set, key) == IF key \in set THEN set \ {key} ELSE set \cup {key}

\* action_mark.
Mark ==
  /\ AtTable /\ OnRow /\ view.kind \in KeywordKeys
  /\ marked' = Toggle(marked, screen[cursor])
  /\ ReloadAsIs
  /\ UNCHANGED <<ranking, back, bar, posted, worker>>

\* action_watch and watchlist.toggle: the marks, else the row; off only if all were on.
Watch ==
  LET targets == IF marked # {} THEN marked ELSE {screen[cursor]} IN
  /\ AtTable /\ view.kind \in KeywordKeys /\ (marked # {} \/ OnRow)
  /\ Reload(view, contains, sort, mode,
            IF targets \subseteq watched THEN watched \ targets ELSE watched \cup targets)
  /\ UNCHANGED <<ranking, marked, back, bar, posted, worker>>

\* action_source.
Source ==
  /\ AtTable /\ OnRow /\ view.kind = "keywords"
  /\ Open(View("response", SourceOf[screen[cursor]]))
  /\ UNCHANGED <<ranking, marked, posted, worker>>

\* action_sort.
Sort ==
  LET cycle == SORT_CYCLES[view.kind]
      at == {i \in DOMAIN cycle : cycle[i] = sort} IN
  /\ AtTable /\ cycle # <<>>
  /\ \E next \in DOMAIN cycle :
       /\ next = IF at = {} THEN 1 ELSE ((CHOOSE i \in at : TRUE) % Len(cycle)) + 1
       /\ Reload(view, contains, cycle[next], mode, watched)
  /\ UNCHANGED <<ranking, marked, back, bar, posted, worker>>

\* _select_explore_mode.
SelectExploreMode(collection) ==
  /\ AtTable /\ ~(collection = mode /\ view.kind = "keywords")
  /\ Show(Home, collection)
  /\ UNCHANGED <<ranking, marked, back, posted, worker>>

\* action_filter, action_command.
OpenBar(which) ==
  /\ AtTable /\ bar' = which
  /\ UNCHANGED <<ranking, watched, view, contains, sort, mode, marked, back, screen, cursor,
                 posted, worker>>

\* on_input_changed: the table follows each keystroke.
Type(term) ==
  /\ bar = "filter" /\ ~worker.asking
  /\ Reload(view, term, sort, mode, watched)
  /\ UNCHANGED <<ranking, marked, back, bar, posted, worker>>

\* on_input_submitted for the filter: it stays in force.
Submit ==
  /\ bar = "filter" /\ ~worker.asking /\ bar' = "none"
  /\ UNCHANGED <<ranking, watched, view, contains, sort, mode, marked, back, screen, cursor,
                 posted, worker>>

\* action_escape: the command bar, else the filter, else back.
Escape ==
  /\ ~worker.asking
  /\ \/ /\ bar = "command" /\ bar' = "none"
        /\ UNCHANGED <<watched, view, contains, sort, mode, back, screen, cursor>>
     \/ /\ bar # "command" /\ (contains # Nothing \/ bar = "filter")
        /\ Reload(view, Nothing, sort, mode, watched)
        /\ bar' = "none" /\ UNCHANGED back
     \/ /\ bar = "none" /\ contains = Nothing /\ back # <<>>
        /\ back' = Front(back)
        /\ Show(Last(back), mode)
  /\ UNCHANGED <<ranking, marked, posted, worker>>

\* Enter on a row and a click on a header post a message, which waits in the
\* table's queue and those of its parents.
Press ==
  /\ AtTable /\ posted = NoMessage
  /\ \/ OnRow /\ posted' = [type |-> "row", what |-> cursor]
     \/ \E key \in Sortable(view.kind) : posted' = [type |-> "header", what |-> key]
  /\ UNCHANGED <<ranking, watched, view, contains, sort, mode, marked, back, bar, screen,
                 cursor, worker>>

-----------------------------------------------------------------------------
(* Messages *)

\* drill_target: only a row that names a container leads on.
Deeper(key) ==
  CASE view.kind = "domains" -> View("domain", key)
    [] view.kind = "response" -> View(TableView[key], Nothing)
    [] OTHER -> Nothing

\* on_data_table_row_selected: the row by its number, in the table of now.
RowSelected ==
  /\ posted.type = "row" /\ posted' = NoMessage
  /\ IF posted.what <= Len(screen) /\ view.kind \in {"domains", "response"}
     THEN Open(Deeper(screen[posted.what]))
     ELSE UNCHANGED <<watched, view, contains, sort, mode, back, bar, screen, cursor>>
  /\ UNCHANGED <<ranking, marked, worker>>

\* on_data_table_header_selected: the key is looked up in the view of now.
HeaderSelected ==
  /\ posted.type = "header" /\ posted' = NoMessage
  /\ IF posted.what \in Sortable(view.kind)
     THEN Reload(view, contains, posted.what, mode, watched)
     ELSE UNCHANGED <<watched, view, contains, sort, mode, screen, cursor>>
  /\ UNCHANGED <<ranking, marked, back, bar, worker>>

\* A job's projection is committed; the screen is as it was.
JobStored ==
  /\ \E r \in Rankings : ToSet(ranking) \subseteq ToSet(r) /\ r # ranking /\ ranking' = r
  /\ UNCHANGED <<watched, view, contains, sort, mode, marked, back, bar, screen, cursor,
                 posted, worker>>

\* on_job_activity; also action_reload, and action_density but for its two columns.
JobActivity ==
  /\ ReloadAsIs
  /\ UNCHANGED <<ranking, marked, back, bar, posted, worker>>

-----------------------------------------------------------------------------
(* Commands *)

\* A :vol works on the marks, or on what was typed or has gone stale (--stale).
Commands ==
  {[name |-> "suggest", arg |-> Nothing]}
  \cup {[name |-> "vol", arg |-> source] : source \in {"marks", "other"}}
  \cup {[name |-> "ranks", arg |-> d] : d \in Sites}
  \cup {[name |-> "gap", arg |-> p] : p \in Pairs}

\* on_input_submitted for a command: an exclusive worker, so the one before is
\* cancelled and its outcome never applied.  A plan above the threshold puts the
\* modal on the screen.
RunCommand(command, asks) ==
  /\ bar = "command" /\ ~worker.asking
  /\ (asks => command.name # "suggest")
  /\ (command.arg = "marks" => marked # {})
  /\ bar' = "none"
  /\ worker' = [name |-> command.name, arg |-> command.arg, asking |-> asks]
  /\ UNCHANGED <<ranking, watched, view, contains, sort, mode, marked, back, screen, cursor,
                 posted>>

\* What a command may come to.
Outcomes == {"found", "owned", "declined", "queued"}

\* Outcome.view: what was found, what is owned, and for a domain or a gap what is
\* shown after a decline.
Destination(outcome) ==
  CASE worker.name = "ranks" /\ outcome # "queued" -> View("domain", worker.arg)
    [] worker.name = "gap" /\ outcome # "queued" -> View("gap", worker.arg)
    [] worker.name = "suggest" \/ outcome = "owned" -> Home
    [] OTHER -> Nothing

\* Mutant: marks are cleared by any :vol, whatever came of it.
ClearsMarksAlways(outcome) == worker.name = "vol"

\* Outcome.clears_marks, which _vol sets where jobs were queued, whether the marks
\* are what it worked on or not.
ClearsMarks(outcome) == worker.name = "vol" /\ outcome = "queued"

\* _run_command, when the command returns.
Apply(outcome) ==
  /\ worker.name # "none"
  /\ IF worker.name = "suggest" THEN outcome = "found"
     ELSE outcome \in IF worker.asking THEN {"declined", "queued"} ELSE {"owned", "queued"}
  /\ (worker.arg = "marks" => marked # {})
  /\ worker' = NoWorker
  /\ marked' = IF ClearsMarks(outcome) THEN {} ELSE marked
  /\ IF Destination(outcome) # Nothing THEN Show(Destination(outcome), mode)
     ELSE IF outcome = "queued" THEN ReloadAsIs /\ UNCHANGED bar
     ELSE UNCHANGED <<watched, view, contains, sort, mode, bar, screen, cursor>>
  /\ UNCHANGED <<ranking, back, posted>>

\* A ZipfError is a notification.
CommandFails ==
  /\ worker.name # "none" /\ ~worker.asking /\ worker' = NoWorker
  /\ UNCHANGED <<ranking, watched, view, contains, sort, mode, marked, back, bar, screen,
                 cursor, posted>>

-----------------------------------------------------------------------------

ExplorerInit ==
  /\ ranking \in Rankings
  /\ watched = {} /\ marked = {} /\ back = <<>>
  /\ view = Home /\ contains = Nothing /\ sort = Nothing /\ mode = "all"
  /\ bar = "none" /\ posted = NoMessage /\ worker = NoWorker
  /\ screen = Rows(Home, Nothing, Nothing, "all", {}) /\ cursor = 1

ExplorerNext ==
  \/ CursorMoves \/ Mark \/ Watch \/ Source \/ Sort \/ Escape \/ Press \/ Submit
  \/ \E collection \in {"all", "watchlist"} : SelectExploreMode(collection)
  \/ \E which \in {"filter", "command"} : OpenBar(which)
  \/ \E term \in Terms \cup {Nothing} : Type(term)
  \/ RowSelected \/ HeaderSelected \/ JobStored \/ JobActivity
  \/ \E command \in Commands, asks \in BOOLEAN : RunCommand(command, asks)
  \/ \E outcome \in Outcomes : Apply(outcome)
  \/ CommandFails

ExplorerSpec == ExplorerInit /\ [][ExplorerNext]_explorerVars

-----------------------------------------------------------------------------

\* "A sort key belongs to one view" (tui/app.py:252), and _order_by raises on any
\* other: whatever message, command or escape changes the view, the next rebuild
\* has a key it can sort by.
SortBelongs == sort = Nothing \/ sort \in Sortable(view.kind)

\* Only keywords are marked or watched, since a bare :vol buys what is marked: no
\* change of view leaves the keys of the row and the kind of the table apart.
OnlyKeywordsChosen == marked \cup watched \subseteq Words

\* "Which row the cursor was on, by identity rather than by position"
\* (tui/app.py:285): whatever rebuilds the table, the next key acts on the row it
\* was on, if that row is still on screen.
CursorFollowsKey ==
  [][ \/ CursorMoves
      \/ OnRow /\ screen[cursor] \in ToSet(screen') => screen'[cursor'] = screen[cursor]
    ]_explorerVars

\* "clearing them on a declined spend would lose it" (tui/commands.py:64): of the
\* commands only a :vol that queued jobs clears the marks, whatever was declined,
\* owned, refused or cancelled by the next one; else a mark goes by the user's own
\* key, on its row.  What that :vol queued need not be the marked keywords: see
\* MarksConsumedByUse.
MarksOutliveFailure ==
  [][ marked \subseteq marked' \/ (worker.name = "vol" /\ Apply("queued"))
      \/ (OnRow /\ marked' = marked \ {screen[cursor]})
    ]_explorerVars

\* "Set only when a command actually queued work from them" (tui/commands.py:62):
\* the marks are cleared by a :vol that worked on them, and by no other command.
MarksConsumedByUse ==
  [][ marked \subseteq marked' \/ (worker.name = "vol" /\ worker.arg = "marks")
      \/ (OnRow /\ marked' = marked \ {screen[cursor]})
    ]_explorerVars
=============================================================================
