----------------------------- MODULE Purchases -----------------------------
(***************************************************************************)
(* From a typed command to a stored answer: what `vol`, `ideas`, `ranks`   *)
(* and `gap` decide to buy, the confirmation gate, the jobs that an        *)
(* approved plan queues, and the runners that spend.                       *)
(*                                                                         *)
(* A plan (services/volume.py, ideas.py, ranks.py, gap.py) reads the       *)
(* archive and spends nothing; the gate (cli/paid.py, tui/commands.py) may *)
(* wait for a person; the jobs are queued one transaction each; a runner   *)
(* of any process buys them later.  Between any two of these the other     *)
(* process may do the same.  The ledger is SpendLedger's; fetch and the    *)
(* queue are reduced to what a purchase needs of them (MeteredFetch and    *)
(* JobQueue have them whole).                                              *)
(***************************************************************************)
EXTENDS SpendLedger, Lists

CONSTANTS
  Tui,                  \* the process of the terminal application; the others run commands
  Keywords,             \* keywords, numbered in alphabetical order
  Words, Cleaned,       \* what may be typed, and what strip().lower() makes of it
  Blank,                \* what it makes of blanks, or a domain that is not configured
  Typed,                \* argument lists of `vol` and `ideas`
  Domains,              \* Blank among them
  RanksAsked, GapsAsked, Limits,  \* domains, pairs of domains and --limit values given
  MaxKeywordsPerCall, MaxSeeds, MaxLimit,
  BaseUsd, PerRowUsd, IdeasUsd,
  Excess,               \* how far a charge may be above the estimate
  Answers,              \* the keywords a vendor may know of
  Threshold,            \* Budget.threshold_usd
  TTL,                  \* per capability
  MonthLength,          \* ticks of the clock in a calendar month
  MaxTime, MaxDecisions, MaxMishaps  \* bounds of the model

Capabilities == {"volume", "ideas", "ranks", "gap"}

ASSUME PurchasesAssumption ==
  /\ Tui \in Spenders
  /\ Keywords \subseteq Nat /\ IsFiniteSet(Keywords) /\ Blank \notin Keywords
  /\ Cleaned \in [Words -> Keywords \cup {Blank}]
  /\ Typed \subseteq Seq(Words)
  /\ RanksAsked \subseteq Domains /\ GapsAsked \subseteq Domains \X Domains
  /\ Limits \subseteq Nat /\ MaxLimit \in Nat
  /\ MaxKeywordsPerCall \in Nat \ {0} /\ MaxSeeds \in Nat
  /\ BaseUsd \in Nat \ {0} /\ PerRowUsd \in Nat /\ IdeasUsd \in Nat \ {0}
  /\ Excess \subseteq 0 .. Overrun /\ Answers \subseteq SUBSET Keywords
  /\ Threshold \in Nat /\ TTL \in [Capabilities -> Nat]
  /\ MonthLength \in Nat \ {0}

VARIABLES
  now,        \* the clock
  archive,    \* paid raw_response rows, in the order they were stored
  owner,      \* keyword.raw_id of each keyword, 0 while it has no row
  decisions,  \* every plan put before the gate
  jobs,       \* the job table, in id order
  shell,      \* per process, the command that is being run
  runner,     \* per process, its JobRunner
  tuiOpen,    \* the application is on the screen
  mishaps

purchaseVars == <<now, archive, owner, decisions, jobs, shell, runner, tuiOpen, mishaps>>
allVars == <<ledgerVars, purchaseVars>>

-----------------------------------------------------------------------------
(* What is owned *)

Measuring == {"volume", "ranks", "gap"}  \* MEASURING_CAPABILITIES

Within(at, ttl) == at >= now - ttl

\* keyword JOIN raw_response ON raw_id, in the measuring capabilities.
Measured(k) == owner[k] # 0 /\ archive[owner[k]].request.capability \in Measuring

\* fresh_keywords.
FreshKeyword(k) == Measured(k) /\ Within(archive[owner[k]].at, TTL["volume"])

\* Mutant: the view also lists keywords still within their TTL.
StaleAll == {k \in Keywords : Measured(k)}

\* browse.stale_keywords.
StaleKeywords == {k \in Keywords : Measured(k) /\ ~Within(archive[owner[k]].at, TTL["volume"])}

\* covering_age's predicates, and the superset test of _covering_pull.
Covers(old, new) ==
  /\ old.capability = new.capability /\ old.domains = new.domains
  /\ new.keywords \subseteq old.keywords
  /\ old.depth >= new.depth

Owned(request) ==
  \E i \in DOMAIN archive : /\ Covers(archive[i].request, request)
                            /\ Within(archive[i].at, TTL[request.capability])

-----------------------------------------------------------------------------
(* Plans: the requests still to be bought, none when the plan is free *)

Request(capability, keywords, domains, depth) ==
  [capability |-> capability, keywords |-> keywords, domains |-> domains, depth |-> depth]

\* Cleaned, without blanks, each once, in the order given.
Normalise(words) ==
  LET cleaned == [n \in DOMAIN words |-> Cleaned[words[n]]]
  IN  Picked(cleaned, {n \in DOMAIN cleaned : /\ cleaned[n] # Blank
                                             /\ \A m \in 1 .. n - 1 : cleaned[m] # cleaned[n]})

\* As few calls as the vendor allows; fetch hashes a batch without its order.
Batches(keywords) ==
  [i \in 1 .. (Len(keywords) + MaxKeywordsPerCall - 1) \div MaxKeywordsPerCall |->
     Request("volume", {keywords[n] : n \in {m \in DOMAIN keywords :
                           /\ m > (i - 1) * MaxKeywordsPerCall
                           /\ m <= i * MaxKeywordsPerCall}}, <<>>, 0)]

VolumePlan(keywords, force) ==
  Batches(IF force THEN keywords ELSE Kept(keywords, {k \in Keywords : ~FreshKeyword(k)}))

\* One request, unless a stored pull covers it.
PullPlan(request, force) == IF ~force /\ Owned(request) THEN <<>> ELSE <<request>>

\* normalise_seeds refuses none and too many.
IdeasRequests ==
  {Request("ideas", seeds, <<>>, 0) :
     seeds \in {ToSet(Normalise(words)) : words \in Typed} \cap
               {S \in SUBSET Keywords : Cardinality(S) \in 1 .. MaxSeeds}}

Depth(limit) == IF limit <= MaxLimit THEN limit ELSE MaxLimit

RanksRequests ==
  {Request("ranks", {}, <<d>>, Depth(limit)) : d \in RanksAsked \ {Blank}, limit \in Limits}

\* Theirs and mine; a domain cannot be compared with itself.
GapRequests ==
  {Request("gap", {}, pair, Depth(limit)) :
     pair \in {p \in GapsAsked : Blank \notin {p[1], p[2]} /\ p[1] # p[2]},
     limit \in Limits}

Price(request) ==
  CASE request.capability = "ideas" -> IdeasUsd
    [] request.capability = "volume" -> BaseUsd + PerRowUsd * Cardinality(request.keywords)
    [] OTHER -> BaseUsd + PerRowUsd * request.depth

Total(plan) == FoldLeft(LAMBDA sum, request : sum + Price(request), 0, plan)

-----------------------------------------------------------------------------
(* The command and the gate *)

IdleShell == [pc |-> "idle", decision |-> 0, next |-> 0]
Down == [up |-> FALSE, job |-> 0]

Mishap == mishaps < MaxMishaps /\ mishaps' = mishaps + 1

\* A runner that stops leaves its call, and the job it was at running.
Stop(h) ==
  /\ runner' = [runner EXCEPT ![h] = Down]
  /\ Drop({h})

\* Mutant: each call is held against the threshold by itself.
NeedsConfirmationEach(plan) == \E i \in DOMAIN plan : Price(plan[i]) > Threshold

\* Budget.needs_confirmation, of the whole plan.
NeedsConfirmation(plan) == Total(plan) > Threshold

\* The command line takes --yes; the terminal application always asks.
FirstAnswers(s, plan) ==
  IF NeedsConfirmation(plan) THEN {"pending"} \cup (IF s = Tui THEN {} ELSE {"yes"})
  ELSE {"silent"}

CanAsk(s) == shell[s].pc = "idle" /\ (s = Tui => tuiOpen) /\ Len(decisions) < MaxDecisions

\* resolve and buy: a plan that is not free meets the gate.  A command of the
\* application is an exclusive worker, and the runner is of the group it cancels.
Ask(s, plan, forced) ==
  /\ plan # <<>>
  /\ \E answer \in FirstAnswers(s, plan) :
       /\ decisions' = Append(decisions, [plan |-> plan, forced |-> forced, at |-> now,
                                          seen |-> Len(archive), answer |-> answer])
       /\ shell' = [shell EXCEPT ![s] =
                      [pc |-> IF answer = "pending" THEN "asking" ELSE "queueing",
                       decision |-> Len(decisions) + 1, next |-> 1]]
  /\ IF s = Tui THEN Stop(Tui) ELSE UNCHANGED <<runner, approved, spent>>
  /\ UNCHANGED <<now, archive, owner, jobs, tuiOpen, mishaps>>

\* Without --force, and with it where that makes a difference.
AskEither(s, plan, forcedPlan) ==
  Ask(s, plan, FALSE) \/ (forcedPlan # plan /\ Ask(s, forcedPlan, TRUE))

AskVolume(s) ==
  /\ CanAsk(s)
  /\ \E words \in Typed : AskEither(s, VolumePlan(Normalise(words), FALSE),
                                       VolumePlan(Normalise(words), TRUE))

\* `:vol --stale`: planned with force, since the rows are stale already.
AskStale ==
  /\ CanAsk(Tui)
  /\ \E keywords \in SetToSeqs(StaleKeywords) : Ask(Tui, VolumePlan(keywords, TRUE), FALSE)

\* One request, unless it is owned.
AskPull(s, requests) ==
  /\ CanAsk(s)
  /\ \E request \in requests :
       AskEither(s, PullPlan(request, FALSE), PullPlan(request, TRUE))

AskIdeas(s) == AskPull(s, IdeasRequests)
AskRanks(s) == AskPull(s, RanksRequests)
AskGap(s) == AskPull(s, GapRequests)

\* Any other command of the application: owned already, declined at once, or free.
OtherCommand ==
  /\ tuiOpen /\ shell[Tui].pc = "idle" /\ runner[Tui].up
  /\ Stop(Tui)
  /\ UNCHANGED <<spent, now, archive, owner, decisions, jobs, shell, tuiOpen, mishaps>>

\* typer.confirm, or the keypress in the modal; an interrupt is a no.
Answer(s, yes) ==
  /\ shell[s].pc = "asking"
  /\ decisions' = [decisions EXCEPT ![shell[s].decision].answer = IF yes THEN "yes" ELSE "no"]
  /\ shell' = [shell EXCEPT ![s] = IF yes THEN [@ EXCEPT !.pc = "queueing"] ELSE IdleShell]
  /\ UNCHANGED <<ledgerVars, now, archive, owner, jobs, runner, tuiOpen, mishaps>>

\* enqueue: one transaction per request of the plan.
EnqueueNext(s) ==
  LET d == shell[s].decision  n == shell[s].next IN
  /\ shell[s].pc = "queueing"
  /\ jobs' = Append(jobs, [decision |-> d, batch |-> n, status |-> "queued"])
  /\ shell' = [shell EXCEPT ![s] = IF n = Len(decisions[d].plan) THEN IdleShell
                                   ELSE [@ EXCEPT !.next = n + 1]]
  /\ UNCHANGED <<ledgerVars, now, archive, owner, decisions, runner, tuiOpen, mishaps>>

\* Killed, or the database is locked, between two jobs.
Abandon(s) ==
  /\ shell[s].pc = "queueing" /\ Mishap
  /\ shell' = [shell EXCEPT ![s] = IdleShell]
  /\ UNCHANGED <<ledgerVars, now, archive, owner, decisions, jobs, runner, tuiOpen>>

-----------------------------------------------------------------------------
(* The runners *)

RequestOf(j) == decisions[jobs[j].decision].plan[jobs[j].batch]

\* run_forever and drain begin with recover_orphans.
Start(h) ==
  /\ runner' = [runner EXCEPT ![h] = [up |-> TRUE, job |-> 0]]
  /\ jobs' = [j \in DOMAIN jobs |-> IF jobs[j].status = "running"
                                    THEN [jobs[j] EXCEPT !.status = "queued"] ELSE jobs[j]]

\* on_mount; nothing else starts the application's runner.
OpenTui ==
  /\ ~tuiOpen /\ tuiOpen' = TRUE
  /\ Start(Tui)
  /\ UNCHANGED <<ledgerVars, now, archive, owner, decisions, shell, mishaps>>

\* (Counted among the disturbances only to bound how often it happens.)
CloseTui ==
  /\ tuiOpen /\ tuiOpen' = FALSE /\ Mishap
  /\ Stop(Tui)
  /\ shell' = [shell EXCEPT ![Tui] = IdleShell]
  /\ UNCHANGED <<now, archive, owner, decisions, jobs>>

SomethingPending == \E j \in DOMAIN jobs : jobs[j].status \in {"queued", "running"}

\* `zipf jobs run`, or --wait; with nothing pending it is over at once.
StartDrain(h) ==
  /\ h # Tui /\ ~runner[h].up /\ SomethingPending
  /\ Start(h)
  /\ UNCHANGED <<ledgerVars, now, archive, owner, decisions, shell, tuiOpen, mishaps>>

\* A drain returns when nothing is pending, or its process dies.  (The application's
\* runner stops at any time as it is: OtherCommand.)
StopRunner(h) ==
  /\ h # Tui /\ runner[h].up
  /\ \/ ~SomethingPending /\ UNCHANGED mishaps
     \/ Mishap
  /\ Stop(h)
  /\ UNCHANGED <<now, archive, owner, decisions, jobs, shell, tuiOpen>>

\* fetch without force: the newest answer to the very same question, strictly
\* younger than the TTL.
Cached(request) ==
  \E i \in DOMAIN archive : /\ archive[i].request = request
                            /\ now - archive[i].at < TTL[request.capability]

Queued(j) == j \in DOMAIN jobs /\ jobs[j].status = "queued"

\* The oldest queued job: answered from the cache, refused by the ceiling, or sent.
\* (MaxCharge is a bound of the ledger, and so of the prices here.)
Claim(h) ==
  /\ runner[h].up /\ runner[h].job = 0
  /\ \E j \in DOMAIN jobs :
       /\ Queued(j) /\ \A i \in 1 .. j - 1 : ~Queued(i)
       /\ LET request == RequestOf(j) IN
          \/ /\ Cached(request)
             /\ jobs' = [jobs EXCEPT ![j].status = "done"]
             /\ UNCHANGED <<ledgerVars, runner>>
          \/ /\ ~Cached(request) /\ spent + Price(request) > Ceiling
             /\ jobs' = [jobs EXCEPT ![j].status = "failed"]
             /\ UNCHANGED <<ledgerVars, runner>>
          \/ /\ ~Cached(request) /\ Price(request) \in 1 .. MaxCharge
             /\ Approve(h, Price(request))
             /\ jobs' = [jobs EXCEPT ![j].status = "running"]
             /\ runner' = [runner EXCEPT ![h].job = j]
  /\ UNCHANGED <<now, archive, owner, decisions, shell, tuiOpen, mishaps>>

\* What a keyword the response returns is then owned by.
Repointed(returned) ==
  [k \in Keywords |-> IF k \in returned THEN Len(archive) + 1 ELSE owner[k]]

\* The vendor answers (some of) what was asked, and charges; the row is stored,
\* projected over whatever owned its keywords, and the job completed.
Deliver(h, excess, answer) ==
  LET j == runner[h].job  request == RequestOf(j)
      returned == IF request.capability = "volume" THEN answer \cap request.keywords ELSE answer
  IN
  /\ j # 0
  /\ approved[h] + excess <= MaxCharge /\ Record(h, approved[h] + excess)
  /\ archive' = Append(archive, [request |-> request, job |-> j, at |-> now, returned |-> returned])
  /\ owner' = Repointed(returned)
  /\ jobs' = [jobs EXCEPT ![j].status = "done"]
  /\ runner' = [runner EXCEPT ![h].job = 0]
  /\ UNCHANGED <<now, decisions, shell, tuiOpen, mishaps>>

\* The call fails: the job is retried, or is given up.
Fail(h) ==
  /\ runner[h].job # 0 /\ Mishap
  /\ Drop({h})
  /\ \E status \in {"queued", "failed"} : jobs' = [jobs EXCEPT ![runner[h].job].status = status]
  /\ runner' = [runner EXCEPT ![h].job = 0]
  /\ UNCHANGED <<now, archive, owner, decisions, shell, tuiOpen>>

Tick ==
  /\ now < MaxTime /\ now' = now + 1
  /\ IF now' % MonthLength = 0 THEN NewMonth ELSE UNCHANGED ledgerVars
  /\ UNCHANGED <<archive, owner, decisions, jobs, shell, runner, tuiOpen, mishaps>>

-----------------------------------------------------------------------------

Init ==
  /\ LedgerInit
  /\ now = 0 /\ archive = <<>> /\ owner = [k \in Keywords |-> 0]
  /\ decisions = <<>> /\ jobs = <<>>
  /\ shell = [s \in Spenders |-> IdleShell] /\ runner = [h \in Spenders |-> Down]
  /\ tuiOpen = FALSE /\ mishaps = 0

\* What a runner does by itself.
RunnerStep(h) ==
  Claim(h) \/ \E excess \in Excess, answer \in Answers : Deliver(h, excess, answer)

Next ==
  \/ \E s \in Spenders :
       \/ AskVolume(s) \/ AskIdeas(s) \/ AskRanks(s) \/ AskGap(s)
       \/ \E yes \in BOOLEAN : Answer(s, yes)
       \/ EnqueueNext(s) \/ Abandon(s)
  \/ AskStale \/ OtherCommand \/ OpenTui \/ CloseTui
  \/ \E h \in Spenders : StartDrain(h) \/ StopRunner(h) \/ RunnerStep(h) \/ Fail(h)
  \/ Tick

Spec == Init /\ [][Next]_allVars

\* A command that was let through goes on; a runner that is up claims, and the
\* vendor answers it or the timeout fails the call.
Fairness ==
  \A s \in Spenders : WF_allVars(EnqueueNext(s)) /\ WF_allVars(RunnerStep(s) \/ Fail(s))

FairSpec == Spec /\ Fairness

-----------------------------------------------------------------------------

\* "Confirmation is a deliberate keypress above the threshold" (cli/paid.py:5):
\* every job is of a plan that was let through, no
\* request of a plan is queued twice, a plan is queued from its start, and a plan
\* whose whole price is above the threshold was said yes to, however it was split.
ConsentGiven ==
  /\ \A j \in DOMAIN jobs :
       LET d == decisions[jobs[j].decision] IN
       /\ d.answer \in {"silent", "yes"}
       /\ Total(d.plan) > Threshold => d.answer = "yes"
  /\ \A i, j \in DOMAIN jobs :
       /\ jobs[i].decision = jobs[j].decision
       /\ jobs[j].batch <= jobs[i].batch
       => j <= i
  /\ \A i \in DOMAIN jobs : \A n \in 1 .. jobs[i].batch - 1 :
       \E j \in DOMAIN jobs : jobs[j].decision = jobs[i].decision /\ jobs[j].batch = n

\* The rows that answered some of a request when its decision was made, read off
\* the archive itself: for a keyword, any measurement that returned it, unless a
\* later ideas response took the keyword over (its owner is then outside
\* MEASURING_CAPABILITIES and the measurement is forgotten, although it is there).
AlreadyAnswered(request, decision) ==
  LET known == {r \in 1 .. decision.seen :
                  archive[r].at >= decision.at - TTL[request.capability]} IN
  IF request.capability = "volume"
  THEN {r \in known :
          /\ archive[r].request.capability # "ideas"
          /\ \E k \in request.keywords \cap archive[r].returned :
               \A m \in r + 1 .. decision.seen :
                 k \in archive[m].returned => archive[m].request.capability # "ideas"}
  ELSE {r \in known :
          /\ archive[r].request.capability = request.capability
          /\ archive[r].request.domains = request.domains
          /\ request.keywords \subseteq archive[r].request.keywords
          /\ request.depth <= archive[r].request.depth}

\* "drift here is not a display bug, it is buying data you already own"
\* (services/freshness.py:5): without --force nothing is bought that was owned when
\* it was planned, and `:vol --stale`, which skips the check, needs none.
NothingOwnedIsRebought ==
  \A i \in DOMAIN archive :
    LET decision == decisions[jobs[archive[i].job].decision] IN
    ~decision.forced => AlreadyAnswered(archive[i].request, decision) = {}

\* "The app drains continuously" (tui/commands.py:573): a job that is queued while
\* the application is open is taken up, or the application is closed.
QueueDrains ==
  \A j \in 1 .. MaxDecisions * Cardinality(Keywords) :
    Queued(j) /\ tuiOpen ~> ~Queued(j) \/ ~tuiOpen
=============================================================================
