------------------------------ MODULE JobQueue ------------------------------
(***************************************************************************)
(* jobs/queue.py and jobs/runner.py: the job table as a queue, and the     *)
(* runner that claims a job, has fetch answer it, and settles it.  What    *)
(* fetch does is left open here: it ends with an answer, with a failure    *)
(* worth retrying, with one that is not, or with an exception the runner   *)
(* does not name.  MeteredJobs puts MeteredFetch in its place.             *)
(*                                                                         *)
(* Every operation of the queue is one SQLite transaction, so one action.  *)
(***************************************************************************)
EXTENDS Integers, Sequences

CONSTANTS
  Hosts,             \* processes that can host a JobRunner
  Questions,         \* capability + params of a job
  MaxAttempts,       \* MAX_ATTEMPTS
  Backoff,           \* BACKOFF, in ticks, by attempts already made
  MaxPerRun,         \* MAX_JOBS_PER_RUN
  Hosting,           \* what the operator sees to when a runner is started:
                     \*   exclusive: no other is up
                     \*   quiet: others may be up, and claim beside it from then
                     \*     on, but none is in the middle of a job
                     \*   free: nothing
  RowIds,            \* raw_response ids fetch may answer with
  MaxJobs,           \* bound of the model: jobs ever enqueued
  MaxMishaps         \* bound of the model: crashes and jobs left running

ASSUME JobQueueAssumption ==
  /\ MaxAttempts \in Nat \ {0} /\ MaxPerRun \in Nat \ {0}
  /\ Backoff \in [1 .. MaxAttempts -> Nat]
  /\ Hosting \in {"exclusive", "quiet", "free"}

ASSUME RowIdsAssumption == RowIds \subseteq Nat

VARIABLES
  jobs,    \* the job table, in id order
  runner,  \* each host's JobRunner
  mishaps  \* how many times a runner died or left a job running

jobVars == <<jobs, runner, mishaps>>

-----------------------------------------------------------------------------

Off == [mode |-> "off", pc |-> "none", job |-> 0, attempts |-> 0, claims |-> 0]

\* Mutant: a job that failed is still waited for.
PendingOrFailed == {j \in DOMAIN jobs : jobs[j].status \in {"queued", "running", "failed"}}

Pending == {j \in DOMAIN jobs : jobs[j].status \in {"queued", "running"}}

\* Mutant: a job with a next_attempt_at is never ready again.
ReadyFirstTime == {j \in DOMAIN jobs : jobs[j].status = "queued" /\ jobs[j].attempts = 0}

\* Mutant: the claim does not look at what the row has become.
ReadyUnfinished == {j \in Pending : jobs[j].wait = 0}

\* queued and next_attempt_at has passed.
Ready == {j \in DOMAIN jobs : jobs[j].status = "queued" /\ jobs[j].wait = 0}

Executing(h) == runner[h].pc = "executing"

\* run_once goes on to its next claim.
NextClaim(h) == runner' = [runner EXCEPT ![h].pc = "claiming", ![h].job = 0]

-----------------------------------------------------------------------------

Enqueue(q) ==
  /\ Len(jobs) < MaxJobs
  /\ jobs' = Append(jobs, [question |-> q, status |-> "queued", attempts |-> 0,
                           wait |-> 0, row |-> 0])
  /\ UNCHANGED <<runner, mishaps>>

\* Mutant: any job that is pending can be cancelled.
CancelPending(j) ==
  /\ j \in Pending
  /\ jobs' = [jobs EXCEPT ![j].status = "cancelled"]
  /\ UNCHANGED <<runner, mishaps>>

\* Only a job that has not started, whoever asks.
Cancel(j) ==
  /\ j \in DOMAIN jobs /\ jobs[j].status = "queued"
  /\ jobs' = [jobs EXCEPT ![j].status = "cancelled"]
  /\ UNCHANGED <<runner, mishaps>>

\* Mutant: recovery gives failed jobs another go.
StartRetryingFailed(h, mode) ==
  /\ runner[h].mode = "off"
  /\ Hosting = "exclusive" => \A g \in Hosts : runner[g].mode = "off"
  /\ Hosting = "quiet" => \A g \in Hosts : ~Executing(g)
  /\ jobs' = [j \in DOMAIN jobs |->
                IF jobs[j].status \in {"running", "failed"}
                THEN [jobs[j] EXCEPT !.status = "queued", !.wait = 0] ELSE jobs[j]]
  /\ runner' = [runner EXCEPT ![h] = [Off EXCEPT !.mode = mode, !.pc = "claiming"]]
  /\ UNCHANGED mishaps

\* drain and run_forever both begin with recover_orphans.  No code sets a
\* vendor_task_id, so it requeues every running job, its attempts unchanged.
Start(h, mode) ==
  /\ runner[h].mode = "off"
  /\ Hosting = "exclusive" => \A g \in Hosts : runner[g].mode = "off"
  /\ Hosting = "quiet" => \A g \in Hosts : ~Executing(g)
  /\ jobs' = [j \in DOMAIN jobs |->
                IF jobs[j].status = "running"
                THEN [jobs[j] EXCEPT !.status = "queued", !.wait = 0] ELSE jobs[j]]
  /\ runner' = [runner EXCEPT ![h] = [Off EXCEPT !.mode = mode, !.pc = "claiming"]]
  /\ UNCHANGED mishaps

\* The oldest ready job, marked and counted in one statement.
Claim(h) ==
  /\ runner[h].pc = "claiming" /\ runner[h].claims < MaxPerRun
  /\ \E j \in Ready :
       /\ \A i \in Ready : j <= i
       /\ jobs' = [jobs EXCEPT ![j].status = "running", ![j].attempts = @ + 1]
       /\ runner' = [runner EXCEPT ![h].pc = "executing", ![h].job = j,
                                   ![h].attempts = jobs[j].attempts + 1,
                                   ![h].claims = @ + 1]
  /\ UNCHANGED mishaps

\* run_once returns: nothing is ready, or its bound on claims is reached.
RunEnds(h) ==
  /\ runner[h].pc = "claiming"
  /\ runner[h].claims = MaxPerRun \/ Ready = {}
  /\ runner' = [runner EXCEPT ![h].pc = IF runner[h].mode = "drain" THEN "counting" ELSE "asleep"]
  /\ UNCHANGED <<jobs, mishaps>>

\* drain asks for pending_count: stop, go round again, or sleep a poll first.
Count(h) ==
  /\ runner[h].pc = "counting"
  /\ \/ Pending = {} /\ runner' = [runner EXCEPT ![h] = Off]
     \/ /\ Pending # {} /\ runner[h].claims > 0
        /\ runner' = [runner EXCEPT ![h].pc = "claiming", ![h].claims = 0]
     \/ /\ Pending # {} /\ runner[h].claims = 0
        /\ runner' = [runner EXCEPT ![h].pc = "asleep"]
  /\ UNCHANGED <<jobs, mishaps>>

Wake(h) ==
  /\ runner[h].pc = "asleep"
  /\ runner' = [runner EXCEPT ![h].pc = "claiming", ![h].claims = 0]
  /\ UNCHANGED <<jobs, mishaps>>

\* complete: by job id alone, whatever the row's status has become.
Complete(h, row) ==
  /\ Executing(h)
  /\ jobs' = [jobs EXCEPT ![runner[h].job].status = "done", ![runner[h].job].row = row]
  /\ NextClaim(h)
  /\ UNCHANGED mishaps

\* fail, retryable = False.
FailTerminal(h) ==
  /\ Executing(h)
  /\ jobs' = [jobs EXCEPT ![runner[h].job].status = "failed"]
  /\ NextClaim(h)
  /\ UNCHANGED mishaps

\* Mutant: one attempt too many.
FailRetryableOnceMore(h) ==
  LET j == runner[h].job  made == runner[h].attempts IN
  /\ Executing(h)
  /\ jobs' = IF made <= MaxAttempts
             THEN [jobs EXCEPT ![j].status = "queued", ![j].wait = Backoff[made]]
             ELSE [jobs EXCEPT ![j].status = "failed"]
  /\ NextClaim(h)
  /\ UNCHANGED mishaps

\* fail, retryable = True: decided on the attempts of the claimed snapshot.
FailRetryable(h) ==
  LET j == runner[h].job  made == runner[h].attempts IN
  /\ Executing(h)
  /\ jobs' = IF made < MaxAttempts
             THEN [jobs EXCEPT ![j].status = "queued", ![j].wait = Backoff[made]]
             ELSE [jobs EXCEPT ![j].status = "failed"]
  /\ NextClaim(h)
  /\ UNCHANGED mishaps

\* An exception _execute does not name, or `database is locked` from complete or
\* fail: run_once counts a failure and goes on, and the row still says running.
Strand(h) ==
  /\ Executing(h) /\ mishaps < MaxMishaps
  /\ mishaps' = mishaps + 1
  /\ NextClaim(h)
  /\ UNCHANGED jobs

\* The process dies or is stopped, or an error from claim ends it.
Crash(h) ==
  /\ runner[h].mode # "off" /\ mishaps < MaxMishaps
  /\ mishaps' = mishaps + 1
  /\ runner' = [runner EXCEPT ![h] = Off]
  /\ UNCHANGED jobs

\* A tick of backoff elapses.
Tick ==
  LET backingOff == {j \in DOMAIN jobs : jobs[j].status = "queued" /\ jobs[j].wait > 0} IN
  /\ backingOff # {}
  /\ jobs' = [j \in DOMAIN jobs |->
                IF j \in backingOff THEN [jobs[j] EXCEPT !.wait = @ - 1] ELSE jobs[j]]
  /\ UNCHANGED <<runner, mishaps>>

-----------------------------------------------------------------------------

Init ==
  /\ jobs = <<>>
  /\ runner = [h \in Hosts |-> Off]
  /\ mishaps = 0

\* What a runner that is up does by itself.
Loop(h) == Claim(h) \/ RunEnds(h) \/ Count(h) \/ Wake(h)

Settle(h) ==
  (\E row \in RowIds : Complete(h, row)) \/ FailTerminal(h) \/ FailRetryable(h)

Next ==
  \/ \E q \in Questions : Enqueue(q)
  \/ \E j \in DOMAIN jobs : Cancel(j)
  \/ \E h \in Hosts :
       \/ \E mode \in {"drain", "watch"} : Start(h, mode)
       \/ Loop(h) \/ Settle(h) \/ Strand(h) \/ Crash(h)
  \/ Tick

Spec == Init /\ [][Next]_jobVars

\* A runner's loop has no wait but its poll; fetch returns (MeteredFetch's
\* EveryCallReturns); time passes.
Fairness == (\A h \in Hosts : WF_jobVars(Loop(h)) /\ WF_jobVars(Settle(h))) /\ WF_jobVars(Tick)

FairSpec == Spec /\ Fairness

-----------------------------------------------------------------------------

Job == [question : Questions, status : {"queued", "running", "done", "failed", "cancelled"},
        attempts : Nat, wait : Nat, row : Nat]

Runner == [mode : {"off", "drain", "watch"},
           pc : {"none", "claiming", "executing", "counting", "asleep"},
           job : Nat, attempts : Nat, claims : Nat]

TypeOK ==
  /\ jobs \in Seq(Job)
  /\ runner \in [Hosts -> Runner]
  /\ mishaps \in Nat

Terminal == {"done", "failed", "cancelled"}

\* Running, and no runner is working on it.
Stranded ==
  {j \in DOMAIN jobs : jobs[j].status = "running"
                      /\ \A h \in Hosts : ~(Executing(h) /\ runner[h].job = j)}

\* "hosting two runners by accident duplicates no work" (queue.py:7): no job is
\* in the hands of two runners at once, however many claim from the table side by
\* side, requeue, cancel and crash.  That takes quiet hosting: recover_orphans
\* requeues what a runner that is up has in hand.
NoDuplicateWork ==
  \A g, h \in Hosts : Executing(g) /\ Executing(h) /\ runner[g].job = runner[h].job => g = h

\* The snapshot a runner settles by is still what the table says of the job:
\* complete and fail check neither, so they would write over anything.
SnapshotCurrent ==
  \A h \in Hosts : Executing(h) =>
    /\ runner[h].job \in DOMAIN jobs
    /\ jobs[runner[h].job].status = "running"
    /\ jobs[runner[h].job].attempts = runner[h].attempts

\* Attempts are bounded by MAX_ATTEMPTS, plus one for each time a runner died or
\* left a job running: recover_orphans gives such a job another attempt.
AttemptsBounded == \A j \in DOMAIN jobs : jobs[j].attempts <= MaxAttempts + mishaps

\* A settled job stays as it was settled: no late complete, retry or recovery
\* moves it.
SettledForGood ==
  [][\A j \in DOMAIN jobs : jobs[j].status \in Terminal => jobs'[j] = jobs[j]]_jobVars

\* While a runner is up, every job comes to an end, unless it was left running
\* with nobody working on it: those wait for the next start.
JobsSettle ==
  \A j \in 1 .. MaxJobs :
    j \in Pending ~> \/ j \notin Pending \/ j \in Stranded
                     \/ \A h \in Hosts : runner[h].mode = "off"

\* "a run should end rather than idle" (runner.py:145): drain returns.  It does
\* not while a stranded job is pending, since pending_count counts it.
DrainEnds ==
  \A h \in Hosts : runner[h].mode = "drain" ~> runner[h].mode # "drain" \/ Stranded # {}
=============================================================================
