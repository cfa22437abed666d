----------------------------- MODULE MeteredJobs -----------------------------
(***************************************************************************)
(* The job runner over fetch: JobQueue's runner claims a job, MeteredFetch *)
(* answers it, and _execute settles the job by how fetch ended.  Spending  *)
(* happens here and nowhere else (rule R5 of queue.py), so this is where   *)
(* what a job costs is decided, with the crashes of both in one place: a   *)
(* process that dies takes the runner and its call with it and leaves the  *)
(* job table and raw_response as they are.                                 *)
(***************************************************************************)
EXTENDS Integers, FiniteSets, Sequences

CONSTANTS
  \* of both modules
  Hosts, Questions,
  \* of JobQueue
  MaxAttempts, Backoff, MaxPerRun, Hosting, MaxJobs, MaxMishaps,
  \* of MeteredFetch
  Estimate, Charges, TTL, Validated, Credentialed, Ceiling, FreeConcurrency, MonthLength,
  None, MaxTime, MaxRows, MaxFaults

VARIABLES
  jobs, runner, mishaps,                                 \* JobQueue
  now, raw, call, paidLock, freeSlots, billed, faults    \* MeteredFetch

Queue == INSTANCE JobQueue WITH RowIds <- Nat

\* Each host's runner is one caller of fetch.
Fetch == INSTANCE MeteredFetch WITH
  Callers <- Hosts, HostOf <- [h \in Hosts |-> h], MaxMishaps <- MaxFaults, mishaps <- faults

ASSUME MeteredJobsAssumption == Queue!JobQueueAssumption /\ Fetch!MeteredFetchAssumption

jobVars == <<jobs, runner, mishaps>>
fetchVars == <<now, raw, call, paidLock, freeSlots, billed, faults>>

allVars == <<jobVars, fetchVars>>

-----------------------------------------------------------------------------

\* A command enqueues, or the operator cancels, or a process starts a runner.
Ask ==
  /\ \/ \E q \in Questions : Queue!Enqueue(q)
     \/ \E j \in DOMAIN jobs : Queue!Cancel(j)
     \/ \E h \in Hosts, mode \in {"drain", "watch"} : Queue!Start(h, mode)
  /\ UNCHANGED fetchVars

\* A runner between two jobs.
Loop(h) == Queue!Loop(h) /\ UNCHANGED fetchVars

\* _execute awaits fetch for the job it claimed; never with force.
Execute(h) ==
  /\ Queue!Executing(h)
  /\ Fetch!Begin(h, jobs[runner[h].job].question, FALSE, FALSE)
  /\ UNCHANGED jobVars

\* fetch goes on, or is disturbed.
FetchMoves(h) ==
  /\ call[h].pc # "returned"
  /\ Fetch!Proceed(h) \/ Fetch!VendorAnswers(h)
  /\ UNCHANGED jobVars

\* (The second conjunct only keeps the two bounds of the model apart.)
FetchFails(h) == Fetch!Fault(h) /\ mishaps < MaxMishaps /\ UNCHANGED jobVars

\* Mutant: a call that failed with no exception left to catch counts as done.
SettleAnyway(h) ==
  /\ Fetch!Return(h) /\ Queue!Complete(h, call[h].row)

\* What _execute does with the way fetch ended: TERMINAL and RETRYABLE are its
\* lists, and what neither names leaves the job running.
Settle(h) ==
  LET outcome == call[h].outcome IN
  /\ Fetch!Return(h)
  /\ \/ outcome \in {"cached", "bought"} /\ Queue!Complete(h, call[h].row)
     \/ outcome \in {"vendor_error", "db_error"} /\ Queue!FailRetryable(h)
     \/ outcome \in {"over_ceiling", "no_credential"} /\ Queue!FailTerminal(h)
     \/ outcome = "escaped" /\ Queue!Strand(h)
     \/ outcome = "cancelled" /\ Queue!Crash(h)

\* complete or fail finds the database locked.
Strand(h) ==
  /\ Fetch!Return(h) /\ call[h].outcome \notin {"escaped", "cancelled"}
  /\ Queue!Strand(h)

Crash(h) ==
  /\ Queue!Crash(h)
  /\ \/ Fetch!Crash(h)
     \/ call[h].pc = "idle" /\ UNCHANGED fetchVars

Time ==
  \/ Queue!Tick /\ UNCHANGED fetchVars
  \/ Fetch!Tick /\ UNCHANGED jobVars

-----------------------------------------------------------------------------

Init == Queue!Init /\ Fetch!Init

Next ==
  \/ Ask \/ Time
  \/ \E h \in Hosts :
       \/ Loop(h) \/ Execute(h) \/ FetchMoves(h) \/ FetchFails(h)
       \/ Settle(h) \/ Strand(h) \/ Crash(h)

Spec == Init /\ [][Next]_allVars

\* As in JobQueue and MeteredFetch; a runner is the only task of its process here.
Works(h) == Loop(h) \/ Execute(h) \/ FetchMoves(h) \/ Settle(h)

FairSpec ==
  Spec /\ (\A h \in Hosts : WF_allVars(Works(h))) /\ WF_allVars(Queue!Tick /\ UNCHANGED fetchVars)

-----------------------------------------------------------------------------

\* A done job is answered: its row is stored and holds the answer to the very
\* question the job asked, whatever crashed, retried or was requeued on the way.
DoneIsAnswered ==
  \A j \in DOMAIN jobs : jobs[j].status = "done" =>
    /\ jobs[j].row \in DOMAIN raw
    /\ raw[jobs[j].row].question = jobs[j].question

\* However many jobs ask a question within its TTL, with one runner at a time it
\* is bought once, and once more at most per fault.
OnePurchasePerQuestion ==
  \A q \in Questions : TTL[q] > now => billed[q] <= 1 + faults

\* One runner at a time and a vendor that charges what it quoted keep the month's
\* spend under the ceiling: fetch's checks need no more than that.
CeilingHolds == Fetch!CeilingHolds

\* Every job is settled in the end, or left running, or no runner is up: fetch
\* does not keep the runner waiting for ever.
JobsSettle == Queue!JobsSettle

\* "a crash must not cause a double purchase" (test_jobs.py:4): no question is
\* billed twice within its TTL when every fault so far was a runner going down.
CrashBuysNothingTwice ==
  faults = mishaps => \A q \in Questions : TTL[q] > now => billed[q] <= 1
=============================================================================
