--------------------------- MODULE JobQueue_proofs ---------------------------
(***************************************************************************)
(* What the queue gives any number of runners that claim from it side by   *)
(* side, as long as none is started while another has a job in hand: no    *)
(* job is in two hands, a runner settles by a current snapshot, attempts   *)
(* stay within their budget and a settled job is left alone, for any       *)
(* number of hosts, jobs, attempts and crashes.                            *)
(***************************************************************************)
EXTENDS JobQueue, TLAPS

On(h) == runner[h].mode # "off"

\* Only a runner that is up does anything, and what it works on is a job of the table
\* that claim has counted.
InHand ==
  \A h \in Hosts :
    /\ runner[h].pc # "none" => On(h)
    /\ Executing(h) => runner[h].job \in DOMAIN jobs /\ runner[h].attempts >= 1

\* AttemptsBounded is not inductive: a job that can be claimed again, now or
\* after a recovery, must have an attempt to spare.
AttemptsToSpare ==
  \A j \in DOMAIN jobs :
    jobs[j].status = "queued" \/ j \in Stranded => jobs[j].attempts + 1 <= MaxAttempts + mishaps

IInv == TypeOK /\ InHand /\ NoDuplicateWork /\ SnapshotCurrent /\ AttemptsBounded /\ AttemptsToSpare

-----------------------------------------------------------------------------

LEMMA InitEstablishes == Init => IInv
<1> SUFFICES ASSUME Init PROVE IInv
  OBVIOUS
<1>1. TypeOK
  <2>1. Off \in Runner
    BY DEF Off, Runner
  <2>2. runner \in [Hosts -> Runner]
    BY <2>1 DEF Init
  <2> QED
    BY <2>2 DEF Init, TypeOK
<1>2. \A h \in Hosts : runner[h].mode = "off" /\ runner[h].pc = "none" /\ ~Executing(h)
  BY DEF Init, Off, Executing
<1>3. InHand /\ NoDuplicateWork /\ SnapshotCurrent
  BY <1>2 DEF NoDuplicateWork, InHand, On, SnapshotCurrent
<1>4. AttemptsBounded /\ AttemptsToSpare
  BY DEF Init, AttemptsBounded, AttemptsToSpare
<1> QED
  BY <1>1, <1>3, <1>4 DEF IInv

\* An UPDATE that leaves every row a job leaves the table a table.
LEMMA TableUpdated ==
  ASSUME jobs \in Seq(Job), NEW f, f = [j \in DOMAIN jobs |-> f[j]],
         \A j \in DOMAIN jobs : f[j] \in Job
  PROVE  f \in Seq(Job)
<1>1. PICK n \in Nat : DOMAIN jobs = 1 .. n
  <2>1. Len(jobs) \in Nat /\ DOMAIN jobs = 1 .. Len(jobs)
    OBVIOUS
  <2> QED
    BY <2>1
<1>2. f \in [1 .. n -> Job]
  BY <1>1
<1> QED
  BY <1>1, <1>2

LEMMA TypeStep == TypeOK /\ InHand /\ [Next]_jobVars => TypeOK'
<1> SUFFICES ASSUME TypeOK, InHand, [Next]_jobVars PROVE TypeOK'
  OBVIOUS
<1> USE JobQueueAssumption
<1>t. jobs \in Seq(Job) /\ runner \in [Hosts -> Runner] /\ mishaps \in Nat
  BY DEF TypeOK
<1>j. \A j \in DOMAIN jobs : jobs[j] \in Job
  BY <1>t
<1>1. ASSUME NEW q \in Questions, Enqueue(q) PROVE TypeOK'
  <2>1. [question |-> q, status |-> "queued", attempts |-> 0, wait |-> 0, row |-> 0] \in Job
    BY DEF Job
  <2>2. jobs' \in Seq(Job)
    BY <1>t, <1>1, <2>1 DEF Enqueue
  <2> QED
    BY <1>t, <1>1, <2>2 DEF Enqueue, TypeOK
<1>2. ASSUME NEW j \in DOMAIN jobs, Cancel(j) PROVE TypeOK'
  <2>1. [jobs[j] EXCEPT !.status = "cancelled"] \in Job
    BY <1>j DEF Job
  <2>2. jobs' \in Seq(Job)
    BY <1>t, <1>j, <1>2, <2>1, TableUpdated DEF Cancel
  <2> QED
    BY <1>t, <1>2, <2>2 DEF Cancel, TypeOK
<1>3. ASSUME NEW h \in Hosts, NEW mode \in {"drain", "watch"}, Start(h, mode) PROVE TypeOK'
  <2>1. \A j \in DOMAIN jobs : [jobs[j] EXCEPT !.status = "queued", !.wait = 0] \in Job
    BY <1>j DEF Job
  <2>2. jobs' \in Seq(Job)
    BY <1>t, <1>j, <1>3, <2>1, TableUpdated DEF Start
  <2>3. [Off EXCEPT !.mode = mode, !.pc = "claiming"] \in Runner
    BY DEF Off, Runner
  <2>4. runner' \in [Hosts -> Runner]
    BY <1>t, <1>3, <2>3 DEF Start
  <2> QED
    BY <1>t, <1>3, <2>2, <2>4 DEF Start, TypeOK
<1>4. ASSUME NEW h \in Hosts, Claim(h) PROVE TypeOK'
  <2>1. PICK j \in Ready :
          /\ jobs' = [jobs EXCEPT ![j].status = "running", ![j].attempts = @ + 1]
          /\ runner' = [runner EXCEPT ![h].pc = "executing", ![h].job = j,
                                      ![h].attempts = jobs[j].attempts + 1,
                                      ![h].claims = @ + 1]
    BY <1>4 DEF Claim
  <2>2. j \in DOMAIN jobs /\ j \in Nat
    BY <1>t DEF Ready
  <2>3. [jobs[j] EXCEPT !.status = "running", !.attempts = @ + 1] \in Job
    <3>1. jobs[j].attempts + 1 \in Nat
      BY <1>j, <2>2 DEF Job
    <3>2. \A a \in Nat : [jobs[j] EXCEPT !.status = "running", !.attempts = a] \in Job
      BY <1>j, <2>2 DEF Job
    <3> QED
      BY <3>1, <3>2
  <2>4. jobs' \in Seq(Job)
    BY <1>t, <1>j, <2>1, <2>2, <2>3, TableUpdated
  <2>5. jobs[j].attempts \in Nat
    BY <1>j, <2>2 DEF Job
  <2>6. [runner[h] EXCEPT !.pc = "executing", !.job = j, !.attempts = jobs[j].attempts + 1,
                          !.claims = @ + 1] \in Runner
    <3>1. jobs[j].attempts + 1 \in Nat /\ runner[h].claims + 1 \in Nat
      BY <1>t, <2>5 DEF Runner
    <3>2. \A a, c \in Nat :
            [runner[h] EXCEPT !.pc = "executing", !.job = j, !.attempts = a, !.claims = c]
              \in Runner
      BY <1>t, <2>2 DEF Runner
    <3> QED
      BY <3>1, <3>2
  <2>7. runner' \in [Hosts -> Runner]
    BY <1>t, <2>1, <2>6
  <2> QED
    BY <1>t, <1>4, <2>4, <2>7 DEF Claim, TypeOK
<1>5. ASSUME NEW h \in Hosts, RunEnds(h) \/ Count(h) \/ Wake(h) PROVE TypeOK'
  <2>1. \A p \in {"claiming", "counting", "asleep"} :
           /\ [runner[h] EXCEPT !.pc = p] \in Runner
           /\ [runner[h] EXCEPT !.pc = p, !.claims = 0] \in Runner
    BY <1>t DEF Runner
  <2>2. Off \in Runner
    BY DEF Off, Runner
  <2>3. runner' \in [Hosts -> Runner]
    BY <1>t, <1>5, <2>1, <2>2 DEF RunEnds, Count, Wake
  <2> QED
    BY <1>t, <1>5, <2>3 DEF RunEnds, Count, Wake, TypeOK
<1>6. ASSUME NEW h \in Hosts, NEW row \in Nat, Complete(h, row) \/ FailTerminal(h)
      PROVE  TypeOK'
  <2> DEFINE k == runner[h].job
  <2>1. k \in DOMAIN jobs
    BY <1>6 DEF Complete, FailTerminal, InHand
  <2>2. /\ [jobs[k] EXCEPT !.status = "done", !.row = row] \in Job
        /\ [jobs[k] EXCEPT !.status = "failed"] \in Job
    BY <1>j, <2>1 DEF Job
  <2>3. jobs' \in Seq(Job)
    BY <1>t, <1>j, <1>6, <2>1, <2>2, TableUpdated DEF Complete, FailTerminal
  <2>4. [runner[h] EXCEPT !.pc = "claiming", !.job = 0] \in Runner
    BY <1>t DEF Runner
  <2>5. runner' \in [Hosts -> Runner]
    BY <1>t, <1>6, <2>4 DEF Complete, FailTerminal, NextClaim
  <2> QED
    BY <1>t, <1>6, <2>3, <2>5 DEF Complete, FailTerminal, TypeOK
<1>7. ASSUME NEW h \in Hosts, FailRetryable(h) PROVE TypeOK'
  <2> DEFINE k == runner[h].job
             made == runner[h].attempts
  <2>1. k \in DOMAIN jobs /\ made >= 1 /\ made \in Nat
    BY <1>t, <1>7 DEF FailRetryable, InHand, Runner
  <2>2. made < MaxAttempts => Backoff[made] \in Nat
    BY <2>1
  <2>3. /\ made < MaxAttempts =>
             [jobs[k] EXCEPT !.status = "queued", !.wait = Backoff[made]] \in Job
        /\ [jobs[k] EXCEPT !.status = "failed"] \in Job
    BY <1>j, <2>1, <2>2 DEF Job
  <2>4. jobs' \in Seq(Job)
    <3>1. CASE made < MaxAttempts
      BY <1>t, <1>j, <1>7, <2>1, <2>3, <3>1, TableUpdated DEF FailRetryable
    <3>2. CASE ~(made < MaxAttempts)
      BY <1>t, <1>j, <1>7, <2>1, <2>3, <3>2, TableUpdated DEF FailRetryable
    <3> QED
      BY <3>1, <3>2
  <2>5. [runner[h] EXCEPT !.pc = "claiming", !.job = 0] \in Runner
    BY <1>t DEF Runner
  <2>6. runner' \in [Hosts -> Runner]
    BY <1>t, <1>7, <2>5 DEF FailRetryable, NextClaim
  <2> QED
    BY <1>t, <1>7, <2>4, <2>6 DEF FailRetryable, TypeOK
<1>8. ASSUME NEW h \in Hosts, Strand(h) \/ Crash(h) PROVE TypeOK'
  <2>1. [runner[h] EXCEPT !.pc = "claiming", !.job = 0] \in Runner /\ Off \in Runner
    BY <1>t DEF Off, Runner
  <2>2. runner' \in [Hosts -> Runner]
    BY <1>t, <1>8, <2>1 DEF Strand, Crash, NextClaim
  <2> QED
    BY <1>t, <1>8, <2>2 DEF Strand, Crash, TypeOK
<1>9. ASSUME Tick PROVE TypeOK'
  <2>1. \A j \in DOMAIN jobs : jobs[j].wait > 0 => [jobs[j] EXCEPT !.wait = @ - 1] \in Job
    BY <1>j DEF Job
  <2>2. jobs' \in Seq(Job)
    BY <1>t, <1>j, <1>9, <2>1, TableUpdated DEF Tick
  <2> QED
    BY <1>t, <1>9, <2>2 DEF Tick, TypeOK
<1>10. ASSUME UNCHANGED jobVars PROVE TypeOK'
  BY <1>t, <1>10 DEF jobVars, TypeOK
<1>11. ASSUME NEW h \in Hosts, Settle(h) PROVE TypeOK'
  <2>1. \/ \E row \in Nat : Complete(h, row) \/ FailTerminal(h)
        \/ FailRetryable(h)
    BY <1>11, RowIdsAssumption DEF Settle
  <2> QED
    BY <1>6, <1>7, <2>1
<1> QED
  BY <1>1, <1>2, <1>3, <1>4, <1>5, <1>8, <1>9, <1>10, <1>11 DEF Next, Loop

\* Nothing deletes a job or changes what it asks, and only claim puts one in hand.
LEMMA JobsKept ==
  ASSUME TypeOK, InHand, [Next]_jobVars
  PROVE  \A j \in DOMAIN jobs : j \in DOMAIN jobs' /\ jobs'[j].question = jobs[j].question
<1> SUFFICES ASSUME NEW j \in DOMAIN jobs
             PROVE  j \in DOMAIN jobs' /\ jobs'[j].question = jobs[j].question
  OBVIOUS
<1>t. jobs \in Seq(Job) /\ \A i \in DOMAIN jobs : jobs[i] \in Job
  BY DEF TypeOK
<1>1. ASSUME NEW q \in Questions, Enqueue(q) PROVE jobs'[j] = jobs[j] /\ j \in DOMAIN jobs'
  BY <1>t, <1>1 DEF Enqueue
<1>2. CASE \E i \in DOMAIN jobs : Cancel(i)
  BY <1>t, <1>2 DEF Cancel, Job
<1>3. CASE \E h \in Hosts, mode \in {"drain", "watch"} : Start(h, mode)
  <2>1. DOMAIN jobs' = DOMAIN jobs
    BY <1>3 DEF Start
  <2>2. jobs'[j] \in {jobs[j], [jobs[j] EXCEPT !.status = "queued", !.wait = 0]}
    BY <1>3 DEF Start
  <2> QED BY <1>t, <2>1, <2>2 DEF Job
<1>4. ASSUME NEW h \in Hosts, Claim(h)
      PROVE  jobs'[j].question = jobs[j].question /\ j \in DOMAIN jobs'
  BY <1>t, <1>4 DEF Claim, Ready, Job
<1>5. ASSUME NEW k \in DOMAIN jobs, NEW s, NEW w, NEW r,
             \/ jobs' = [jobs EXCEPT ![k].status = s]
             \/ jobs' = [jobs EXCEPT ![k].status = s, ![k].wait = w]
             \/ jobs' = [jobs EXCEPT ![k].status = s, ![k].row = r]
      PROVE  jobs'[j].question = jobs[j].question /\ j \in DOMAIN jobs'
  <2>1. DOMAIN jobs' = DOMAIN jobs /\ (j # k => jobs'[j] = jobs[j])
    BY <1>5
  <2>2. jobs'[k] \in {[jobs[k] EXCEPT !.status = s], [jobs[k] EXCEPT !.status = s, !.wait = w],
                      [jobs[k] EXCEPT !.status = s, !.row = r]}
    BY <1>5
  <2> QED BY <1>t, <2>1, <2>2 DEF Job
<1>6. ASSUME NEW h \in Hosts,
             (\E row \in RowIds : Complete(h, row)) \/ FailTerminal(h) \/ FailRetryable(h)
      PROVE  jobs'[j].question = jobs[j].question /\ j \in DOMAIN jobs'
  <2>1. runner[h].job \in DOMAIN jobs
    BY <1>6 DEF Complete, FailTerminal, FailRetryable, InHand
  <2> PICK k \in DOMAIN jobs : k = runner[h].job
    BY <2>1
  <2>2. CASE \E row \in RowIds : Complete(h, row)
    <3> PICK row \in RowIds : jobs' = [jobs EXCEPT ![k].status = "done", ![k].row = row]
      BY <2>2 DEF Complete
    <3> QED BY <1>5
  <2>3. CASE FailTerminal(h) \/ FailRetryable(h)
    <3> PICK w : w = Backoff[runner[h].attempts]
      OBVIOUS
    <3>1. \/ jobs' = [jobs EXCEPT ![k].status = "queued", ![k].wait = w]
          \/ jobs' = [jobs EXCEPT ![k].status = "failed"]
      BY <2>3 DEF FailTerminal, FailRetryable
    <3>2. CASE jobs' = [jobs EXCEPT ![k].status = "queued", ![k].wait = w]
      BY <1>5, <3>2
    <3>3. CASE jobs' = [jobs EXCEPT ![k].status = "failed"]
      BY <1>5, <3>3
    <3> QED BY <3>1, <3>2, <3>3
  <2> QED BY <1>6, <2>2, <2>3
<1>7. CASE Tick
  BY <1>t, <1>7 DEF Tick, Job
<1>8. CASE jobs' = jobs
  BY <1>8
<1> QED
  BY <1>1, <1>2, <1>3, <1>4, <1>6, <1>7, <1>8
     DEF Next, Loop, Settle, RunEnds, Count, Wake, Strand, Crash, jobVars

\* complete is the one way to be done, and gives the job its row.
LEMMA Completed ==
  ASSUME TypeOK, InHand, NEW h \in Hosts, NEW row, Complete(h, row)
  PROVE  /\ DOMAIN jobs' = DOMAIN jobs /\ runner[h].job \in DOMAIN jobs
         /\ \A j \in DOMAIN jobs : j # runner[h].job => jobs'[j] = jobs[j]
         /\ jobs'[runner[h].job].row = row
         /\ jobs'[runner[h].job].question = jobs[runner[h].job].question
<1>1. runner[h].job \in DOMAIN jobs /\ \A j \in DOMAIN jobs : jobs[j] \in Job
  BY DEF Complete, InHand, TypeOK
<1> PICK k \in DOMAIN jobs : k = runner[h].job
  BY <1>1
<1>2. jobs' = [jobs EXCEPT ![k].status = "done", ![k].row = row]
  BY DEF Complete
<1>3. jobs'[k] = [jobs[k] EXCEPT !.status = "done", !.row = row]
  BY <1>2
<1> QED BY <1>1, <1>2, <1>3 DEF Job

LEMMA NothingElseIsDone ==
  ASSUME TypeOK, InHand,
         \/ \E q \in Questions : Enqueue(q)
         \/ \E j \in DOMAIN jobs : Cancel(j)
         \/ \E h \in Hosts, mode \in {"drain", "watch"} : Start(h, mode)
         \/ \E h \in Hosts : Loop(h) \/ FailTerminal(h) \/ FailRetryable(h) \/ Strand(h) \/ Crash(h)
         \/ Tick \/ UNCHANGED jobVars
  PROVE  \A j \in DOMAIN jobs' : jobs'[j].status = "done" =>
           j \in DOMAIN jobs /\ jobs[j].status = "done" /\ jobs'[j].row = jobs[j].row
<1> SUFFICES ASSUME NEW j \in DOMAIN jobs', jobs'[j].status = "done"
             PROVE  j \in DOMAIN jobs /\ jobs[j].status = "done" /\ jobs'[j].row = jobs[j].row
  OBVIOUS
<1>t. jobs \in Seq(Job) /\ \A i \in DOMAIN jobs : jobs[i] \in Job
  BY DEF TypeOK
<1>1. ASSUME NEW q \in Questions, Enqueue(q) PROVE j \in DOMAIN jobs /\ jobs'[j] = jobs[j]
  <2> DEFINE new == [question |-> q, status |-> "queued", attempts |-> 0, wait |-> 0, row |-> 0]
  <2>1. jobs' = Append(jobs, new) /\ new.status = "queued"
    BY <1>1 DEF Enqueue
  <2> HIDE DEF new
  <2> QED BY <1>t, <2>1
<1>2. ASSUME NEW k \in DOMAIN jobs, NEW s \in {"cancelled", "failed", "queued"}, NEW w,
             \/ jobs' = [jobs EXCEPT ![k].status = s]
             \/ jobs' = [jobs EXCEPT ![k].status = s, ![k].wait = w]
      PROVE  j \in DOMAIN jobs /\ jobs'[j] = jobs[j]
  <2>1. DOMAIN jobs' = DOMAIN jobs /\ (j # k => jobs'[j] = jobs[j])
    BY <1>2
  <2>2. jobs'[k] \in {[jobs[k] EXCEPT !.status = s], [jobs[k] EXCEPT !.status = s, !.wait = w]}
    BY <1>2
  <2> QED BY <1>t, <2>1, <2>2 DEF Job
<1>3. ASSUME NEW i \in DOMAIN jobs, Cancel(i) PROVE j \in DOMAIN jobs /\ jobs'[j] = jobs[j]
  BY <1>2, <1>3 DEF Cancel
<1>4. ASSUME NEW h \in Hosts, NEW mode \in {"drain", "watch"}, Start(h, mode)
      PROVE  j \in DOMAIN jobs /\ jobs'[j] = jobs[j]
  <2>1. DOMAIN jobs' = DOMAIN jobs
    BY <1>4 DEF Start
  <2>2. jobs'[j] \in {jobs[j], [jobs[j] EXCEPT !.status = "queued", !.wait = 0]}
    BY <1>4, <2>1 DEF Start
  <2> QED BY <1>t, <2>1, <2>2 DEF Job
<1>5. ASSUME NEW h \in Hosts, Claim(h) PROVE j \in DOMAIN jobs /\ jobs'[j] = jobs[j]
  <2>1. PICK i \in DOMAIN jobs :
             jobs' = [jobs EXCEPT ![i].status = "running", ![i].attempts = @ + 1]
    BY <1>5 DEF Claim, Ready
  <2>2. jobs'[i].status = "running" /\ DOMAIN jobs' = DOMAIN jobs
        /\ (j # i => jobs'[j] = jobs[j])
    BY <1>t, <2>1 DEF Job
  <2> QED BY <2>2
<1>6. ASSUME NEW h \in Hosts, FailTerminal(h) \/ FailRetryable(h)
      PROVE  j \in DOMAIN jobs /\ jobs'[j] = jobs[j]
  <2> PICK k \in DOMAIN jobs : k = runner[h].job
    BY <1>6 DEF FailTerminal, FailRetryable, InHand
  <2> PICK w : w = Backoff[runner[h].attempts]
    OBVIOUS
  <2>1. \/ jobs' = [jobs EXCEPT ![k].status = "queued", ![k].wait = w]
        \/ jobs' = [jobs EXCEPT ![k].status = "failed"]
    BY <1>6 DEF FailTerminal, FailRetryable
  <2>2. CASE jobs' = [jobs EXCEPT ![k].status = "queued", ![k].wait = w]
    BY <1>2, <2>2
  <2>3. CASE jobs' = [jobs EXCEPT ![k].status = "failed"]
    BY <1>2, <2>3
  <2> QED BY <2>1, <2>2, <2>3
<1>7. CASE Tick
  <2>1. DOMAIN jobs' = DOMAIN jobs
    BY <1>7 DEF Tick
  <2>2. jobs'[j] \in {jobs[j], [jobs[j] EXCEPT !.wait = @ - 1]}
    BY <1>7, <2>1 DEF Tick
  <2> QED BY <1>t, <2>1, <2>2 DEF Job
<1>8. CASE jobs' = jobs
  BY <1>8
<1> QED
  BY <1>1, <1>3, <1>4, <1>5, <1>6, <1>7, <1>8
     DEF Loop, RunEnds, Count, Wake, Strand, Crash, jobVars

LEMMA InHandStep == TypeOK /\ InHand /\ [Next]_jobVars => InHand'
<1> SUFFICES ASSUME TypeOK, InHand, [Next]_jobVars, NEW h \in Hosts
             PROVE  /\ (runner[h].pc # "none" => On(h))'
                    /\ (Executing(h) => runner[h].job \in DOMAIN jobs /\ runner[h].attempts >= 1)'
  BY DEF InHand
<1> DEFINE Fine == /\ (runner[h].pc # "none" => On(h))'
                   /\ (Executing(h) => runner[h].job \in DOMAIN jobs /\ runner[h].attempts >= 1)'
<1>t. runner \in [Hosts -> Runner] /\ \A j \in DOMAIN jobs : jobs[j] \in Job
  BY DEF TypeOK
<1>1. CASE runner'[h] = runner[h]
  BY <1>1, JobsKept DEF InHand, On, Executing
<1>2. ASSUME NEW g \in Hosts, NEW mode \in {"drain", "watch"}, Start(g, mode),
             runner'[h] # runner[h]
      PROVE  Fine
  BY <1>t, <1>2 DEF Start, Off, Executing, On
<1>3. ASSUME NEW g \in Hosts, RunEnds(g) \/ Count(g) \/ Wake(g), runner'[h] # runner[h]
      PROVE  Fine
  BY <1>t, <1>3 DEF RunEnds, Count, Wake, Off, Executing, On, Runner, InHand
<1>4. ASSUME NEW g \in Hosts, (NextClaim(g) /\ Executing(g)) \/ Crash(g), runner'[h] # runner[h]
      PROVE  Fine
  BY <1>t, <1>4 DEF NextClaim, Crash, Off, Executing, On, Runner, InHand
<1>5. ASSUME NEW g \in Hosts, Claim(g), runner'[h] # runner[h] PROVE Fine
  <2>1. PICK j \in Ready :
          runner' = [runner EXCEPT ![g].pc = "executing", ![g].job = j,
                                   ![g].attempts = jobs[j].attempts + 1, ![g].claims = @ + 1]
    BY <1>5 DEF Claim
  <2>2. j \in DOMAIN jobs /\ jobs[j].attempts \in Nat
    BY <1>t DEF Ready, Job
  <2>3. h = g
    BY <1>t, <1>5, <2>1
  <2>4. /\ runner'[h].job = j /\ runner'[h].attempts = jobs[j].attempts + 1
        /\ runner'[h].mode = runner[h].mode /\ runner[h].pc = "claiming"
    BY <1>t, <1>5, <2>1, <2>3 DEF Runner, Claim
  <2> QED BY <2>2, <2>4, JobsKept DEF On, InHand
<1> QED
  BY <1>1, <1>2, <1>3, <1>4, <1>5
     DEF Next, Loop, Settle, Complete, FailTerminal, FailRetryable, Strand, Enqueue, Cancel,
         Tick, jobVars

-----------------------------------------------------------------------------

\* Enqueue, Cancel and the clock touch no job a runner holds and no count.
LEMMA TableStep ==
  ASSUME IInv, UNCHANGED <<runner, mishaps>>, DOMAIN jobs \subseteq DOMAIN jobs',
         \A j \in DOMAIN jobs :
           /\ jobs'[j].attempts = jobs[j].attempts
           /\ jobs'[j].status = "running" <=> jobs[j].status = "running"
           /\ jobs'[j].status = "queued" => jobs[j].status = "queued",
         \A j \in DOMAIN jobs' \ DOMAIN jobs :
           jobs'[j].attempts = 0 /\ jobs'[j].status = "queued"
  PROVE  NoDuplicateWork' /\ SnapshotCurrent' /\ AttemptsBounded' /\ AttemptsToSpare'
<1> USE JobQueueAssumption
<1>t. mishaps \in Nat
  BY DEF IInv, TypeOK
<1>1. NoDuplicateWork'
  BY DEF IInv, NoDuplicateWork, Executing
<1>2. SnapshotCurrent'
  BY DEF IInv, SnapshotCurrent, Executing
<1>3. AttemptsBounded'
  <2> SUFFICES ASSUME NEW j \in DOMAIN jobs' PROVE jobs'[j].attempts <= MaxAttempts + mishaps
    BY DEF AttemptsBounded
  <2> QED
    BY <1>t DEF IInv, AttemptsBounded
<1>4. AttemptsToSpare'
  <2> SUFFICES ASSUME NEW j \in DOMAIN jobs', jobs'[j].status = "queued" \/ j \in Stranded'
               PROVE  jobs'[j].attempts + 1 <= MaxAttempts + mishaps
    BY DEF AttemptsToSpare
  <2>1. CASE j \in DOMAIN jobs
    <3>1. jobs[j].status = "queued" \/ j \in Stranded
      BY <2>1 DEF Stranded, Executing
    <3> QED
      BY <2>1, <3>1 DEF IInv, AttemptsToSpare
  <2>2. CASE j \notin DOMAIN jobs
    BY <1>t, <2>2
  <2> QED
    BY <2>1, <2>2
<1> QED
  BY <1>1, <1>2, <1>3, <1>4

\* A runner that lets go of its job, and touches no other, disturbs no other hand.
LEMMA HandsKept ==
  ASSUME IInv, NEW h \in Hosts, ~Executing(h)',
         \A g \in Hosts \ {h} : runner'[g] = runner[g],
         DOMAIN jobs' = DOMAIN jobs,
         \A j \in DOMAIN jobs : (Executing(h) /\ runner[h].job = j) \/ jobs'[j] = jobs[j]
  PROVE  NoDuplicateWork' /\ SnapshotCurrent'
<1>1. \A g \in Hosts : Executing(g)' =>
        /\ g # h /\ Executing(g) /\ runner'[g] = runner[g]
        /\ runner[g].job \in DOMAIN jobs /\ jobs'[runner[g].job] = jobs[runner[g].job]
  BY DEF Executing, IInv, InHand, NoDuplicateWork
<1>2. NoDuplicateWork'
  BY <1>1 DEF IInv, NoDuplicateWork
<1>3. SnapshotCurrent'
  BY <1>1 DEF IInv, SnapshotCurrent
<1> QED
  BY <1>2, <1>3

\* However hosting keeps it so, nobody has a job in hand when a runner starts: all
\* that runs is stranded, and is what recovery is for.
LEMMA StartStep ==
  ASSUME IInv, Hosting # "free", NEW h \in Hosts, NEW mode \in {"drain", "watch"}, Start(h, mode)
  PROVE  NoDuplicateWork' /\ SnapshotCurrent' /\ AttemptsBounded' /\ AttemptsToSpare'
<1>t. runner \in [Hosts -> Runner] /\ mishaps' = mishaps /\ DOMAIN jobs' = DOMAIN jobs
  BY DEF IInv, TypeOK, Start
<1>1. \A g \in Hosts : ~Executing(g)
  <2>1. CASE Hosting = "quiet"
    BY <2>1, Zenon DEF Start
  <2>2. CASE Hosting = "exclusive"
    <3>1. \A g \in Hosts : runner[g].mode = "off"
      BY <2>2, Zenon DEF Start
    <3> QED
      BY <3>1 DEF On, Executing, IInv, InHand
  <2> QED
    BY <2>1, <2>2, JobQueueAssumption
<1>2. \A g \in Hosts : ~Executing(g)'
  <2>1. runner'[h].pc = "claiming"
    BY <1>t DEF Start, Off
  <2>2. \A g \in Hosts \ {h} : runner'[g] = runner[g]
    BY <1>t DEF Start
  <2> QED
    BY <1>1, <2>1, <2>2 DEF Executing
<1>3. \A j \in DOMAIN jobs :
        /\ jobs'[j].attempts = jobs[j].attempts
        /\ jobs'[j].status # "running"
        /\ jobs'[j].status = "queued" => jobs[j].status \in {"queued", "running"}
  <2>1. \A j \in DOMAIN jobs : jobs[j] \in Job
    BY DEF IInv, TypeOK
  <2> QED
    BY <2>1 DEF Start, Job
<1>4. \A j \in DOMAIN jobs : jobs[j].status = "running" => j \in Stranded
  BY <1>1 DEF Stranded
<1>5. AttemptsToSpare'
  <2> SUFFICES ASSUME NEW j \in DOMAIN jobs', jobs'[j].status = "queued" \/ j \in Stranded'
               PROVE  jobs'[j].attempts + 1 <= MaxAttempts + mishaps
    BY <1>t DEF AttemptsToSpare
  <2>1. j \notin Stranded'
    BY <1>t, <1>3 DEF Stranded
  <2> QED
    BY <1>t, <1>3, <1>4, <2>1 DEF IInv, AttemptsToSpare
<1>6. AttemptsBounded'
  BY <1>t, <1>3 DEF IInv, AttemptsBounded
<1> QED
  BY <1>2, <1>5, <1>6 DEF NoDuplicateWork, SnapshotCurrent

\* What others have in hand is running, so it is not what is claimed.
LEMMA ClaimStep ==
  ASSUME IInv, NEW h \in Hosts, Claim(h)
  PROVE  NoDuplicateWork' /\ SnapshotCurrent' /\ AttemptsBounded' /\ AttemptsToSpare'
<1> USE JobQueueAssumption
<1>t. /\ runner \in [Hosts -> Runner] /\ mishaps' = mishaps /\ mishaps \in Nat
      /\ \A i \in DOMAIN jobs : jobs[i] \in Job
  BY DEF IInv, TypeOK, Claim
<1>1. PICK j \in Ready :
        /\ jobs' = [jobs EXCEPT ![j].status = "running", ![j].attempts = @ + 1]
        /\ runner' = [runner EXCEPT ![h].pc = "executing", ![h].job = j,
                                    ![h].attempts = jobs[j].attempts + 1,
                                    ![h].claims = @ + 1]
  BY DEF Claim
<1>2. j \in DOMAIN jobs /\ jobs[j].status = "queued" /\ jobs[j].attempts \in Nat
  BY <1>t DEF Ready, Job
<1>3. DOMAIN jobs' = DOMAIN jobs
      /\ jobs'[j].status = "running" /\ jobs'[j].attempts = jobs[j].attempts + 1
      /\ \A i \in DOMAIN jobs \ {j} : jobs'[i] = jobs[i]
  BY <1>t, <1>1, <1>2 DEF Job
<1>4. /\ runner'[h].pc = "executing" /\ runner'[h].job = j
      /\ runner'[h].attempts = jobs[j].attempts + 1
      /\ \A g \in Hosts \ {h} : runner'[g] = runner[g]
  BY <1>t, <1>1 DEF Runner
<1>5. ~Executing(h)
  BY DEF Claim, Executing
<1>6. \A g \in Hosts \ {h} : Executing(g)' =>
        /\ Executing(g) /\ runner'[g] = runner[g] /\ runner[g].job \in DOMAIN jobs
        /\ runner[g].job # j /\ jobs'[runner[g].job] = jobs[runner[g].job]
  BY <1>2, <1>3, <1>4 DEF IInv, SnapshotCurrent, Executing
<1>7. NoDuplicateWork'
  BY <1>4, <1>6 DEF IInv, NoDuplicateWork
<1>8. SnapshotCurrent'
  <2> SUFFICES ASSUME NEW g \in Hosts, Executing(g)'
               PROVE  /\ runner'[g].job \in DOMAIN jobs'
                      /\ jobs'[runner'[g].job].status = "running"
                      /\ jobs'[runner'[g].job].attempts = runner'[g].attempts
    BY DEF SnapshotCurrent
  <2>1. CASE g = h
    BY <1>2, <1>3, <1>4, <2>1
  <2>2. CASE g # h
    BY <1>3, <1>6, <2>2 DEF IInv, SnapshotCurrent
  <2> QED
    BY <2>1, <2>2
<1>9. jobs[j].attempts + 1 <= MaxAttempts + mishaps
  BY <1>2 DEF IInv, AttemptsToSpare
<1>10. AttemptsBounded'
  BY <1>t, <1>2, <1>3, <1>9 DEF IInv, AttemptsBounded
<1>11. AttemptsToSpare'
  <2> SUFFICES ASSUME NEW i \in DOMAIN jobs', jobs'[i].status = "queued" \/ i \in Stranded'
               PROVE  jobs'[i].attempts + 1 <= MaxAttempts + mishaps
    BY <1>t DEF AttemptsToSpare
  <2>1. i # j
    BY <1>3, <1>4 DEF Stranded, Executing
  <2>2. i \in DOMAIN jobs /\ jobs'[i] = jobs[i]
    BY <1>3, <2>1
  <2>3. \A g \in Hosts \ {h} : Executing(g) /\ runner[g].job = i
                             => Executing(g)' /\ runner'[g].job = i
    BY <1>4 DEF Executing
  <2>4. jobs[i].status = "queued" \/ i \in Stranded
    BY <1>5, <2>2, <2>3 DEF Stranded
  <2> QED
    BY <2>2, <2>4 DEF IInv, AttemptsToSpare
<1> QED
  BY <1>7, <1>8, <1>10, <1>11

\* Settling a job by a current snapshot leaves it done, failed or with an attempt to
\* spare, and it is the one job that is touched.
LEMMA SettleStep ==
  ASSUME IInv, NEW h \in Hosts, Settle(h)
  PROVE  NoDuplicateWork' /\ SnapshotCurrent' /\ AttemptsBounded' /\ AttemptsToSpare'
<1> USE JobQueueAssumption
<1> DEFINE k == runner[h].job
           made == runner[h].attempts
<1>t. runner \in [Hosts -> Runner] /\ mishaps \in Nat /\ \A i \in DOMAIN jobs : jobs[i] \in Job
  BY DEF IInv, TypeOK
<1>1. Executing(h) /\ NextClaim(h) /\ mishaps' = mishaps
  BY DEF Settle, Complete, FailTerminal, FailRetryable
<1>2. k \in DOMAIN jobs /\ jobs[k].status = "running" /\ jobs[k].attempts = made /\ made \in Nat
  BY <1>t, <1>1 DEF IInv, SnapshotCurrent, Runner
<1>3. ~Executing(h)' /\ \A g \in Hosts \ {h} : runner'[g] = runner[g]
  BY <1>t, <1>1 DEF NextClaim, Runner, Executing
<1>5. /\ DOMAIN jobs' = DOMAIN jobs
      /\ \A i \in DOMAIN jobs \ {k} : jobs'[i] = jobs[i]
      /\ jobs'[k].attempts = made
      /\ jobs'[k].status \in {"done", "failed", "queued"}
      /\ jobs'[k].status = "queued" => made < MaxAttempts
  <2>1. CASE \E row \in RowIds : Complete(h, row)
    BY <1>t, <1>2, <2>1 DEF Complete, Job
  <2>2. CASE FailTerminal(h)
    BY <1>t, <1>2, <2>2 DEF FailTerminal, Job
  <2>3. CASE FailRetryable(h)
    <3>1. CASE made < MaxAttempts
      <4>1. jobs' = [jobs EXCEPT ![k].status = "queued", ![k].wait = Backoff[made]]
        BY <2>3, <3>1 DEF FailRetryable
      <4> QED
        BY <1>t, <1>2, <3>1, <4>1 DEF Job
    <3>2. CASE ~(made < MaxAttempts)
      <4>1. jobs' = [jobs EXCEPT ![k].status = "failed"]
        BY <2>3, <3>2 DEF FailRetryable
      <4> QED
        BY <1>t, <1>2, <4>1 DEF Job
    <3> QED
      BY <3>1, <3>2
  <2> QED
    BY <2>1, <2>2, <2>3 DEF Settle
<1>4. NoDuplicateWork' /\ SnapshotCurrent'
  BY <1>1, <1>3, <1>5, HandsKept
<1>6. AttemptsBounded'
  BY <1>t, <1>1, <1>2, <1>5 DEF IInv, AttemptsBounded
<1>7. AttemptsToSpare'
  <2> SUFFICES ASSUME NEW i \in DOMAIN jobs', jobs'[i].status = "queued" \/ i \in Stranded'
               PROVE  jobs'[i].attempts + 1 <= MaxAttempts + mishaps
    BY <1>t, <1>1 DEF AttemptsToSpare
  <2>1. CASE i = k
    <3>1. jobs'[k].status = "queued"
      BY <1>5, <2>1 DEF Stranded
    <3> QED
      BY <1>t, <1>1, <1>2, <1>5, <2>1, <3>1
  <2>2. CASE i # k
    <3>1. i \in DOMAIN jobs /\ jobs'[i] = jobs[i]
      BY <1>5, <2>2
    <3>2. \A g \in Hosts : Executing(g) /\ runner[g].job = i
                           => Executing(g)' /\ runner'[g].job = i
      BY <1>3, <2>2 DEF Executing
    <3>3. jobs[i].status = "queued" \/ i \in Stranded
      BY <3>1, <3>2 DEF Stranded
    <3> QED
      BY <3>1, <3>3 DEF IInv, AttemptsToSpare
  <2> QED
    BY <2>1, <2>2
<1> QED
  BY <1>4, <1>6, <1>7

\* A loop step holds no job before it or after it.
LEMMA LoopStep ==
  ASSUME IInv, NEW h \in Hosts, RunEnds(h) \/ Count(h) \/ Wake(h)
  PROVE  NoDuplicateWork' /\ SnapshotCurrent' /\ AttemptsBounded' /\ AttemptsToSpare'
<1>t. runner \in [Hosts -> Runner] /\ jobs' = jobs /\ mishaps' = mishaps
  BY DEF IInv, TypeOK, RunEnds, Count, Wake
<1>1. ~Executing(h)
  BY DEF RunEnds, Count, Wake, Executing
<1>2. \A g \in Hosts \ {h} : runner'[g] = runner[g]
  BY <1>t DEF RunEnds, Count, Wake
<1>3. ~Executing(h)'
  <2>1. CASE RunEnds(h)
    BY <1>t, <2>1 DEF RunEnds, Executing, Runner
  <2>2. CASE Count(h)
    BY <1>t, <2>2 DEF Count, Off, Executing, Runner
  <2>3. CASE Wake(h)
    BY <1>t, <2>3 DEF Wake, Executing, Runner
  <2> QED
    BY <2>1, <2>2, <2>3
<1>4. NoDuplicateWork' /\ SnapshotCurrent'
  BY <1>t, <1>2, <1>3, HandsKept
<1>5. Stranded' = Stranded
  BY <1>t, <1>1, <1>2, <1>3 DEF Stranded, Executing
<1>6. AttemptsBounded' /\ AttemptsToSpare'
  BY <1>t, <1>5 DEF IInv, AttemptsBounded, AttemptsToSpare
<1> QED
  BY <1>4, <1>6

\* A mishap leaves a job running, and raises the bound by the attempt it costs.
LEMMA MishapStep ==
  ASSUME IInv, NEW h \in Hosts, Strand(h) \/ Crash(h)
  PROVE  NoDuplicateWork' /\ SnapshotCurrent' /\ AttemptsBounded' /\ AttemptsToSpare'
<1> USE JobQueueAssumption
<1>t. /\ runner \in [Hosts -> Runner] /\ jobs' = jobs /\ mishaps' = mishaps + 1
      /\ mishaps \in Nat /\ \A i \in DOMAIN jobs : jobs[i] \in Job
  BY DEF IInv, TypeOK, Strand, Crash
<1>1. \A g \in Hosts \ {h} : runner'[g] = runner[g]
  BY <1>t DEF Strand, Crash, NextClaim
<1>2. ~Executing(h)'
  <2>1. CASE Strand(h)
    BY <1>t, <2>1 DEF Strand, NextClaim, Executing, Runner
  <2>2. CASE Crash(h)
    BY <1>t, <2>2 DEF Crash, Off, Executing, Runner
  <2> QED
    BY <2>1, <2>2
<1>3. NoDuplicateWork' /\ SnapshotCurrent'
  BY <1>t, <1>1, <1>2, HandsKept
<1>4. \A i \in DOMAIN jobs : jobs[i].attempts \in Nat /\ jobs[i].attempts <= MaxAttempts + mishaps
  BY <1>t DEF IInv, AttemptsBounded, Job
<1>5. AttemptsBounded' /\ AttemptsToSpare'
  BY <1>t, <1>4 DEF AttemptsBounded, AttemptsToSpare
<1> QED
  BY <1>3, <1>5

-----------------------------------------------------------------------------

LEMMA StepPreserves == ASSUME Hosting # "free", IInv, [Next]_jobVars PROVE IInv'
<1> DEFINE Safe == NoDuplicateWork /\ SnapshotCurrent /\ AttemptsBounded /\ AttemptsToSpare
<1> SUFFICES Safe'
  BY TypeStep, InHandStep DEF IInv
<1>t. jobs \in Seq(Job) /\ \A i \in DOMAIN jobs : jobs[i] \in Job
  BY DEF IInv, TypeOK
<1>1. ASSUME NEW q \in Questions, Enqueue(q) PROVE Safe'
  <2>1. UNCHANGED <<runner, mishaps>>
    BY <1>1 DEF Enqueue
  <2> DEFINE new == [question |-> q, status |-> "queued", attempts |-> 0, wait |-> 0, row |-> 0]
  <2>2. jobs' = Append(jobs, new) /\ new \in Job
    BY <1>1 DEF Enqueue, Job
  <2>3. /\ DOMAIN jobs' = DOMAIN jobs \cup {Len(jobs) + 1}
        /\ \A j \in DOMAIN jobs : jobs'[j] = jobs[j]
        /\ jobs'[Len(jobs) + 1] = new
    BY <1>t, <2>2
  <2> HIDE DEF Safe
  <2>4. new.attempts = 0 /\ new.status = "queued"
    OBVIOUS
  <2> HIDE DEF new
  <2>5. NoDuplicateWork' /\ SnapshotCurrent' /\ AttemptsBounded' /\ AttemptsToSpare'
    BY <2>1, <2>3, <2>4, TableStep
  <2> QED
    BY <2>5 DEF Safe
<1>2. ASSUME NEW j \in DOMAIN jobs, Cancel(j) PROVE Safe'
  <2>1. UNCHANGED <<runner, mishaps>> /\ DOMAIN jobs' = DOMAIN jobs
    BY <1>2 DEF Cancel
  <2>2. \A i \in DOMAIN jobs :
          /\ jobs'[i].attempts = jobs[i].attempts
          /\ i # j => jobs'[i].status = jobs[i].status
          /\ i = j => jobs[i].status = "queued" /\ jobs'[i].status = "cancelled"
    BY <1>t, <1>2 DEF Cancel, Job
  <2>3. NoDuplicateWork' /\ SnapshotCurrent' /\ AttemptsBounded' /\ AttemptsToSpare'
    BY <2>1, <2>2, TableStep
  <2> QED
    BY <2>3
<1>3. ASSUME NEW h \in Hosts, NEW mode \in {"drain", "watch"}, Start(h, mode) PROVE Safe'
  BY <1>3, StartStep
<1>4. ASSUME NEW h \in Hosts, Loop(h) \/ Settle(h) \/ Strand(h) \/ Crash(h) PROVE Safe'
  BY <1>4, ClaimStep, LoopStep, SettleStep, MishapStep DEF Loop
<1>5. ASSUME Tick PROVE Safe'
  <2>1. UNCHANGED <<runner, mishaps>> /\ DOMAIN jobs' = DOMAIN jobs
    BY <1>5 DEF Tick
  <2>2. \A i \in DOMAIN jobs :
          jobs'[i].attempts = jobs[i].attempts /\ jobs'[i].status = jobs[i].status
    BY <1>t, <1>5 DEF Tick, Job
  <2>3. NoDuplicateWork' /\ SnapshotCurrent' /\ AttemptsBounded' /\ AttemptsToSpare'
    BY <2>1, <2>2, TableStep
  <2> QED
    BY <2>3
<1>6. ASSUME UNCHANGED jobVars PROVE Safe'
  <2>1. UNCHANGED <<runner, mishaps>> /\ jobs' = jobs
    BY <1>6 DEF jobVars
  <2>2. NoDuplicateWork' /\ SnapshotCurrent' /\ AttemptsBounded' /\ AttemptsToSpare'
    BY <2>1, TableStep
  <2> QED
    BY <2>2
<1> QED
  BY <1>1, <1>2, <1>3, <1>4, <1>5, <1>6 DEF Next

\* As long as no runner starts while another has a job in hand, the invariant holds
\* of every reachable state.
THEOREM Invariance == ASSUME Hosting # "free" PROVE Spec => []IInv
<1>1. Init => IInv
  BY InitEstablishes
<1>2. IInv /\ [Next]_jobVars => IInv'
  BY StepPreserves
<1> QED
  BY <1>1, <1>2, PTL DEF Spec

\* The job table and the runners keep their types, however many runners are up, and
\* what a runner executes is a job of the table.
THEOREM TypeCorrect == Spec => [](TypeOK /\ InHand)
<1>1. Init => TypeOK /\ InHand
  BY InitEstablishes DEF IInv
<1>2. TypeOK /\ InHand /\ [Next]_jobVars => (TypeOK /\ InHand)'
  BY TypeStep, InHandStep
<1> QED
  BY <1>1, <1>2, PTL DEF Spec

\* No job is in the hands of two runners, however many are up and claim side by side
\* (queue.py claim, complete, fail and recover_orphans).
THEOREM NoDuplicates == ASSUME Hosting # "free" PROVE Spec => []NoDuplicateWork
<1>1. IInv => NoDuplicateWork
  BY DEF IInv
<1> QED
  BY <1>1, Invariance, PTL

\* complete and fail, which check nothing, write over the row that was claimed.
THEOREM SnapshotsCurrent == ASSUME Hosting # "free" PROVE Spec => []SnapshotCurrent
<1>1. IInv => SnapshotCurrent
  BY DEF IInv
<1> QED
  BY <1>1, Invariance, PTL

\* A job is attempted MAX_ATTEMPTS times, and once more per crash at most.
THEOREM AttemptsLimited == ASSUME Hosting # "free" PROVE Spec => []AttemptsBounded
<1>1. IInv => AttemptsBounded
  BY DEF IInv
<1> QED
  BY <1>1, Invariance, PTL

-----------------------------------------------------------------------------

\* One runner is up at most: what exclusive hosting asks of whoever starts one.
LoneRunner == \A g, h \in Hosts : On(g) /\ On(h) => g = h

\* A runner comes up by Start alone, and the operator keeps the others down for it.
LEMMA RunnersAlone ==
  ASSUME Hosting = "exclusive", TypeOK, LoneRunner, [Next]_jobVars
  PROVE  LoneRunner'
<1>t. runner \in [Hosts -> Runner]
  BY DEF TypeOK
<1>1. ASSUME NEW h \in Hosts, NEW mode \in {"drain", "watch"}, Start(h, mode)
      PROVE  LoneRunner'
  <2>1. \A g \in Hosts : runner[g].mode = "off"
    BY <1>1, Zenon DEF Start
  <2>2. \A g \in Hosts \ {h} : runner'[g] = runner[g]
    BY <1>1, <1>t DEF Start
  <2> QED
    BY <2>1, <2>2 DEF LoneRunner, On
<1>2. ASSUME \A h \in Hosts : On(h)' => On(h) PROVE LoneRunner'
  BY <1>2 DEF LoneRunner
<1>3. ASSUME NEW g \in Hosts, Claim(g) PROVE LoneRunner'
  <2>1. PICK j, a : runner' = [runner EXCEPT ![g].pc = "executing", ![g].job = j,
                                              ![g].attempts = a, ![g].claims = @ + 1]
    BY <1>3 DEF Claim
  <2> QED
    BY <1>t, <1>2, <2>1 DEF Runner, On
<1>4. ASSUME NEW g \in Hosts, RunEnds(g) \/ Count(g) \/ Wake(g) PROVE LoneRunner'
  BY <1>t, <1>2, <1>4 DEF RunEnds, Count, Wake, Off, Runner, On
<1>5. ASSUME NEW g \in Hosts, NextClaim(g) \/ Crash(g) PROVE LoneRunner'
  BY <1>t, <1>2, <1>5 DEF NextClaim, Crash, Off, Runner, On
<1>6. ASSUME UNCHANGED runner PROVE LoneRunner'
  BY <1>2, <1>6 DEF On
<1> QED
  BY <1>1, <1>3, <1>4, <1>5, <1>6
     DEF Next, Loop, Settle, Complete, FailTerminal, FailRetryable, Strand, Enqueue, Cancel,
         Tick, jobVars

THEOREM OneRunnerUp == ASSUME Hosting = "exclusive" PROVE Spec => []LoneRunner
<1>1. Init => LoneRunner
  BY DEF Init, Off, LoneRunner, On
<1>2. TypeOK /\ LoneRunner /\ [Next]_jobVars => LoneRunner'
  BY RunnersAlone
<1> QED
  BY <1>1, <1>2, TypeCorrect, PTL DEF Spec

-----------------------------------------------------------------------------

\* A step changes a job only if it is queued or running.
LEMMA StepLeavesSettled ==
  ASSUME IInv, [Next]_jobVars, NEW j \in DOMAIN jobs, jobs[j].status \in Terminal
  PROVE  jobs'[j] = jobs[j]
<1>t. jobs \in Seq(Job) /\ \A i \in DOMAIN jobs : jobs[i] \in Job
  BY DEF IInv, TypeOK
<1>s. jobs[j].status # "queued" /\ jobs[j].status # "running"
  BY DEF Terminal
<1>1. ASSUME NEW q \in Questions, Enqueue(q) PROVE jobs'[j] = jobs[j]
  BY <1>t, <1>1 DEF Enqueue
<1>2. ASSUME NEW i \in DOMAIN jobs, Cancel(i) PROVE jobs'[j] = jobs[j]
  BY <1>s, <1>2 DEF Cancel
<1>3. ASSUME NEW h \in Hosts, NEW mode \in {"drain", "watch"}, Start(h, mode)
      PROVE  jobs'[j] = jobs[j]
  BY <1>s, <1>3 DEF Start
<1>4. ASSUME NEW h \in Hosts, Claim(h) PROVE jobs'[j] = jobs[j]
  BY <1>s, <1>4 DEF Claim, Ready
<1>5. ASSUME NEW h \in Hosts, Settle(h) PROVE jobs'[j] = jobs[j]
  <2>1. j # runner[h].job
    BY <1>s, <1>5 DEF Settle, Complete, FailTerminal, FailRetryable, IInv, SnapshotCurrent
  <2> QED
    BY <1>5, <2>1 DEF Settle, Complete, FailTerminal, FailRetryable
<1>6. ASSUME NEW h \in Hosts, RunEnds(h) \/ Count(h) \/ Wake(h) \/ Strand(h) \/ Crash(h)
      PROVE  jobs'[j] = jobs[j]
  BY <1>6 DEF RunEnds, Count, Wake, Strand, Crash
<1>7. ASSUME Tick PROVE jobs'[j] = jobs[j]
  BY <1>s, <1>7 DEF Tick
<1>8. ASSUME UNCHANGED jobVars PROVE jobs'[j] = jobs[j]
  BY <1>8 DEF jobVars
<1> QED
  BY <1>1, <1>2, <1>3, <1>4, <1>5, <1>6, <1>7, <1>8 DEF Next, Loop

\* A done, failed or cancelled job never changes again, although neither
\* complete nor fail looks at the status it overwrites.
THEOREM SettledStaysSettled == ASSUME Hosting # "free" PROVE Spec => SettledForGood
<1>1. IInv /\ [Next]_jobVars =>
        [\A j \in DOMAIN jobs : jobs[j].status \in Terminal => jobs'[j] = jobs[j]]_jobVars
  BY StepLeavesSettled
<1> QED
  BY <1>1, Invariance, PTL DEF Spec, SettledForGood
=============================================================================
