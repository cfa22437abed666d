-------------------------- MODULE MeteredJobs_proofs --------------------------
(***************************************************************************)
(* What a job costs, for any number of hosts, jobs, questions and faults.  *)
(* The composition is a behaviour of the queue and a behaviour of fetch,   *)
(* so everything proved of either holds of it.  What neither can say is    *)
(* said by a joint invariant: a call of fetch is under way only for a      *)
(* runner that is executing a job, and it asks that job's question.        *)
(***************************************************************************)
EXTENDS MeteredJobs, TLAPS

\* What is proved of fetch and of the queue, of the fetch and the queue of this module.
FetchFacts == INSTANCE MeteredFetch_proofs WITH
  Callers <- Hosts, HostOf <- [h \in Hosts |-> h], MaxMishaps <- MaxFaults, mishaps <- faults

QueueFacts == INSTANCE JobQueue_proofs WITH RowIds <- Nat

LEMMA FetchAssumption == FetchFacts!MeteredFetchAssumption
BY MeteredJobsAssumption
   DEF Fetch!MeteredFetchAssumption, FetchFacts!MeteredFetchAssumption, Fetch!IsFiniteSet,
       FetchFacts!IsFiniteSet, Fetch!Reply, FetchFacts!Reply

LEMMA QueueAssumption == QueueFacts!JobQueueAssumption /\ QueueFacts!RowIdsAssumption
BY MeteredJobsAssumption
   DEF Queue!JobQueueAssumption, QueueFacts!JobQueueAssumption, QueueFacts!RowIdsAssumption

-----------------------------------------------------------------------------
(* The two instances of each module are one *)

LEMMA SameQueue ==
  /\ Queue!Init <=> QueueFacts!Init
  /\ \A q : Queue!Enqueue(q) <=> QueueFacts!Enqueue(q)
  /\ \A j : Queue!Cancel(j) <=> QueueFacts!Cancel(j)
  /\ \A h, mode : Queue!Start(h, mode) <=> QueueFacts!Start(h, mode)
  /\ \A h, row : Queue!Complete(h, row) <=> QueueFacts!Complete(h, row)
  /\ \A h : /\ Queue!Loop(h) <=> QueueFacts!Loop(h)
            /\ Queue!FailTerminal(h) <=> QueueFacts!FailTerminal(h)
            /\ Queue!FailRetryable(h) <=> QueueFacts!FailRetryable(h)
            /\ Queue!Strand(h) <=> QueueFacts!Strand(h)
            /\ Queue!Crash(h) <=> QueueFacts!Crash(h)
            /\ Queue!Executing(h) <=> QueueFacts!Executing(h)
  /\ Queue!Tick <=> QueueFacts!Tick
<1> USE DEF Queue!Off, QueueFacts!Off, Queue!NextClaim, QueueFacts!NextClaim, Queue!Executing,
            QueueFacts!Executing
<1>1. Queue!Init <=> QueueFacts!Init
  BY DEF Queue!Init, QueueFacts!Init
<1>2. \A q : Queue!Enqueue(q) <=> QueueFacts!Enqueue(q)
  BY DEF Queue!Enqueue, QueueFacts!Enqueue
<1>3. \A j : Queue!Cancel(j) <=> QueueFacts!Cancel(j)
  BY DEF Queue!Cancel, QueueFacts!Cancel
<1>4. \A h, mode : Queue!Start(h, mode) <=> QueueFacts!Start(h, mode)
  BY DEF Queue!Start, QueueFacts!Start
<1>5. \A h, row : Queue!Complete(h, row) <=> QueueFacts!Complete(h, row)
  BY DEF Queue!Complete, QueueFacts!Complete
<1>6. \A h : Queue!Loop(h) <=> QueueFacts!Loop(h)
  BY DEF Queue!Loop, QueueFacts!Loop, Queue!Claim, QueueFacts!Claim, Queue!Ready,
         QueueFacts!Ready, Queue!RunEnds, QueueFacts!RunEnds, Queue!Count, QueueFacts!Count,
         Queue!Pending, QueueFacts!Pending, Queue!Wake, QueueFacts!Wake
<1>7. \A h : /\ Queue!FailTerminal(h) <=> QueueFacts!FailTerminal(h)
             /\ Queue!FailRetryable(h) <=> QueueFacts!FailRetryable(h)
             /\ Queue!Strand(h) <=> QueueFacts!Strand(h)
             /\ Queue!Crash(h) <=> QueueFacts!Crash(h)
             /\ Queue!Executing(h) <=> QueueFacts!Executing(h)
  BY DEF Queue!FailTerminal, QueueFacts!FailTerminal, Queue!FailRetryable,
         QueueFacts!FailRetryable, Queue!Strand, QueueFacts!Strand, Queue!Crash, QueueFacts!Crash
<1>8. Queue!Tick <=> QueueFacts!Tick
  BY DEF Queue!Tick, QueueFacts!Tick
<1> HIDE DEF Queue!Executing, QueueFacts!Executing
<1> QED BY <1>1, <1>2, <1>3, <1>4, <1>5, <1>6, <1>7, <1>8

LEMMA QueuesAgree == Queue!Spec <=> QueueFacts!Spec
<1>1. Queue!Next <=> QueueFacts!Next
  BY SameQueue DEF Queue!Next, QueueFacts!Next, Queue!Settle, QueueFacts!Settle
<1> QED
  BY <1>1, SameQueue, PTL DEF Queue!Spec, QueueFacts!Spec, Queue!jobVars, QueueFacts!jobVars

LEMMA SameFetch ==
  /\ Fetch!Init <=> FetchFacts!Init
  /\ \A c, q, force, dry : Fetch!Begin(c, q, force, dry) <=> FetchFacts!Begin(c, q, force, dry)
  /\ \A c : /\ Fetch!Proceed(c) <=> FetchFacts!Proceed(c)
            /\ Fetch!Return(c) <=> FetchFacts!Return(c)
            /\ Fetch!VendorAnswers(c) <=> FetchFacts!VendorAnswers(c)
            /\ Fetch!Fault(c) <=> FetchFacts!Fault(c)
  /\ \A h : Fetch!Crash(h) <=> FetchFacts!Crash(h)
  /\ Fetch!Tick <=> FetchFacts!Tick
<1> USE DEF Fetch!Runs, FetchFacts!Runs, Fetch!MidStretch, FetchFacts!MidStretch,
            Fetch!IdleCall, FetchFacts!IdleCall, Fetch!Returns, FetchFacts!Returns,
            Fetch!IsFree, FetchFacts!IsFree
<1>1. Fetch!Init <=> FetchFacts!Init
  BY DEF Fetch!Init, FetchFacts!Init
<1>2. \A c, q, force, dry : Fetch!Begin(c, q, force, dry) <=> FetchFacts!Begin(c, q, force, dry)
  BY DEF Fetch!Begin, FetchFacts!Begin, Fetch!Cardinality, FetchFacts!Cardinality
<1>3. \A q : Fetch!Breaches(q) <=> FetchFacts!Breaches(q)
  BY DEF Fetch!Breaches, FetchFacts!Breaches, Fetch!SpentThisMonth, FetchFacts!SpentThisMonth,
         Fetch!MonthStart, FetchFacts!MonthStart, Fetch!SumFunctionOnSet,
         FetchFacts!SumFunctionOnSet, Fetch!FoldFunctionOnSet, FetchFacts!FoldFunctionOnSet,
         Fetch!MapThenFoldSet, FetchFacts!MapThenFoldSet
<1>4. \A c : Fetch!Hit(c) \/ Fetch!Miss(c) <=> FetchFacts!Hit(c) \/ FetchFacts!Miss(c)
  BY DEF Fetch!Hit, FetchFacts!Hit, Fetch!Miss, FetchFacts!Miss, Fetch!Newest,
         FetchFacts!Newest, Fetch!Rows, FetchFacts!Rows, Fetch!Fresh, FetchFacts!Fresh
<1>5. \A c : Fetch!Decline(c) <=> FetchFacts!Decline(c)
  BY <1>3 DEF Fetch!Decline, FetchFacts!Decline
<1>6. \A c : Fetch!Approve(c) \/ Fetch!Enter(c) <=> FetchFacts!Approve(c) \/ FetchFacts!Enter(c)
  BY <1>3 DEF Fetch!Approve, FetchFacts!Approve, Fetch!Enter, FetchFacts!Enter,
              Fetch!GuardIsFree, FetchFacts!GuardIsFree, Fetch!Waiting, FetchFacts!Waiting,
              Fetch!TakeGuard, FetchFacts!TakeGuard
<1>7. \A c : Fetch!VendorAnswers(c) <=> FetchFacts!VendorAnswers(c)
  BY DEF Fetch!VendorAnswers, FetchFacts!VendorAnswers
<1>8. \A c : /\ Fetch!Reject(c) <=> FetchFacts!Reject(c)
             /\ Fetch!Project(c) <=> FetchFacts!Project(c)
             /\ Fetch!Return(c) <=> FetchFacts!Return(c)
  BY DEF Fetch!Reject, FetchFacts!Reject, Fetch!Project, FetchFacts!Project, Fetch!Return,
         FetchFacts!Return, Fetch!ReleaseGuard, FetchFacts!ReleaseGuard
<1>9. \A c : Fetch!Persist(c) <=> FetchFacts!Persist(c)
  BY DEF Fetch!Persist, FetchFacts!Persist, Fetch!Accepted, FetchFacts!Accepted, Fetch!Cost,
         FetchFacts!Cost
<1>10. \A c : Fetch!Fault(c) <=> FetchFacts!Fault(c)
  BY DEF Fetch!Fault, FetchFacts!Fault, Fetch!LoseAnswer, FetchFacts!LoseAnswer,
         Fetch!PersistBusy, FetchFacts!PersistBusy, Fetch!Accepted, FetchFacts!Accepted,
         Fetch!Escape, FetchFacts!Escape, Fetch!Cancel, FetchFacts!Cancel, Fetch!Mishap,
         FetchFacts!Mishap, Fetch!ReleaseGuard, FetchFacts!ReleaseGuard
<1>11. /\ \A h : Fetch!Crash(h) <=> FetchFacts!Crash(h)
       /\ Fetch!Tick <=> FetchFacts!Tick
  BY DEF Fetch!Crash, FetchFacts!Crash, Fetch!Mishap, FetchFacts!Mishap, Fetch!Tick,
         FetchFacts!Tick
<1>12. \A c : Fetch!Proceed(c) <=> FetchFacts!Proceed(c)
  BY <1>4, <1>5, <1>6, <1>8, <1>9 DEF Fetch!Proceed, FetchFacts!Proceed
<1> QED BY <1>1, <1>2, <1>7, <1>8, <1>10, <1>11, <1>12

LEMMA FetchesAgree == Fetch!Spec <=> FetchFacts!Spec
<1>1. Fetch!Next <=> FetchFacts!Next
  BY SameFetch DEF Fetch!Next, FetchFacts!Next
<1> QED
  BY <1>1, SameFetch, PTL DEF Fetch!Spec, FetchFacts!Spec, Fetch!fetchVars, FetchFacts!fetchVars

-----------------------------------------------------------------------------
(* A step of the composition is a step of both *)

Types == FetchFacts!TypeOK /\ QueueFacts!TypeOK /\ QueueFacts!InHand

LEMMA QueueStep == Types /\ [Next]_allVars => [QueueFacts!Next]_QueueFacts!jobVars
<1> SUFFICES ASSUME Types, [Next]_allVars PROVE [QueueFacts!Next]_QueueFacts!jobVars
  OBVIOUS
<1>1. CASE Ask
  BY <1>1, SameQueue DEF Ask, QueueFacts!Next
<1>2. CASE Time
  BY <1>2, SameQueue DEF Time, QueueFacts!Next, QueueFacts!jobVars, jobVars
<1>3. ASSUME NEW h \in Hosts, Loop(h) PROVE QueueFacts!Next
  BY <1>3, SameQueue DEF Loop, QueueFacts!Next
<1>4. ASSUME NEW h \in Hosts, Execute(h) \/ FetchMoves(h) \/ FetchFails(h)
      PROVE  UNCHANGED QueueFacts!jobVars
  BY <1>4 DEF Execute, FetchMoves, FetchFails, QueueFacts!jobVars, jobVars
<1>5. ASSUME NEW h \in Hosts, Settle(h) PROVE QueueFacts!Next
  <2>1. call[h].row \in Nat
    BY DEF Types, FetchFacts!TypeOK, FetchFacts!Call
  <2>2. \/ \E row \in Nat : QueueFacts!Complete(h, row)
        \/ QueueFacts!FailRetryable(h) \/ QueueFacts!FailTerminal(h)
        \/ QueueFacts!Strand(h) \/ QueueFacts!Crash(h)
    BY <1>5, <2>1, SameQueue DEF Settle
  <2> QED BY <2>2 DEF QueueFacts!Next, QueueFacts!Settle
<1>6. ASSUME NEW h \in Hosts, Strand(h) \/ Crash(h) PROVE QueueFacts!Next
  BY <1>6, SameQueue DEF Strand, Crash, QueueFacts!Next
<1>7. CASE UNCHANGED allVars
  BY <1>7 DEF allVars, jobVars, QueueFacts!jobVars
<1> QED BY <1>1, <1>2, <1>3, <1>4, <1>5, <1>6, <1>7 DEF Next

LEMMA FetchStep == Types /\ [Next]_allVars => [FetchFacts!Next]_FetchFacts!fetchVars
<1> SUFFICES ASSUME Types, [Next]_allVars PROVE [FetchFacts!Next]_FetchFacts!fetchVars
  OBVIOUS
<1>1. CASE Ask
  BY <1>1 DEF Ask, FetchFacts!fetchVars, fetchVars
<1>2. CASE Time
  BY <1>2, SameFetch DEF Time, FetchFacts!Next, FetchFacts!fetchVars, fetchVars
<1>3. ASSUME NEW h \in Hosts, Loop(h) PROVE UNCHANGED FetchFacts!fetchVars
  BY <1>3 DEF Loop, FetchFacts!fetchVars, fetchVars
<1>4. ASSUME NEW h \in Hosts, Execute(h) PROVE FetchFacts!Next
  <2>1. QueueFacts!Executing(h) /\ FetchFacts!Begin(h, jobs[runner[h].job].question, FALSE, FALSE)
    BY <1>4, SameQueue, SameFetch DEF Execute
  <2>2. jobs[runner[h].job].question \in Questions
    <3>1. runner[h].job \in DOMAIN jobs
      BY <2>1 DEF Types, QueueFacts!InHand
    <3>2. jobs[runner[h].job] \in QueueFacts!Job
      BY <3>1 DEF Types, QueueFacts!TypeOK
    <3> QED BY <3>2 DEF QueueFacts!Job
  <2> QED BY <2>1, <2>2 DEF FetchFacts!Next
<1>5. ASSUME NEW h \in Hosts, FetchMoves(h) \/ FetchFails(h) PROVE FetchFacts!Next
  BY <1>5, SameFetch DEF FetchMoves, FetchFails, FetchFacts!Next
<1>6. ASSUME NEW h \in Hosts, Settle(h) \/ Strand(h) PROVE FetchFacts!Next
  BY <1>6, SameFetch DEF Settle, Strand, FetchFacts!Next, FetchFacts!Proceed
<1>7. ASSUME NEW h \in Hosts, Crash(h) PROVE [FetchFacts!Next]_FetchFacts!fetchVars
  BY <1>7, SameFetch DEF Crash, FetchFacts!Next, FetchFacts!fetchVars, fetchVars
<1>8. CASE UNCHANGED allVars
  BY <1>8 DEF allVars, fetchVars, FetchFacts!fetchVars
<1> QED BY <1>1, <1>2, <1>3, <1>4, <1>5, <1>6, <1>7, <1>8 DEF Next

LEMMA TypesHold == Spec => []Types
<1>1. Init => FetchFacts!Init /\ QueueFacts!Init
  BY SameFetch, SameQueue DEF Init
<1>2. FetchFacts!Init => FetchFacts!TypeOK
  BY FetchAssumption, FetchFacts!InitType
<1>3. QueueFacts!Init => QueueFacts!TypeOK /\ QueueFacts!InHand
  BY QueueAssumption, QueueFacts!InitEstablishes DEF QueueFacts!IInv
<1>4. Types /\ [Next]_allVars => Types'
  <2>1. FetchFacts!TypeOK /\ [FetchFacts!Next]_FetchFacts!fetchVars => FetchFacts!TypeOK'
    BY FetchAssumption, FetchFacts!TypeStep
  <2>2. QueueFacts!TypeOK /\ QueueFacts!InHand /\ [QueueFacts!Next]_QueueFacts!jobVars
          => QueueFacts!TypeOK' /\ QueueFacts!InHand'
    BY QueueAssumption, QueueFacts!TypeStep, QueueFacts!InHandStep
  <2> QED BY <2>1, <2>2, QueueStep, FetchStep DEF Types
<1> QED BY <1>1, <1>2, <1>3, <1>4, PTL DEF Spec, Types

\* Seen from the job table, the composition is the queue, with nothing left open.
THEOREM JobsAreAQueue == Spec => Queue!Spec
<1>1. Init => QueueFacts!Init
  BY SameQueue DEF Init
<1> QED BY <1>1, QueueStep, TypesHold, QueuesAgree, PTL DEF Spec, QueueFacts!Spec

\* Seen from raw_response, the composition is fetch: its runners are callers like any other.
THEOREM RunnersAreCallers == Spec => Fetch!Spec
<1>1. Init => FetchFacts!Init
  BY SameFetch DEF Init
<1> QED BY <1>1, FetchStep, TypesHold, FetchesAgree, PTL DEF Spec, FetchFacts!Spec

-----------------------------------------------------------------------------
(* A call is a runner's, and asks what its job asks *)

Asked(h) == jobs[runner[h].job].question

\* Unless it is idle, the call of a runner is for the job the runner executes; and a row
\* it ends with answers that job.
Attends(h) ==
  /\ ~call[h].force
  /\ call[h].pc # "idle" =>
       /\ QueueFacts!Executing(h)
       /\ call[h].pc # "returned" => call[h].question = Asked(h)
       /\ \/ call[h].pc = "stored"
          \/ call[h].pc = "returned" /\ call[h].outcome \in {"cached", "bought"}
          => call[h].row \in DOMAIN raw /\ raw[call[h].row].question = Asked(h)

JobInv == (\A h \in Hosts : Attends(h)) /\ DoneIsAnswered

LEMMA Kept ==
  ASSUME Types, [Next]_allVars
  PROVE  /\ \A j \in DOMAIN jobs : j \in DOMAIN jobs' /\ jobs'[j].question = jobs[j].question
         /\ \A i \in DOMAIN raw : i \in DOMAIN raw' /\ raw'[i] = raw[i]
<1>1. \A j \in DOMAIN jobs : j \in DOMAIN jobs' /\ jobs'[j].question = jobs[j].question
  BY QueueStep, QueueAssumption, QueueFacts!JobsKept DEF Types
<1>2. \A i \in DOMAIN raw : i \in DOMAIN raw' /\ raw'[i] = raw[i]
  BY FetchStep, FetchAssumption, FetchFacts!RowsKept DEF Types
<1> QED BY <1>1, <1>2

\* A runner that neither moves nor is called away attends to its job as before.
LEMMA StillAttends ==
  ASSUME Types, [Next]_allVars, NEW h \in Hosts, Attends(h),
         \/ call'[h] = FetchFacts!IdleCall
         \/ call'[h] = call[h] /\ runner'[h] = runner[h]
         \/ call'[h] = call[h] /\ call[h].pc = "idle"
  PROVE  Attends(h)'
<1>1. CASE call'[h].pc = "idle" /\ ~call'[h].force
  BY <1>1 DEF Attends
<1>2. CASE call'[h] = call[h] /\ runner'[h] = runner[h] /\ call[h].pc # "idle"
  <2>1. QueueFacts!Executing(h) /\ QueueFacts!Executing(h)'
    BY <1>2 DEF Attends, QueueFacts!Executing
  <2>2. runner[h].job \in DOMAIN jobs
    BY <2>1 DEF Types, QueueFacts!InHand
  <2>3. Asked(h)' = Asked(h)
    BY <1>2, <2>2, Kept DEF Asked
  <2> QED BY <1>2, <2>1, <2>3, Kept DEF Attends
<1> QED BY <1>1, <1>2 DEF Attends, FetchFacts!IdleCall

LEMMA AnswersStay ==
  ASSUME Types, [Next]_allVars, DoneIsAnswered,
         \A j \in DOMAIN jobs' : jobs'[j].status = "done" =>
           j \in DOMAIN jobs /\ jobs[j].status = "done" /\ jobs'[j].row = jobs[j].row
  PROVE  DoneIsAnswered'
BY Kept DEF DoneIsAnswered

LEMMA JobInvStep == Types /\ JobInv /\ [Next]_allVars => JobInv'
<1> SUFFICES ASSUME Types, JobInv, DoneIsAnswered, \A h \in Hosts : Attends(h), [Next]_allVars
             PROVE  (\A h \in Hosts : Attends(h)') /\ DoneIsAnswered'
  BY DEF JobInv
<1>t. /\ call \in [Hosts -> FetchFacts!Call] /\ runner \in [Hosts -> QueueFacts!Runner]
      /\ \A h \in Hosts : ~QueueFacts!Executing(h) => call[h].pc = "idle"
  BY DEF Types, FetchFacts!TypeOK, QueueFacts!TypeOK, Attends
<1>d. ASSUME \/ \E q \in Questions : QueueFacts!Enqueue(q)
             \/ \E j \in DOMAIN jobs : QueueFacts!Cancel(j)
             \/ \E h \in Hosts, mode \in {"drain", "watch"} : QueueFacts!Start(h, mode)
             \/ \E h \in Hosts : \/ QueueFacts!Loop(h) \/ QueueFacts!FailTerminal(h)
                                 \/ QueueFacts!FailRetryable(h) \/ QueueFacts!Strand(h)
                                 \/ QueueFacts!Crash(h)
             \/ QueueFacts!Tick \/ UNCHANGED QueueFacts!jobVars
      PROVE  DoneIsAnswered'
  <2>1. \A j \in DOMAIN jobs' : jobs'[j].status = "done" =>
          j \in DOMAIN jobs /\ jobs[j].status = "done" /\ jobs'[j].row = jobs[j].row
    BY <1>d, QueueAssumption, QueueFacts!NothingElseIsDone DEF Types
  <2> QED BY <2>1, AnswersStay
<1>1. CASE Ask
  <2>1. DoneIsAnswered'
    BY <1>1, <1>d, SameQueue DEF Ask
  <2>2. call' = call
    BY <1>1 DEF Ask, fetchVars
  <2>3. ASSUME NEW h \in Hosts, call[h].pc # "idle" PROVE runner'[h] = runner[h]
    <3>1. runner[h].mode # "off"
      BY <2>3 DEF Attends, Types, QueueFacts!InHand, QueueFacts!On, QueueFacts!Executing
    <3> QED BY <1>1, <1>t, <3>1 DEF Ask, Queue!Enqueue, Queue!Cancel, Queue!Start
  <2> QED BY <2>1, <2>2, <2>3, StillAttends
<1>2. CASE Time \/ UNCHANGED allVars
  <2>1. UNCHANGED <<call, runner>>
    BY <1>2 DEF Time, Queue!Tick, Fetch!Tick, fetchVars, jobVars, allVars
  <2>2. QueueFacts!Tick \/ UNCHANGED QueueFacts!jobVars
    BY <1>2, SameQueue DEF Time, allVars, jobVars, QueueFacts!jobVars
  <2> QED BY <1>d, <2>1, <2>2, StillAttends
<1>3. ASSUME NEW h \in Hosts, Loop(h)
      PROVE  (\A g \in Hosts : Attends(g)') /\ DoneIsAnswered'
  <2>1. DoneIsAnswered'
    BY <1>3, <1>d, SameQueue DEF Loop
  <2>2. call' = call /\ call[h].pc = "idle"
    <3>1. runner[h].pc # "executing"
      BY <1>3 DEF Loop, Queue!Loop, Queue!Claim, Queue!RunEnds, Queue!Count, Queue!Wake
    <3> QED BY <1>3, <1>t, <3>1 DEF Loop, fetchVars, QueueFacts!Executing
  <2>3. \A g \in Hosts \ {h} : runner'[g] = runner[g]
    BY <1>3, <1>t DEF Loop, Queue!Loop, Queue!Claim, Queue!RunEnds, Queue!Count, Queue!Wake
  <2> QED BY <2>1, <2>2, <2>3, StillAttends
<1>4. ASSUME NEW h \in Hosts, Execute(h)
      PROVE  (\A g \in Hosts : Attends(g)') /\ DoneIsAnswered'
  <2>1. /\ QueueFacts!Executing(h) /\ UNCHANGED QueueFacts!jobVars
        /\ FetchFacts!Begin(h, Asked(h), FALSE, FALSE) /\ UNCHANGED jobVars
    BY <1>4, SameQueue, SameFetch DEF Execute, Asked, jobVars, QueueFacts!jobVars
  <2>2. /\ call'[h].pc = "lookup" /\ call'[h].question = Asked(h) /\ ~call'[h].force
        /\ \A g \in Hosts \ {h} : call'[g] = call[g]
    BY <1>t, <2>1 DEF FetchFacts!Begin, FetchFacts!IdleCall
  <2>3. Attends(h)'
    BY <2>1, <2>2 DEF Attends, Asked, jobVars, QueueFacts!Executing
  <2> QED BY <1>d, <2>1, <2>2, <2>3, StillAttends DEF jobVars
<1>5. ASSUME NEW h \in Hosts, FetchMoves(h) \/ FetchFails(h), call[h].pc # "returned"
      PROVE  (\A g \in Hosts : Attends(g)') /\ DoneIsAnswered'
  <2>1. /\ UNCHANGED QueueFacts!jobVars /\ UNCHANGED jobVars
        /\ FetchFacts!Proceed(h) \/ FetchFacts!VendorAnswers(h) \/ FetchFacts!Fault(h)
    BY <1>5, SameFetch DEF FetchMoves, FetchFails, jobVars, QueueFacts!jobVars
  <2>2. call[h].pc = "stored" =>
          call[h].row \in DOMAIN raw /\ raw[call[h].row].question = call[h].question
    BY DEF Attends
  <2>3. /\ FetchFacts!OnlyMoves(h) /\ call[h].pc # "idle" /\ call'[h].pc # "idle"
        /\ call'[h].pc # "returned" => call'[h].question = call[h].question
        /\ call'[h].force => call[h].force
        /\ \/ call'[h].pc = "stored"
           \/ call'[h].pc = "returned" /\ call'[h].outcome \in {"cached", "bought"}
           => /\ call'[h].row \in DOMAIN raw'
              /\ raw'[call'[h].row].question = call[h].question
    BY <1>5, <2>1, <2>2, FetchAssumption, FetchFacts!MovesTowardsAnswer DEF Types
  <2>4. Attends(h)'
    BY <1>5, <2>1, <2>3 DEF Attends, Asked, jobVars, QueueFacts!Executing
  <2> QED BY <1>d, <2>1, <2>3, <2>4, StillAttends DEF jobVars, FetchFacts!OnlyMoves
<1>6. ASSUME NEW h \in Hosts, Settle(h) \/ Strand(h)
      PROVE  (\A g \in Hosts : Attends(g)') /\ DoneIsAnswered'
  <2>1. /\ call[h].pc = "returned" /\ call'[h] = FetchFacts!IdleCall
        /\ \A g \in Hosts \ {h} : call'[g] = call[g]
    <3>1. FetchFacts!Return(h)
      BY <1>6, SameFetch DEF Settle, Strand
    <3> QED BY <1>t, <3>1 DEF FetchFacts!Return
  <2>2. \/ /\ call[h].outcome \in {"cached", "bought"}
           /\ QueueFacts!Complete(h, call[h].row)
        \/ QueueFacts!FailRetryable(h) \/ QueueFacts!FailTerminal(h)
        \/ QueueFacts!Strand(h) \/ QueueFacts!Crash(h)
    BY <1>6, SameQueue DEF Settle, Strand
  <2>3. \A g \in Hosts \ {h} : runner'[g] = runner[g]
    BY <1>t, <2>2
       DEF QueueFacts!Complete, QueueFacts!FailRetryable, QueueFacts!FailTerminal,
           QueueFacts!Strand, QueueFacts!Crash, QueueFacts!NextClaim
  <2>4. \A g \in Hosts : Attends(g)'
    BY <2>1, <2>3, StillAttends
  <2>5. CASE /\ call[h].outcome \in {"cached", "bought"}
             /\ QueueFacts!Complete(h, call[h].row)
    <3> PICK row : row = call[h].row
      OBVIOUS
    <3>1. /\ row \in DOMAIN raw /\ raw[row].question = Asked(h)
          /\ QueueFacts!Complete(h, row)
      BY <2>1, <2>5 DEF Attends
    <3>2. /\ DOMAIN jobs' = DOMAIN jobs /\ runner[h].job \in DOMAIN jobs
          /\ \A j \in DOMAIN jobs : j # runner[h].job => jobs'[j] = jobs[j]
          /\ jobs'[runner[h].job].row = row
          /\ jobs'[runner[h].job].question = jobs[runner[h].job].question
      BY <3>1, QueueAssumption, QueueFacts!Completed DEF Types
    <3>3. ASSUME NEW j \in DOMAIN jobs, jobs'[j].status = "done"
          PROVE  jobs'[j].row \in DOMAIN raw' /\ raw'[jobs'[j].row].question = jobs'[j].question
      BY <3>1, <3>2, <3>3, Kept DEF DoneIsAnswered, Asked
    <3> QED BY <2>4, <3>2, <3>3 DEF DoneIsAnswered
  <2> QED BY <1>d, <2>2, <2>4, <2>5
<1>7. ASSUME NEW h \in Hosts, Crash(h)
      PROVE  (\A g \in Hosts : Attends(g)') /\ DoneIsAnswered'
  <2>1. QueueFacts!Crash(h) /\ \A g \in Hosts \ {h} : runner'[g] = runner[g]
    BY <1>7, <1>t, SameQueue DEF Crash, QueueFacts!Crash
  <2>2. /\ \A g \in Hosts \ {h} : call'[g] = call[g]
        /\ call'[h] = FetchFacts!IdleCall \/ (call[h].pc = "idle" /\ call' = call)
    <3>1. FetchFacts!Crash(h) \/ (call[h].pc = "idle" /\ call' = call)
      BY <1>7, SameFetch DEF Crash, fetchVars
    <3> QED BY <3>1 DEF FetchFacts!Crash
  <2> QED BY <1>d, <2>1, <2>2, StillAttends
<1> QED
  BY <1>1, <1>2, <1>3, <1>4, <1>5, <1>6, <1>7
     DEF Next, FetchMoves, FetchFails, Fetch!Fault, Fetch!LoseAnswer, Fetch!PersistBusy,
         Fetch!Accepted, Fetch!Escape, Fetch!Cancel

LEMMA JobInvariance == Spec => [](Types /\ JobInv)
<1>1. Init => JobInv
  BY DEF Init, Queue!Init, Fetch!Init, Fetch!IdleCall, JobInv, Attends, DoneIsAnswered
<1> QED BY <1>1, JobInvStep, TypesHold, PTL DEF Spec

\* A done job has the answer to the question it asked, with any number of runners up and
\* after any crash, retry and requeue (queue.py complete, runner.py _execute).
THEOREM DoneJobsAnswered == Spec => []DoneIsAnswered
<1>1. JobInv => DoneIsAnswered
  BY DEF JobInv
<1> QED BY <1>1, JobInvariance, PTL

-----------------------------------------------------------------------------
(* One runner at a time *)

LEMMA RunnersTakeTurns ==
  ASSUME Hosting = "exclusive"
  PROVE  Spec => [](FetchFacts!Alone /\ FetchFacts!Unforced)
<1>1. JobInv /\ Types /\ QueueFacts!LoneRunner => FetchFacts!Alone /\ FetchFacts!Unforced
  BY DEF JobInv, Attends, Types, QueueFacts!InHand, QueueFacts!LoneRunner,
         QueueFacts!On, QueueFacts!Executing, FetchFacts!Alone, FetchFacts!Unforced
<1>2. QueueFacts!Spec => []QueueFacts!LoneRunner
  BY QueueAssumption, QueueFacts!OneRunnerUp
<1> QED BY <1>1, <1>2, JobInvariance, JobsAreAQueue, QueuesAgree, PTL

\* With one runner up at a time a question is bought once within its TTL, and once more
\* for each fault of fetch at most, however many jobs ask it.
THEOREM BoughtOncePerQuestion == ASSUME Hosting = "exclusive" PROVE Spec => []OnePurchasePerQuestion
<1>1. FetchFacts!Spec /\ []FetchFacts!Alone /\ []FetchFacts!Unforced
        => [](\A q \in Questions : TTL[q] > now => billed[q] <= 1 + faults)
  BY FetchAssumption, FetchFacts!AloneBuysOnce
<1>2. (\A q \in Questions : TTL[q] > now => billed[q] <= 1 + faults) => OnePurchasePerQuestion
  BY DEF OnePurchasePerQuestion
<1> QED BY <1>1, <1>2, RunnersTakeTurns, RunnersAreCallers, FetchesAgree, PTL

\* With one runner up at a time, and a vendor that charges no more than it quoted, the
\* month's spend never passes the ceiling: rule R5 of queue.py, spending in the runner
\* alone, makes fetch's check enough.
THEOREM CeilingHeld ==
  ASSUME Hosting = "exclusive", FetchFacts!QuotesKept
  PROVE  Spec => []CeilingHolds
<1>1. FetchFacts!Spec /\ []FetchFacts!Alone => []FetchFacts!CeilingHolds
  BY FetchAssumption, FetchFacts!AloneCeiling
<1>2. FetchFacts!CeilingHolds => CeilingHolds
  BY DEF FetchFacts!CeilingHolds, CeilingHolds, Fetch!CeilingHolds, Fetch!SpentThisMonth,
         FetchFacts!SpentThisMonth, Fetch!MonthStart, FetchFacts!MonthStart,
         Fetch!SumFunctionOnSet, FetchFacts!SumFunctionOnSet, Fetch!FoldFunctionOnSet,
         FetchFacts!FoldFunctionOnSet, Fetch!MapThenFoldSet, FetchFacts!MapThenFoldSet
<1> QED BY <1>1, <1>2, RunnersTakeTurns, RunnersAreCallers, FetchesAgree, PTL
=============================================================================
