-------------------------- MODULE Purchases_proofs --------------------------
(***************************************************************************)
(* Proofs about Purchases, for any keywords, plans, prices, threshold and  *)
(* processes: the spending of the runners is that of SpendLedger, and no   *)
(* job is queued without consent.                                          *)
(***************************************************************************)
EXTENDS Purchases, SpendLedger_proofs, Lists_proofs

-----------------------------------------------------------------------------
(* The ledger *)

\* One step per group of actions: those that leave the ledger alone, those that drop
\* calls, and the two that approve and record.
LEMMA LedgerStep == LedgerTypeOK /\ [Next]_allVars => LedgerTypeOK' /\ [LedgerNext]_ledgerVars
<1> SUFFICES ASSUME LedgerTypeOK, [Next]_allVars
             PROVE  LedgerTypeOK' /\ [LedgerNext]_ledgerVars
  OBVIOUS
<1>1. ASSUME UNCHANGED ledgerVars PROVE LedgerTypeOK' /\ [LedgerNext]_ledgerVars
  BY <1>1 DEF ledgerVars, LedgerTypeOK
<1>2. ASSUME NEW group \in SUBSET Spenders, Drop(group)
      PROVE  LedgerTypeOK' /\ [LedgerNext]_ledgerVars
  <2>1. LedgerNext
    BY <1>2 DEF LedgerNext
  <2>2. LedgerTypeOK'
    BY <1>2, SpendLedgerAssumption DEF Drop, LedgerTypeOK
  <2> QED BY <2>1, <2>2
<1>3. ASSUME NEW h \in Spenders, Stop(h) PROVE LedgerTypeOK' /\ [LedgerNext]_ledgerVars
  BY <1>2, <1>3 DEF Stop
<1>4. Tui \in Spenders
  BY PurchasesAssumption
<1>5. ASSUME NEW s \in Spenders, NEW plan, NEW forced, Ask(s, plan, forced)
      PROVE  LedgerTypeOK' /\ [LedgerNext]_ledgerVars
  BY <1>1, <1>3, <1>5 DEF Ask, ledgerVars
<1>6. ASSUME NEW s \in Spenders, AskVolume(s) \/ AskIdeas(s) \/ AskRanks(s) \/ AskGap(s) \/ AskStale
      PROVE  LedgerTypeOK' /\ [LedgerNext]_ledgerVars
  BY <1>4, <1>5, <1>6 DEF AskVolume, AskIdeas, AskRanks, AskGap, AskPull, AskStale, AskEither
<1>7. ASSUME NEW s \in Spenders, NEW yes, Answer(s, yes) \/ EnqueueNext(s) \/ Abandon(s)
      PROVE  LedgerTypeOK' /\ [LedgerNext]_ledgerVars
  BY <1>1, <1>7 DEF Answer, EnqueueNext, Abandon
<1>8. ASSUME OtherCommand \/ OpenTui \/ CloseTui
      PROVE  LedgerTypeOK' /\ [LedgerNext]_ledgerVars
  BY <1>1, <1>3, <1>4, <1>8 DEF OtherCommand, OpenTui, CloseTui
<1>9. ASSUME NEW h \in Spenders, StartDrain(h) \/ StopRunner(h) \/ Fail(h)
      PROVE  LedgerTypeOK' /\ [LedgerNext]_ledgerVars
  BY <1>1, <1>2, <1>3, <1>9 DEF StartDrain, StopRunner, Fail
<1>10. ASSUME NEW h \in Spenders, Claim(h) PROVE LedgerTypeOK' /\ [LedgerNext]_ledgerVars
  <2>1. CASE UNCHANGED ledgerVars
    BY <1>1, <2>1
  <2>2. ASSUME NEW e \in 1 .. MaxCharge, Approve(h, e)
        PROVE  LedgerTypeOK' /\ [LedgerNext]_ledgerVars
    <3>1. LedgerNext
      BY <2>2 DEF LedgerNext
    <3>2. LedgerTypeOK'
      BY <2>2, SpendLedgerAssumption DEF Approve, LedgerTypeOK
    <3> QED BY <3>1, <3>2
  <2> QED BY <1>10, <2>1, <2>2 DEF Claim
<1>11. ASSUME NEW h \in Spenders, NEW excess \in Excess, NEW answer, Deliver(h, excess, answer)
       PROVE  LedgerTypeOK' /\ [LedgerNext]_ledgerVars
  <2> DEFINE charge == approved[h] + excess
  <2>a. charge <= MaxCharge /\ Record(h, charge)
    BY <1>11, Zenon DEF Deliver
  <2>b. approved[h] \in Nat /\ excess \in Nat
    BY PurchasesAssumption, SpendLedgerAssumption DEF LedgerTypeOK
  <2>1. charge \in 0 .. MaxCharge /\ Record(h, charge)
    <3>1. charge \in Nat
      BY <2>b
    <3> HIDE DEF charge
    <3> QED BY <2>a, <3>1, SpendLedgerAssumption
  <2> HIDE DEF charge
  <2>2. LedgerNext
    BY <2>1 DEF LedgerNext
  <2>3. LedgerTypeOK'
    BY <2>1, SpendLedgerAssumption DEF Record, LedgerTypeOK
  <2> QED BY <2>2, <2>3
<1>12. CASE Tick
  <2>1. CASE NewMonth
    BY <2>1 DEF NewMonth, LedgerNext, LedgerTypeOK
  <2> QED BY <1>1, <1>12, <2>1 DEF Tick
<1>13. CASE UNCHANGED allVars
  BY <1>1, <1>13 DEF allVars
<1> QED
  BY <1>4, <1>6, <1>7, <1>8, <1>9, <1>10, <1>11, <1>12, <1>13 DEF Next, RunnerStep

\* The plans, the gate, the queue and the runners spend by the rules of the ledger
\* and by no other.
THEOREM PurchasesImplementLedger == Spec => LedgerSpec
<1>1. Init => LedgerInit /\ LedgerTypeOK
  BY SpendLedgerAssumption DEF Init, LedgerInit, LedgerTypeOK
<1> QED BY <1>1, LedgerStep, PTL DEF Spec, LedgerSpec

\* Whatever was planned, confirmed and queued, in however many processes, the month's
\* spend passes the ceiling by no more than the calls in flight.
THEOREM PurchasesOvershootBounded == Spec => []Overshoot
BY PurchasesImplementLedger, OvershootBounded, PTL

-----------------------------------------------------------------------------
(* Consent *)

Shells == [pc : {"idle", "asking", "queueing"}, decision : Nat, next : Nat]
Jobs == [decision : Nat, batch : Nat, status : {"queued", "running", "done", "failed"}]

\* What holds of a decision: it has its fields, and only a plan up to the threshold
\* passes unasked.
Decision(plan, forced, at, seen, answer) ==
  [plan |-> plan, forced |-> forced, at |-> at, seen |-> seen, answer |-> answer]
Entry(d) == Decision(d.plan, d.forced, d.at, d.seen, d.answer)

DecisionWell(d) ==
  /\ decisions[d] = Entry(decisions[d])
  /\ decisions[d].answer = "silent" => ~(Total(decisions[d].plan) > Threshold)

LetThrough(d) == d \in DOMAIN decisions /\ decisions[d].answer \in {"silent", "yes"}

\* What a command that is being run still owes: its decision is its own; while it
\* asks, nothing is queued of it; while it queues, exactly what is before next is.
ShellWell(s) ==
  /\ shell[s].pc = "asking" =>
       /\ shell[s].decision \in DOMAIN decisions /\ shell[s].next = 1
       /\ decisions[shell[s].decision].answer = "pending"
       /\ Total(decisions[shell[s].decision].plan) > Threshold
  /\ shell[s].pc = "queueing" =>
       /\ LetThrough(shell[s].decision) /\ shell[s].next > 0
       /\ \A j \in DOMAIN jobs :
            jobs[j].decision = shell[s].decision => jobs[j].batch < shell[s].next
       /\ \A n \in 1 .. shell[s].next - 1 :
            \E j \in DOMAIN jobs : jobs[j].decision = shell[s].decision /\ jobs[j].batch = n
  /\ \A t \in Spenders \ {s} :
       shell[s].pc # "idle" /\ shell[t].pc # "idle" => shell[s].decision # shell[t].decision

JobsOfOnePlan ==
  /\ \A i, j \in DOMAIN jobs :
       jobs[i].decision = jobs[j].decision /\ jobs[j].batch <= jobs[i].batch => j <= i
  /\ \A i \in DOMAIN jobs : \A n \in 1 .. jobs[i].batch - 1 :
       \E j \in DOMAIN jobs : jobs[j].decision = jobs[i].decision /\ jobs[j].batch = n

ConsentInv ==
  /\ shell \in [Spenders -> Shells] /\ jobs \in Seq(Jobs)
  /\ \E S : decisions \in Seq(S)
  /\ \A d \in DOMAIN decisions : DecisionWell(d)
  /\ \A j \in DOMAIN jobs : LetThrough(jobs[j].decision)
  /\ \A s \in Spenders : ShellWell(s)
  /\ JobsOfOnePlan

LEMMA ConsentInit == Init => ConsentInv
<1> SUFFICES ASSUME Init PROVE ConsentInv
  OBVIOUS
<1>1. shell = [s \in Spenders |-> IdleShell] /\ jobs = <<>> /\ decisions = <<>>
  BY DEF Init
<1>2. shell \in [Spenders -> Shells] /\ jobs \in Seq(Jobs) /\ decisions \in Seq({})
  BY <1>1 DEF IdleShell, Shells
<1>3. DOMAIN jobs = {} /\ DOMAIN decisions = {}
  BY <1>1
<1>4. \A s \in Spenders : ShellWell(s)
  BY <1>1 DEF ShellWell, IdleShell
<1> QED BY <1>2, <1>3, <1>4 DEF ConsentInv, JobsOfOnePlan

\* Jobs only change in status.
LEMMA StatusesOnly ==
  ASSUME ConsentInv, UNCHANGED <<shell, decisions>>, jobs' \in Seq(Jobs),
         DOMAIN jobs' = DOMAIN jobs,
         \A j \in DOMAIN jobs : /\ jobs'[j].decision = jobs[j].decision
                                /\ jobs'[j].batch = jobs[j].batch
  PROVE  ConsentInv'
<1>1. \A d \in DOMAIN decisions' : DecisionWell(d)'
  BY DEF ConsentInv, DecisionWell
<1>2. \A j \in DOMAIN jobs' : LetThrough(jobs[j].decision)'
  BY DEF ConsentInv, LetThrough
<1>3. ASSUME NEW s \in Spenders PROVE ShellWell(s)'
  <2>1. ShellWell(s)
    BY DEF ConsentInv
  <2>2. \A d : LetThrough(d)' <=> LetThrough(d)
    BY DEF LetThrough
  <2> QED BY <2>1, <2>2 DEF ShellWell
<1>4. JobsOfOnePlan'
  <2>1. JobsOfOnePlan
    BY DEF ConsentInv
  <2> QED BY <2>1 DEF JobsOfOnePlan
<1> QED BY <1>1, <1>2, <1>3, <1>4 DEF ConsentInv

\* A status of one job, or of all that were running, is new.
StatusesChange(job, status) ==
  \/ jobs' = [jobs EXCEPT ![job].status = status]
  \/ jobs' = [j \in DOMAIN jobs |-> IF jobs[j].status = "running"
                                    THEN [jobs[j] EXCEPT !.status = "queued"]
                                    ELSE jobs[j]]
  \/ jobs' = jobs

LEMMA JobsStay ==
  ASSUME jobs \in Seq(Jobs), NEW job, NEW status \in {"queued", "running", "done", "failed"},
         StatusesChange(job, status)
  PROVE  /\ jobs' \in Seq(Jobs) /\ DOMAIN jobs' = DOMAIN jobs
         /\ \A j \in DOMAIN jobs : /\ jobs'[j].decision = jobs[j].decision
                                   /\ jobs'[j].batch = jobs[j].batch
<1>1. jobs \in [1 .. Len(jobs) -> Jobs] /\ Len(jobs) \in Nat /\ DOMAIN jobs = 1 .. Len(jobs)
  OBVIOUS
<1>2. ASSUME NEW j \in DOMAIN jobs, NEW new \in {"queued", "running", "done", "failed"}
      PROVE  /\ [jobs[j] EXCEPT !.status = new] \in Jobs
             /\ [jobs[j] EXCEPT !.status = new].decision = jobs[j].decision
             /\ [jobs[j] EXCEPT !.status = new].batch = jobs[j].batch
  BY <1>1 DEF Jobs
<1>3. /\ jobs' \in [1 .. Len(jobs) -> Jobs] /\ DOMAIN jobs' = DOMAIN jobs
      /\ \A j \in DOMAIN jobs : /\ jobs'[j].decision = jobs[j].decision
                                /\ jobs'[j].batch = jobs[j].batch
  <2>1. CASE jobs' = jobs
    BY <1>1, <2>1
  <2>2. CASE jobs' = [jobs EXCEPT ![job].status = status]
    <3>1. ASSUME NEW j \in DOMAIN jobs
          PROVE  jobs'[j] = jobs[j] \/ jobs'[j] = [jobs[j] EXCEPT !.status = status]
      BY <1>1, <2>2
    <3>2. ASSUME NEW j \in DOMAIN jobs
          PROVE  /\ jobs'[j] \in Jobs /\ jobs'[j].decision = jobs[j].decision
                 /\ jobs'[j].batch = jobs[j].batch
      BY <1>1, <1>2, <3>1
    <3>3. DOMAIN jobs' = DOMAIN jobs /\ jobs' = [j \in DOMAIN jobs |-> jobs'[j]]
      BY <1>1, <2>2
    <3> QED BY <1>1, <3>2, <3>3
  <2>3. CASE jobs' = [j \in DOMAIN jobs |-> IF jobs[j].status = "running"
                                          THEN [jobs[j] EXCEPT !.status = "queued"]
                                          ELSE jobs[j]]
    <3>1. ASSUME NEW j \in DOMAIN jobs
          PROVE  jobs'[j] = jobs[j] \/ jobs'[j] = [jobs[j] EXCEPT !.status = "queued"]
      BY <2>3
    <3>2. ASSUME NEW j \in DOMAIN jobs
          PROVE  /\ jobs'[j] \in Jobs /\ jobs'[j].decision = jobs[j].decision
                 /\ jobs'[j].batch = jobs[j].batch
      BY <1>1, <1>2, <3>1
    <3>3. DOMAIN jobs' = DOMAIN jobs /\ jobs' = [j \in DOMAIN jobs |-> jobs'[j]]
      BY <2>3
    <3> QED BY <1>1, <3>2, <3>3
  <2> QED BY <2>1, <2>2, <2>3 DEF StatusesChange
<1>4. jobs' \in Seq(Jobs)
  BY <1>1, <1>3
<1> QED BY <1>3, <1>4

LEMMA NewStatus ==
  ASSUME ConsentInv, UNCHANGED <<shell, decisions>>,
         NEW job, NEW status \in {"queued", "running", "done", "failed"},
         StatusesChange(job, status)
  PROVE  ConsentInv'
BY JobsStay, StatusesOnly DEF ConsentInv

\* A command that ends owes nothing.
LEMMA ShellEnds ==
  ASSUME ConsentInv, NEW s \in Spenders, shell' = [shell EXCEPT ![s] = IdleShell],
         UNCHANGED <<decisions, jobs>>
  PROVE  ConsentInv'
<1>1. shell' \in [Spenders -> Shells] /\ shell'[s].pc = "idle"
      /\ \A t \in Spenders \ {s} : shell'[t] = shell[t]
  BY DEF ConsentInv, IdleShell, Shells
<1>2. ASSUME NEW t \in Spenders PROVE ShellWell(t)'
  <2>1. CASE t = s
    BY <1>1, <2>1 DEF ShellWell
  <2>2. CASE t # s
    BY <1>1, <2>2 DEF ConsentInv, ShellWell, LetThrough
  <2> QED BY <2>1, <2>2
<1> QED BY <1>1, <1>2 DEF ConsentInv, DecisionWell, LetThrough, JobsOfOnePlan

\* A new decision is nobody else's and has no job.
LEMMA AskKeeps ==
  ASSUME ConsentInv, NEW s \in Spenders, shell[s].pc = "idle",
         NEW plan, NEW forced, Ask(s, plan, forced)
  PROVE  ConsentInv'
<1>1. PICK S : decisions \in Seq(S)
  BY DEF ConsentInv
<1>2. PICK answer \in FirstAnswers(s, plan) :
        /\ decisions' = Append(decisions, [plan |-> plan, forced |-> forced, at |-> now,
                                           seen |-> Len(archive), answer |-> answer])
        /\ shell' = [shell EXCEPT ![s] =
                      [pc |-> IF answer = "pending" THEN "asking" ELSE "queueing",
                       decision |-> Len(decisions) + 1, next |-> 1]]
  BY DEF Ask
<1>0. PICK last \in Nat : last = Len(decisions) + 1
  BY <1>1
<1> DEFINE decision == [plan |-> plan, forced |-> forced, at |-> now,
                        seen |-> Len(archive), answer |-> answer]
           new == [pc |-> IF answer = "pending" THEN "asking" ELSE "queueing",
                   decision |-> last, next |-> 1]
<1>3. /\ decision.plan = plan /\ decision.answer = answer
      /\ new.decision = last /\ new.next = 1
      /\ new.pc = IF answer = "pending" THEN "asking" ELSE "queueing"
  OBVIOUS
<1>4. UNCHANGED jobs
  BY DEF Ask
<1>5. /\ answer = "pending" => Total(plan) > Threshold
      /\ answer = "silent" => ~(Total(plan) > Threshold)
      /\ answer \in {"pending", "silent", "yes"}
  BY <1>2 DEF FirstAnswers, NeedsConfirmation
<1>6. new \in Shells
  BY DEF Shells
<1> HIDE DEF decision, new
<1>7. /\ decisions' \in Seq(S \cup {decision})
      /\ DOMAIN decisions' = DOMAIN decisions \cup {last} /\ last \notin DOMAIN decisions
      /\ decisions'[last] = decision
      /\ \A d \in DOMAIN decisions : decisions'[d] = decisions[d]
  <2>1. decisions' = Append(decisions, decision) /\ decisions \in Seq(S \cup {decision})
    BY <1>1, <1>2 DEF decision
  <2> QED BY <1>0, <2>1
<1>8. /\ shell' \in [Spenders -> Shells] /\ shell'[s] = new
      /\ \A t \in Spenders \ {s} : shell'[t] = shell[t]
  BY <1>0, <1>2, <1>6 DEF ConsentInv, new
<1>9. \A d : LetThrough(d) => LetThrough(d)' /\ d # last
  BY <1>7 DEF LetThrough
<1>10. ASSUME NEW j \in DOMAIN jobs
       PROVE  LetThrough(jobs[j].decision)' /\ jobs[j].decision # last
  BY <1>4, <1>9 DEF ConsentInv
<1>11. \A d \in DOMAIN decisions' : DecisionWell(d)'
  <2>1. decision = Entry(decision)
    BY DEF decision, Entry, Decision
  <2> QED BY <1>3, <1>5, <1>7, <2>1 DEF ConsentInv, DecisionWell
<1>12. ShellWell(s)'
  <2>1. ASSUME NEW t \in Spenders \ {s}, shell[t].pc # "idle" PROVE shell[t].decision # last
    <3>1. ShellWell(t) /\ shell[t].pc \in {"asking", "queueing"}
      BY <2>1 DEF ConsentInv, Shells
    <3> QED BY <1>7, <3>1 DEF ShellWell, LetThrough
  <2>2. new.pc = "asking" => /\ last \in DOMAIN decisions' /\ decisions'[last].answer = "pending"
                            /\ Total(decisions'[last].plan) > Threshold
    BY <1>3, <1>5, <1>7
  <2>3. new.pc = "queueing" => LetThrough(last)'
    BY <1>3, <1>5, <1>7 DEF LetThrough
  <2> QED
    BY <1>3, <1>4, <1>8, <1>10, <2>1, <2>2, <2>3 DEF ShellWell
<1>13. ASSUME NEW t \in Spenders \ {s} PROVE ShellWell(t)'
  <2>1. ShellWell(t) /\ shell'[t] = shell[t] /\ shell[t] \in Shells
    BY <1>8 DEF ConsentInv
  <2>2. shell[t].pc # "idle" => shell[t].decision \in DOMAIN decisions
    BY <2>1 DEF ShellWell, LetThrough, Shells
  <2>3. shell[t].pc # "idle" =>
          \A r \in Spenders \ {t} : shell'[r].pc # "idle" => shell'[r].decision # shell[t].decision
    <3>1. ASSUME shell[t].pc # "idle", NEW r \in Spenders \ {t}, shell'[r].pc # "idle"
          PROVE  shell'[r].decision # shell[t].decision
      <4>1. CASE r = s
        BY <1>3, <1>7, <1>8, <2>2, <3>1, <4>1
      <4>2. CASE r # s
        BY <1>8, <2>1, <3>1, <4>2 DEF ShellWell
      <4> QED BY <4>1, <4>2
    <3> QED BY <3>1
  <2>4. shell[t].pc = "asking" => /\ shell[t].decision \in DOMAIN decisions'
                                 /\ decisions'[shell[t].decision] = decisions[shell[t].decision]
    BY <1>7, <2>2
  <2> QED BY <1>4, <1>9, <2>1, <2>3, <2>4 DEF ShellWell
<1> QED
  BY <1>4, <1>7, <1>8, <1>10, <1>11, <1>12, <1>13 DEF ConsentInv, JobsOfOnePlan

\* An answer settles a plan that has no job yet.
LEMMA AnswerKeeps ==
  ASSUME ConsentInv, NEW s \in Spenders, NEW yes \in BOOLEAN, Answer(s, yes)
  PROVE  ConsentInv'
<1>0. PICK d : d = shell[s].decision
  OBVIOUS
<1>1. /\ shell[s].pc = "asking" /\ UNCHANGED jobs
      /\ decisions' = [decisions EXCEPT ![d].answer = IF yes THEN "yes" ELSE "no"]
      /\ shell' = [shell EXCEPT ![s] = IF yes THEN [@ EXCEPT !.pc = "queueing"] ELSE IdleShell]
  BY <1>0 DEF Answer
<1>2. PICK S : decisions \in Seq(S)
  BY DEF ConsentInv
<1>3. /\ d \in DOMAIN decisions /\ decisions[d].answer = "pending" /\ shell[s].next = 1
      /\ shell[s] \in Shells
  BY <1>0, <1>1 DEF ConsentInv, ShellWell
<1> DEFINE answered == [decisions[d] EXCEPT !.answer = IF yes THEN "yes" ELSE "no"]
           new == IF yes THEN [shell[s] EXCEPT !.pc = "queueing"] ELSE IdleShell
<1>4. /\ new \in Shells /\ new.pc = IF yes THEN "queueing" ELSE "idle"
      /\ yes => new.decision = d /\ new.next = 1
  BY <1>0, <1>3 DEF Shells, IdleShell
<1> HIDE DEF new
<1>5. /\ shell' \in [Spenders -> Shells] /\ shell'[s] = new
      /\ \A t \in Spenders \ {s} : shell'[t] = shell[t]
  BY <1>1, <1>4 DEF ConsentInv, new
<1>6. /\ answered = Entry(answered) /\ answered.plan = decisions[d].plan
      /\ answered.answer = IF yes THEN "yes" ELSE "no"
  <2> DEFINE old == decisions[d]
             known == Decision(old.plan, old.forced, old.at, old.seen, old.answer)
  <2>1. old = known
    BY <1>3 DEF ConsentInv, DecisionWell, Entry
  <2>2. [known EXCEPT !.answer = IF yes THEN "yes" ELSE "no"] =
          Decision(old.plan, old.forced, old.at, old.seen, IF yes THEN "yes" ELSE "no")
    BY DEF Decision
  <2>3. answered = Decision(old.plan, old.forced, old.at, old.seen, IF yes THEN "yes" ELSE "no")
    BY <2>1, <2>2
  <2> HIDE DEF answered
  <2> QED BY <2>3 DEF Entry, Decision
<1>7. decisions' = [decisions EXCEPT ![d] = answered]
  BY <1>1, <1>3
<1> HIDE DEF answered
<1>8. /\ DOMAIN decisions' = DOMAIN decisions /\ decisions'[d] = answered
      /\ \A e \in DOMAIN decisions \ {d} : decisions'[e] = decisions[e]
      /\ decisions' \in Seq(S \cup {answered})
  <2>1. decisions \in Seq(S \cup {answered})
    BY <1>2
  <2> QED BY <1>3, <1>7, <2>1
<1>9. \A e : LetThrough(e) => LetThrough(e)' /\ e # d
  BY <1>3, <1>8 DEF LetThrough
<1>10. ASSUME NEW j \in DOMAIN jobs
       PROVE  LetThrough(jobs[j].decision)' /\ jobs[j].decision # d
  BY <1>1, <1>9 DEF ConsentInv
<1>11. \A e \in DOMAIN decisions' : DecisionWell(e)'
  BY <1>6, <1>8 DEF ConsentInv, DecisionWell
<1>12. ASSUME NEW t \in Spenders \ {s}
       PROVE  shell[t].pc # "idle" => shell[t].decision # d
  BY <1>0, <1>1 DEF ConsentInv, ShellWell
<1>13. ShellWell(s)'
  <2>1. yes => LetThrough(d)'
    BY <1>3, <1>6, <1>8 DEF LetThrough
  <2>2. \A j \in DOMAIN jobs' : jobs'[j].decision # d
    BY <1>1, <1>10
  <2>3. ASSUME NEW t \in Spenders \ {s}, shell'[s].pc # "idle", shell'[t].pc # "idle"
        PROVE  shell'[s].decision # shell'[t].decision
    BY <1>4, <1>5, <1>12, <2>3
  <2>4. shell'[s].pc \in {"idle", "queueing"}
    BY <1>4, <1>5
  <2>5. shell'[s].pc = "queueing" => shell'[s].decision = d /\ shell'[s].next = 1 /\ yes
    BY <1>4, <1>5
  <2> QED BY <2>1, <2>2, <2>3, <2>4, <2>5 DEF ShellWell
<1>14. ASSUME NEW t \in Spenders \ {s} PROVE ShellWell(t)'
  <2>1. ShellWell(t) /\ shell'[t] = shell[t] /\ shell[t] \in Shells
    BY <1>5 DEF ConsentInv
  <2>2. shell[t].pc # "idle" =>
          \A r \in Spenders \ {t} : shell'[r].pc # "idle" => shell'[r].decision # shell[t].decision
    <3>1. ASSUME shell[t].pc # "idle", NEW r \in Spenders \ {t}, shell'[r].pc # "idle"
          PROVE  shell'[r].decision # shell[t].decision
      <4>1. CASE r = s
        BY <1>4, <1>5, <1>12, <3>1, <4>1
      <4>2. CASE r # s
        BY <1>5, <2>1, <3>1, <4>2 DEF ShellWell
      <4> QED BY <4>1, <4>2
    <3> QED BY <3>1
  <2>3. shell[t].pc = "asking" => /\ shell[t].decision \in DOMAIN decisions'
                                 /\ decisions'[shell[t].decision] = decisions[shell[t].decision]
    BY <1>8, <1>12, <2>1 DEF ShellWell
  <2>4. shell'[t].pc = "queueing" => LetThrough(shell[t].decision)'
    <3>0. PICK e : e = shell[t].decision
      OBVIOUS
    <3>1. shell[t].pc = "queueing" => LetThrough(e)
      BY <2>1, <3>0 DEF ShellWell
    <3>2. shell[t].pc = "queueing" => LetThrough(e)'
      BY <1>9, <3>1
    <3>3. shell'[t].decision = e
      BY <2>1, <3>0
    <3> QED BY <2>1, <3>2, <3>3 DEF LetThrough
  <2>5. shell'[t].pc = "queueing" =>
          /\ shell'[t].next > 0
          /\ \A j \in DOMAIN jobs' :
               jobs'[j].decision = shell'[t].decision => jobs'[j].batch < shell'[t].next
          /\ \A n \in 1 .. shell'[t].next - 1 :
               \E j \in DOMAIN jobs' : jobs'[j].decision = shell'[t].decision /\ jobs'[j].batch = n
    BY <1>1, <2>1 DEF ShellWell
  <2>6. shell'[t].pc = "asking" =>
          /\ shell'[t].decision \in DOMAIN decisions' /\ shell'[t].next = 1
          /\ decisions'[shell'[t].decision].answer = "pending"
          /\ Total(decisions'[shell'[t].decision].plan) > Threshold
    BY <2>1, <2>3 DEF ShellWell
  <2> QED BY <2>1, <2>2, <2>4, <2>5, <2>6 DEF ShellWell
<1> QED
  BY <1>1, <1>5, <1>8, <1>10, <1>11, <1>13, <1>14 DEF ConsentInv, JobsOfOnePlan

\* The next request of a plan is queued behind the others of it.
LEMMA EnqueueKeeps ==
  ASSUME ConsentInv, NEW s \in Spenders, EnqueueNext(s)
  PROVE  ConsentInv'
<1>0. PICK d, n : d = shell[s].decision /\ n = shell[s].next
  OBVIOUS
<1>1. /\ shell[s].pc = "queueing" /\ UNCHANGED decisions
      /\ jobs' = Append(jobs, [decision |-> d, batch |-> n, status |-> "queued"])
      /\ shell' = [shell EXCEPT ![s] = IF n = Len(decisions[d].plan) THEN IdleShell
                                      ELSE [@ EXCEPT !.next = n + 1]]
  BY <1>0 DEF EnqueueNext
<1>2. /\ LetThrough(d) /\ n \in Nat /\ n > 0 /\ d \in Nat /\ shell[s] \in Shells
      /\ \A j \in DOMAIN jobs : jobs[j].decision = d => jobs[j].batch < n
      /\ \A m \in 1 .. n - 1 : \E j \in DOMAIN jobs : jobs[j].decision = d /\ jobs[j].batch = m
  <2>1. ShellWell(s) /\ shell[s] \in Shells
    BY DEF ConsentInv
  <2> QED BY <1>0, <1>1, <2>1 DEF ShellWell, Shells
<1>3. PICK last \in Nat : last = Len(jobs) + 1
  BY DEF ConsentInv
<1> DEFINE job == [decision |-> d, batch |-> n, status |-> "queued"]
           new == IF n = Len(decisions[d].plan) THEN IdleShell ELSE [shell[s] EXCEPT !.next = n + 1]
<1>4. job \in Jobs /\ job.decision = d /\ job.batch = n
  BY <1>2 DEF Jobs
<1>5. /\ new \in Shells /\ new.pc \in {"idle", "queueing"}
      /\ new.pc # "idle" => new.decision = d /\ new.next = n + 1
  BY <1>0, <1>1, <1>2 DEF Shells, IdleShell
<1> HIDE DEF job, new
<1>6. /\ jobs' \in Seq(Jobs) /\ DOMAIN jobs' = DOMAIN jobs \cup {last} /\ last \notin DOMAIN jobs
      /\ jobs'[last] = job /\ DOMAIN jobs = 1 .. last - 1
      /\ \A j \in DOMAIN jobs : jobs'[j] = jobs[j]
  <2>1. jobs \in Seq(Jobs) /\ jobs' = Append(jobs, job)
    BY <1>1 DEF ConsentInv, job
  <2> QED BY <1>3, <1>4, <2>1
<1>7. /\ shell' \in [Spenders -> Shells] /\ shell'[s] = new
      /\ \A t \in Spenders \ {s} : shell'[t] = shell[t]
  BY <1>1, <1>5 DEF ConsentInv, new
<1>8. \A e : LetThrough(e) <=> LetThrough(e)'
  BY <1>1 DEF LetThrough
<1>9. ASSUME NEW t \in Spenders \ {s}
      PROVE  shell[t].pc # "idle" => shell[t].decision # d
  BY <1>0, <1>1 DEF ConsentInv, ShellWell
<1>10. ShellWell(s)'
  <2>1. ASSUME NEW m \in 1 .. n
        PROVE  \E j \in DOMAIN jobs' : jobs'[j].decision = d /\ jobs'[j].batch = m
    <3>1. CASE m = n
      BY <1>4, <1>6, <3>1
    <3>2. CASE m # n
      <4>1. m \in 1 .. n - 1
        BY <1>2, <3>2
      <4> QED BY <1>2, <1>6, <4>1
    <3> QED BY <3>1, <3>2
  <2>2. ASSUME NEW j \in DOMAIN jobs', jobs'[j].decision = d PROVE jobs'[j].batch < n + 1
    <3>1. CASE j = last
      BY <1>2, <1>4, <1>6, <3>1
    <3>2. CASE j # last
      <4>1. j \in DOMAIN jobs /\ jobs'[j] = jobs[j] /\ jobs[j] \in Jobs
        BY <1>6, <3>2 DEF ConsentInv
      <4> QED BY <1>2, <2>2, <4>1 DEF Jobs
    <3> QED BY <3>1, <3>2
  <2>3. ASSUME NEW t \in Spenders \ {s}, shell'[s].pc # "idle", shell'[t].pc # "idle"
        PROVE  shell'[s].decision # shell'[t].decision
    BY <1>5, <1>7, <1>9, <2>3
  <2>4. n + 1 - 1 = n /\ n + 1 > 0
    BY <1>2
  <2> QED BY <1>2, <1>5, <1>7, <1>8, <2>1, <2>2, <2>3, <2>4 DEF ShellWell
<1>11. ASSUME NEW t \in Spenders \ {s} PROVE ShellWell(t)'
  <2>1. ShellWell(t) /\ shell'[t] = shell[t] /\ shell[t] \in Shells
    BY <1>7 DEF ConsentInv
  <2>2. shell[t].pc # "idle" =>
          \A r \in Spenders \ {t} : shell'[r].pc # "idle" => shell'[r].decision # shell[t].decision
    <3>1. ASSUME shell[t].pc # "idle", NEW r \in Spenders \ {t}, shell'[r].pc # "idle"
          PROVE  shell'[r].decision # shell[t].decision
      <4>1. CASE r = s
        BY <1>5, <1>7, <1>9, <3>1, <4>1
      <4>2. CASE r # s
        BY <1>7, <2>1, <3>1, <4>2 DEF ShellWell
      <4> QED BY <4>1, <4>2
    <3> QED BY <3>1
  <2>3. shell[t].pc = "queueing" =>
          /\ \A j \in DOMAIN jobs' :
               jobs'[j].decision = shell[t].decision => jobs'[j].batch < shell[t].next
          /\ \A m \in 1 .. shell[t].next - 1 :
               \E j \in DOMAIN jobs' : jobs'[j].decision = shell[t].decision /\ jobs'[j].batch = m
    BY <1>4, <1>6, <1>9, <2>1 DEF ShellWell
  <2> QED BY <1>1, <1>8, <2>1, <2>2, <2>3 DEF ShellWell
<1>12. JobsOfOnePlan'
  <2>0. JobsOfOnePlan /\ \A j \in DOMAIN jobs : jobs[j] \in Jobs
    BY DEF ConsentInv
  <2>1. ASSUME NEW i \in DOMAIN jobs', NEW j \in DOMAIN jobs',
               jobs'[i].decision = jobs'[j].decision, jobs'[j].batch <= jobs'[i].batch
        PROVE  j <= i
    <3>1. CASE i = last
      BY <1>6, <2>1, <3>1
    <3>2. CASE i # last /\ j = last
      <4>1. i \in DOMAIN jobs /\ jobs[i].decision = d /\ jobs[i].batch \in Nat /\ n <= jobs[i].batch
        BY <1>4, <1>6, <2>0, <2>1, <3>2 DEF Jobs
      <4> QED BY <1>2, <4>1
    <3>3. CASE i # last /\ j # last
      BY <1>6, <2>0, <2>1, <3>3 DEF JobsOfOnePlan
    <3> QED BY <3>1, <3>2, <3>3
  <2>2. ASSUME NEW i \in DOMAIN jobs', NEW m \in 1 .. jobs'[i].batch - 1
        PROVE  \E j \in DOMAIN jobs' : jobs'[j].decision = jobs'[i].decision /\ jobs'[j].batch = m
    <3>1. CASE i = last
      BY <1>2, <1>4, <1>6, <2>2, <3>1
    <3>2. CASE i # last
      BY <1>6, <2>0, <2>2, <3>2 DEF JobsOfOnePlan
    <3> QED BY <3>1, <3>2
  <2> QED BY <2>1, <2>2 DEF JobsOfOnePlan
<1>13. ASSUME NEW j \in DOMAIN jobs' PROVE LetThrough(jobs[j].decision)'
  <2>1. CASE j = last
    BY <1>2, <1>4, <1>6, <1>8, <2>1
  <2>2. CASE j # last
    <3>1. LetThrough(jobs[j].decision) /\ jobs'[j] = jobs[j]
      BY <1>6, <2>2 DEF ConsentInv
    <3> QED BY <1>8, <3>1
  <2> QED BY <2>1, <2>2
<1>14. /\ \E S : decisions' \in Seq(S)
       /\ \A e \in DOMAIN decisions' : DecisionWell(e)'
  BY <1>1 DEF ConsentInv, DecisionWell
<1> QED BY <1>6, <1>7, <1>10, <1>11, <1>12, <1>13, <1>14 DEF ConsentInv

\* One step per action.
LEMMA ConsentStep == ConsentInv /\ [Next]_allVars => ConsentInv'
<1> SUFFICES ASSUME ConsentInv, [Next]_allVars PROVE ConsentInv'
  OBVIOUS
<1>1. Tui \in Spenders
  BY PurchasesAssumption
<1>2. ASSUME NEW s \in Spenders, CanAsk(s), NEW plan, NEW forced, Ask(s, plan, forced)
      PROVE  ConsentInv'
  BY <1>2, AskKeeps DEF CanAsk
<1>3. ASSUME NEW s \in Spenders,
             AskVolume(s) \/ AskIdeas(s) \/ AskRanks(s) \/ AskGap(s)
      PROVE ConsentInv'
  BY <1>2, <1>3 DEF AskVolume, AskIdeas, AskRanks, AskGap, AskPull, AskEither
<1>4. CASE AskStale
  BY <1>1, <1>2, <1>4 DEF AskStale
<1>5. ASSUME NEW s \in Spenders, NEW yes \in BOOLEAN, Answer(s, yes) PROVE ConsentInv'
  BY <1>5, AnswerKeeps
<1>6. ASSUME NEW s \in Spenders, EnqueueNext(s) PROVE ConsentInv'
  BY <1>6, EnqueueKeeps
<1>7. ASSUME NEW s \in Spenders, Abandon(s) PROVE ConsentInv'
  BY <1>7, ShellEnds DEF Abandon
<1>8. CASE CloseTui
  BY <1>1, <1>8, ShellEnds DEF CloseTui
<1>9. ASSUME UNCHANGED <<shell, decisions, jobs>> PROVE ConsentInv'
  BY <1>9, NewStatus DEF StatusesChange
<1>10. CASE OtherCommand \/ Tick \/ UNCHANGED allVars
  BY <1>9, <1>10 DEF OtherCommand, Tick, allVars, purchaseVars
<1>11. CASE OpenTui
  BY <1>11, NewStatus DEF StatusesChange, OpenTui, Start
<1>12. ASSUME NEW h \in Spenders, StartDrain(h) PROVE ConsentInv'
  BY <1>12, NewStatus DEF StatusesChange, StartDrain, Start
<1>13. ASSUME NEW h \in Spenders, StopRunner(h) PROVE ConsentInv'
  BY <1>9, <1>13 DEF StopRunner
<1>14. ASSUME NEW h \in Spenders, Claim(h) PROVE ConsentInv'
  <2>1. /\ \E j \in DOMAIN jobs, status \in {"queued", "running", "done", "failed"} :
             jobs' = [jobs EXCEPT ![j].status = status]
        /\ UNCHANGED <<shell, decisions>>
    BY <1>14 DEF Claim
  <2> QED BY <2>1, NewStatus DEF StatusesChange
<1>15. ASSUME NEW h \in Spenders, NEW excess, NEW answer, Deliver(h, excess, answer)
       PROVE  ConsentInv'
  <2>1. jobs' = [jobs EXCEPT ![runner[h].job].status = "done"] /\ UNCHANGED <<shell, decisions>>
    BY <1>15 DEF Deliver
  <2> QED BY <2>1, NewStatus DEF StatusesChange
<1>16. ASSUME NEW h \in Spenders, Fail(h) PROVE ConsentInv'
  <2>1. /\ \E status \in {"queued", "failed"} :
             jobs' = [jobs EXCEPT ![runner[h].job].status = status]
        /\ UNCHANGED <<shell, decisions>>
    BY <1>16 DEF Fail
  <2> QED BY <2>1, NewStatus DEF StatusesChange
<1> QED
  BY <1>3, <1>4, <1>5, <1>6, <1>7, <1>8, <1>10, <1>11, <1>12, <1>13, <1>14, <1>15, <1>16
  DEF Next, RunnerStep

\* "Confirmation is a deliberate keypress above the threshold": whoever plans beside
\* whom, and whatever dies between two requests of a plan, every job is of a plan
\* that was let through, and a plan above the threshold was said yes to as a whole.
THEOREM NothingQueuedWithoutConsent == Spec => []ConsentGiven
<1>1. ConsentInv => ConsentGiven
  <2> SUFFICES ASSUME ConsentInv PROVE ConsentGiven
    OBVIOUS
  <2>1. ASSUME NEW j \in DOMAIN jobs
        PROVE  /\ decisions[jobs[j].decision].answer \in {"silent", "yes"}
               /\ Total(decisions[jobs[j].decision].plan) > Threshold =>
                    decisions[jobs[j].decision].answer = "yes"
    BY DEF ConsentInv, LetThrough, DecisionWell
  <2>2. JobsOfOnePlan
    BY DEF ConsentInv
  <2> QED BY <2>1, <2>2 DEF ConsentGiven, JobsOfOnePlan
<1> QED BY <1>1, ConsentInit, ConsentStep, PTL DEF Spec

-----------------------------------------------------------------------------
(* Nothing owned is bought again: the archive *)

\* What a plan may ask for.
Asked == {Request("volume", keywords, <<>>, 0) : keywords \in SUBSET Keywords}
         \cup IdeasRequests \cup RanksRequests \cup GapRequests

Rows == [request : Asked, job : Nat, at : Nat, returned : SUBSET Keywords]

\* A keyword is owned by the last row that returned it.
OwnerIsLatest(k) ==
  /\ owner[k] \in 0 .. Len(archive)
  /\ owner[k] # 0 => k \in archive[owner[k]].returned
  /\ \A m \in DOMAIN archive : k \in archive[m].returned => m <= owner[k]

ArchiveInv ==
  /\ now \in Nat /\ archive \in Seq(Rows) /\ owner \in [Keywords -> Nat]
  /\ \A i \in DOMAIN archive : archive[i].at <= now
  /\ \A i, j \in DOMAIN archive : i < j => archive[i].at <= archive[j].at
  /\ \A k \in Keywords : OwnerIsLatest(k)

\* AlreadyAnswered, of any archive, and for a decision of that time.
AnsweredIn(rows, request, at, seen) ==
  LET known == {r \in 1 .. seen : rows[r].at >= at - TTL[request.capability]} IN
  IF request.capability = "volume"
  THEN {r \in known :
          /\ rows[r].request.capability # "ideas"
          /\ \E k \in request.keywords \cap rows[r].returned :
               \A m \in r + 1 .. seen :
                 k \in rows[m].returned => rows[m].request.capability # "ideas"}
  ELSE {r \in known :
          /\ rows[r].request.capability = request.capability
          /\ rows[r].request.domains = request.domains
          /\ request.keywords \subseteq rows[r].request.keywords
          /\ request.depth <= rows[r].request.depth}

\* What was known then does not change with what is stored later.
LEMMA AnsweredStays ==
  ASSUME NEW old, NEW new, NEW request, NEW at, NEW seen \in Nat,
         \A r \in 1 .. seen : new[r] = old[r]
  PROVE  AnsweredIn(new, request, at, seen) = AnsweredIn(old, request, at, seen)
<1> DEFINE Known(rows) == {r \in 1 .. seen : rows[r].at >= at - TTL[request.capability]}
           Measures(rows, r) ==
             /\ rows[r].request.capability # "ideas"
             /\ \E k \in request.keywords \cap rows[r].returned :
                  \A m \in r + 1 .. seen :
                    k \in rows[m].returned => rows[m].request.capability # "ideas"
<1>1. \A r \in 1 .. seen : \A m \in r + 1 .. seen : m \in 1 .. seen
  OBVIOUS
<1>2. Known(new) = Known(old)
  OBVIOUS
<1>3. \A r \in 1 .. seen : Measures(new, r) <=> Measures(old, r)
  BY <1>1
<1>4. {r \in Known(new) : Measures(new, r)} = {r \in Known(old) : Measures(old, r)}
  <2> HIDE DEF Measures
  <2> QED BY <1>2, <1>3
<1>5. CASE request.capability = "volume"
  BY <1>4, <1>5 DEF AnsweredIn
<1>6. CASE request.capability # "volume"
  <2> HIDE DEF Measures
  <2> QED BY <1>2, <1>6 DEF AnsweredIn
<1> QED BY <1>5, <1>6

\* The fields of a request.
LEMMA RequestFields ==
  ASSUME NEW capability, NEW keywords, NEW domains, NEW depth
  PROVE  LET r == Request(capability, keywords, domains, depth) IN
         /\ r.capability = capability /\ r.keywords = keywords
         /\ r.domains = domains /\ r.depth = depth
BY DEF Request

LEMMA AskedCapabilities ==
  ASSUME NEW request \in Asked
  PROVE  /\ request.capability \in Capabilities
         /\ request \in IdeasRequests \cup RanksRequests \cup GapRequests =>
              request.capability # "volume"
<1>1. ASSUME NEW keywords, NEW domains, NEW depth, NEW c, request = Request(c, keywords, domains, depth)
      PROVE  request.capability = c
  BY <1>1, RequestFields
<1>2. request \in IdeasRequests => request.capability = "ideas"
  BY <1>1 DEF IdeasRequests
<1>3. request \in RanksRequests => request.capability = "ranks"
  <2>1. request \in RanksRequests =>
          \E d \in RanksAsked \ {Blank}, limit \in Limits :
            request = Request("ranks", {}, <<d>>, Depth(limit))
    BY SMTT(30) DEF RanksRequests
  <2> QED BY <1>1, <2>1
<1>4. request \in GapRequests => request.capability = "gap"
  BY <1>1 DEF GapRequests
<1>5. request \in {Request("volume", keywords, <<>>, 0) : keywords \in SUBSET Keywords} =>
        request.capability = "volume"
  BY <1>1
<1> QED BY <1>2, <1>3, <1>4, <1>5 DEF Asked, Capabilities

\* A keyword that is not fresh was not measured lately, unless ideas took it over.
LEMMA NotFreshUnanswered ==
  ASSUME ArchiveInv, NEW request, request.capability = "volume",
         \A k \in request.keywords : k \in Keywords /\ ~FreshKeyword(k)
  PROVE  AnsweredIn(archive, request, now, Len(archive)) = {}
<1> SUFFICES ASSUME NEW r \in 1 .. Len(archive), archive[r].at >= now - TTL["volume"],
                    archive[r].request.capability # "ideas",
                    NEW k \in request.keywords \cap archive[r].returned,
                    \A m \in r + 1 .. Len(archive) :
                      k \in archive[m].returned => archive[m].request.capability # "ideas"
             PROVE  FALSE
  BY DEF AnsweredIn
<1> DEFINE o == owner[k]
<1>1. /\ k \in Keywords /\ DOMAIN archive = 1 .. Len(archive) /\ Len(archive) \in Nat
      /\ \A i \in DOMAIN archive : archive[i] \in Rows
  BY DEF ArchiveInv
<1>2. o \in Nat /\ o <= Len(archive) /\ r <= o /\ k \in archive[o].returned
  <2>1. OwnerIsLatest(k) /\ r \in DOMAIN archive
    BY <1>1 DEF ArchiveInv
  <2>2. r <= owner[k] /\ owner[k] \in 0 .. Len(archive)
    BY <2>1 DEF OwnerIsLatest
  <2>3. owner[k] # 0
    BY <2>2
  <2> QED BY <1>1, <2>1, <2>2, <2>3 DEF OwnerIsLatest
<1> HIDE DEF o
<1>3. o \in DOMAIN archive /\ r \in DOMAIN archive
  BY <1>1, <1>2
<1>4. archive[o].request.capability # "ideas"
  <2>1. o = r \/ o \in r + 1 .. Len(archive)
    BY <1>1, <1>2
  <2> QED BY <1>2, <2>1
<1>5. archive[o].request.capability \in Measuring
  <2>1. archive[o].request \in Asked
    BY <1>1, <1>3 DEF Rows
  <2>2. archive[o].request.capability \in Capabilities
    BY <2>1, AskedCapabilities
  <2>3. archive[o].request.capability # "volume" \/ "volume" \in Measuring
    BY DEF Measuring
  <2> QED BY <1>4, <2>2 DEF Capabilities, Measuring
<1>6. archive[o].at >= now - TTL["volume"]
  <2>1. archive[r].at <= archive[o].at
    <3>1. CASE o = r
      BY <1>1, <1>3, <3>1 DEF Rows
    <3>2. CASE o # r
      BY <1>1, <1>2, <1>3, <3>2 DEF ArchiveInv
    <3> QED BY <3>1, <3>2
  <2>2. archive[r].at \in Nat /\ archive[o].at \in Nat /\ now \in Nat /\ TTL["volume"] \in Nat
    BY <1>1, <1>3, PurchasesAssumption DEF Rows, ArchiveInv, Capabilities
  <2> QED BY <2>1, <2>2
<1>7. FreshKeyword(k)
  BY <1>2, <1>3, <1>5, <1>6, <1>1 DEF FreshKeyword, Measured, Within, o
<1> QED BY <1>7

\* A pull that nothing stored covers was not answered.
LEMMA NotOwnedUnanswered ==
  ASSUME NEW request, request.capability # "volume", ~Owned(request), archive \in Seq(Rows)
  PROVE  AnsweredIn(archive, request, now, Len(archive)) = {}
BY DEF AnsweredIn, Owned, Covers, Within

\* As few calls as the vendor allows, each of keywords of the list.
LEMMA BatchesAre ==
  ASSUME NEW K \in SUBSET Keywords, NEW list \in Seq(K)
  PROVE  /\ Batches(list) \in Seq(Asked)
         /\ \A n \in DOMAIN Batches(list) : /\ Batches(list)[n].capability = "volume"
                                            /\ Batches(list)[n].keywords \subseteq K
<1> DEFINE calls == (Len(list) + MaxKeywordsPerCall - 1) \div MaxKeywordsPerCall
           part(i) == {list[n] : n \in {m \in DOMAIN list : /\ m > (i - 1) * MaxKeywordsPerCall
                                                           /\ m <= i * MaxKeywordsPerCall}}
           call(i) == Request("volume", part(i), <<>>, 0)
<1>1. Len(list) \in Nat /\ \A n \in DOMAIN list : list[n] \in K
  OBVIOUS
<1>2. calls \in Nat
  <2> DEFINE q == Len(list) + MaxKeywordsPerCall - 1
  <2>1. q \in Nat /\ MaxKeywordsPerCall \in Nat /\ MaxKeywordsPerCall > 0
    BY <1>1, PurchasesAssumption
  <2> HIDE DEF q
  <2>2. q \div MaxKeywordsPerCall \in Nat
    BY <2>1
  <2> QED BY <2>2 DEF q
<1>3. \A i : part(i) \subseteq K
  BY <1>1
<1>4. Batches(list) = [i \in 1 .. calls |-> call(i)]
  BY DEF Batches
<1> HIDE DEF part, calls
<1>5. \A i : /\ call(i) \in Asked /\ call(i).capability = "volume"
             /\ call(i).keywords \subseteq K
  <2> TAKE i
  <2>1. part(i) \in SUBSET Keywords /\ part(i) \subseteq K
    BY <1>3
  <2> QED BY <2>1, RequestFields DEF Asked
<1> HIDE DEF call
<1>6. Batches(list) \in [1 .. calls -> Asked] /\ DOMAIN Batches(list) = 1 .. calls
  BY <1>4, <1>5
<1>7. Batches(list) \in Seq(Asked)
  BY <1>2, <1>6
<1> QED BY <1>4, <1>5, <1>6, <1>7

\* What is typed names keywords.
LEMMA NormaliseIs == ASSUME NEW words \in Typed PROVE Normalise(words) \in Seq(Keywords)
<1> DEFINE cleaned == [n \in DOMAIN words |-> Cleaned[words[n]]]
           places == {n \in DOMAIN cleaned : /\ cleaned[n] # Blank
                                            /\ \A m \in 1 .. n - 1 : cleaned[m] # cleaned[n]}
           there == {cleaned[n] : n \in places}
<1>1. words \in Seq(Words) /\ Cleaned \in [Words -> Keywords \cup {Blank}]
  BY PurchasesAssumption
<1>2. cleaned \in Seq(Keywords \cup {Blank})
  BY <1>1
<1>3. Normalise(words) = Picked(cleaned, places)
  BY DEF Normalise
<1>4. places \in SUBSET DOMAIN cleaned /\ there \subseteq Keywords
  <2>1. \A n \in DOMAIN cleaned : cleaned[n] \in Keywords \cup {Blank}
    BY <1>2
  <2> HIDE DEF cleaned
  <2> QED BY <2>1
<1> HIDE DEF cleaned, places
<1>5. Picked(cleaned, places) \in Seq(there)
  BY <1>2, <1>4, PickedIs
<1> HIDE DEF there
<1> QED BY <1>3, <1>4, <1>5

\* A plan asks for something, and unless it was forced for nothing that was answered.
PlanFits(plan, forced, rows, at, seen) ==
  /\ plan \in Seq(Asked)
  /\ ~forced => \A n \in DOMAIN plan : AnsweredIn(rows, plan[n], at, seen) = {}

LEMMA VolumePlanFits ==
  ASSUME ArchiveInv, NEW list \in Seq(Keywords), NEW forced \in BOOLEAN
  PROVE  PlanFits(VolumePlan(list, forced), forced, archive, now, Len(archive))
<1>1. CASE forced
  <2>1. VolumePlan(list, forced) = Batches(list)
    BY <1>1 DEF VolumePlan
  <2>2. Batches(list) \in Seq(Asked)
    <3>1. Keywords \in SUBSET Keywords
      OBVIOUS
    <3> QED BY <3>1, BatchesAre
  <2> QED BY <1>1, <2>1, <2>2 DEF PlanFits
<1>2. CASE ~forced
  <2> DEFINE wanted == {k \in Keywords : ~FreshKeyword(k)}
             kept == Kept(list, wanted)
  <2>1. VolumePlan(list, forced) = Batches(kept)
    BY <1>2 DEF VolumePlan
  <2>2. kept \in Seq(wanted)
    <3>1. kept \in Seq(Keywords \cap wanted)
      BY KeptIs
    <3>2. Keywords \cap wanted = wanted
      OBVIOUS
    <3> QED BY <3>1, <3>2
  <2> HIDE DEF kept
  <2>3. /\ Batches(kept) \in Seq(Asked)
        /\ \A n \in DOMAIN Batches(kept) : /\ Batches(kept)[n].capability = "volume"
                                           /\ Batches(kept)[n].keywords \subseteq wanted
    <3>1. wanted \in SUBSET Keywords
      OBVIOUS
    <3> HIDE DEF wanted
    <3> QED BY <2>2, <3>1, BatchesAre
  <2>4. \A n \in DOMAIN Batches(kept) : AnsweredIn(archive, Batches(kept)[n], now, Len(archive)) = {}
    <3> TAKE n \in DOMAIN Batches(kept)
    <3>1. \A k \in Batches(kept)[n].keywords : k \in Keywords /\ ~FreshKeyword(k)
      BY <2>3
    <3> QED BY <2>3, <3>1, NotFreshUnanswered
  <2> HIDE DEF wanted
  <2>5. PlanFits(Batches(kept), forced, archive, now, Len(archive))
    BY <2>3, <2>4 DEF PlanFits
  <2> QED BY <2>1, <2>5
<1> QED BY <1>1, <1>2

\* The stale keywords are not fresh: no force is needed for them.
LEMMA StalePlanFits ==
  ASSUME ArchiveInv, NEW list \in SetToSeqs(StaleKeywords)
  PROVE  PlanFits(VolumePlan(list, TRUE), FALSE, archive, now, Len(archive))
<1> DEFINE stale == StaleKeywords
<1>1. stale \in SUBSET Keywords /\ \A k \in stale : k \in Keywords /\ ~FreshKeyword(k)
  BY DEF StaleKeywords, FreshKeyword
<1> HIDE DEF stale
<1>2. Cardinality(stale) \in Nat
  BY <1>1, PurchasesAssumption, FS_Subset, FS_CardinalityType
<1>3. list \in [1 .. Cardinality(stale) -> stale]
  BY DEF SetToSeqs, stale
<1>4. list \in Seq(stale)
  BY <1>2, <1>3
<1>5. VolumePlan(list, TRUE) = Batches(list)
  BY DEF VolumePlan
<1>6. /\ Batches(list) \in Seq(Asked)
      /\ \A n \in DOMAIN Batches(list) : /\ Batches(list)[n].capability = "volume"
                                         /\ Batches(list)[n].keywords \subseteq stale
  BY <1>1, <1>4, BatchesAre
<1>7. \A n \in DOMAIN Batches(list) : AnsweredIn(archive, Batches(list)[n], now, Len(archive)) = {}
  <2> TAKE n \in DOMAIN Batches(list)
  <2>1. \A k \in Batches(list)[n].keywords : k \in Keywords /\ ~FreshKeyword(k)
    BY <1>1, <1>6
  <2> QED BY <1>6, <2>1, NotFreshUnanswered
<1> QED BY <1>5, <1>6, <1>7 DEF PlanFits

LEMMA PullPlanFits ==
  ASSUME ArchiveInv, NEW request \in IdeasRequests \cup RanksRequests \cup GapRequests,
         NEW forced \in BOOLEAN
  PROVE  PlanFits(PullPlan(request, forced), forced, archive, now, Len(archive))
<1>1. request \in Asked /\ request.capability # "volume"
  BY AskedCapabilities DEF Asked
<1>2. <<>> \in Seq(Asked) /\ DOMAIN <<>> = {}
  OBVIOUS
<1>3. <<request>> \in Seq(Asked) /\ DOMAIN <<request>> = {1} /\ <<request>>[1] = request
  BY <1>1
<1>4. CASE ~forced /\ Owned(request)
  BY <1>2, <1>4 DEF PullPlan, PlanFits
<1>5. CASE forced \/ ~Owned(request)
  <2>1. PullPlan(request, forced) = <<request>>
    BY <1>5 DEF PullPlan
  <2>2. ~forced => AnsweredIn(archive, request, now, Len(archive)) = {}
    BY <1>1, <1>5, NotOwnedUnanswered DEF ArchiveInv
  <2> QED BY <1>3, <2>1, <2>2 DEF PlanFits
<1> QED BY <1>4, <1>5

-----------------------------------------------------------------------------
(* Nothing owned is bought again: decisions, jobs and runners *)

\* A decision keeps what its plan rested on.
DecisionFits(d) ==
  /\ decisions[d].plan # <<>> /\ decisions[d].seen \in 0 .. Len(archive)
  /\ PlanFits(decisions[d].plan, decisions[d].forced, archive, decisions[d].at, decisions[d].seen)

\* Every job is of a request of its plan, and so is every row.
JobFits(j) == jobs[j].batch \in DOMAIN decisions[jobs[j].decision].plan

RowFits(i) == archive[i].job \in DOMAIN jobs /\ archive[i].request = RequestOf(archive[i].job)

ShellFits(s) ==
  shell[s].pc = "queueing" => shell[s].next \in DOMAIN decisions[shell[s].decision].plan

RunnerFits(h) == runner[h].job \in {0} \cup DOMAIN jobs

PlansInv ==
  /\ \A d \in DOMAIN decisions : DecisionFits(d)
  /\ \A j \in DOMAIN jobs : JobFits(j)
  /\ \A i \in DOMAIN archive : RowFits(i)
  /\ \A s \in Spenders : ShellFits(s)
  /\ runner \in [Spenders -> [up : BOOLEAN, job : Nat]]
  /\ \A h \in Spenders : RunnerFits(h)

OwnedInv == ConsentInv /\ ArchiveInv /\ PlansInv

LEMMA OwnedInit == Init => OwnedInv
<1> SUFFICES ASSUME Init PROVE OwnedInv
  OBVIOUS
<1>1. /\ now = 0 /\ archive = <<>> /\ owner = [k \in Keywords |-> 0] /\ decisions = <<>>
      /\ jobs = <<>> /\ shell = [s \in Spenders |-> IdleShell] /\ runner = [h \in Spenders |-> Down]
  BY DEF Init
<1>2. DOMAIN archive = {} /\ DOMAIN jobs = {} /\ DOMAIN decisions = {} /\ Len(archive) = 0
  BY <1>1
<1>3. ArchiveInv
  <2>1. archive \in Seq(Rows) /\ now \in Nat /\ owner \in [Keywords -> Nat]
    BY <1>1
  <2>2. \A k \in Keywords : OwnerIsLatest(k)
    BY <1>1, <1>2 DEF OwnerIsLatest
  <2> QED BY <1>2, <2>1, <2>2 DEF ArchiveInv
<1>4. PlansInv
  <2>1. Down \in [up : BOOLEAN, job : Nat] /\ Down.job = 0
    BY DEF Down
  <2>2. runner \in [Spenders -> [up : BOOLEAN, job : Nat]]
    BY <1>1, <2>1
  <2>3. \A s \in Spenders : ShellFits(s) /\ RunnerFits(s)
    BY <1>1, <2>1 DEF ShellFits, IdleShell, RunnerFits
  <2> QED BY <1>2, <2>2, <2>3 DEF PlansInv
<1> QED BY <1>3, <1>4, ConsentInit DEF OwnedInv

\* Where the archive stands and plans keep what they rest on, jobs at most change in
\* status or grow, and a runner is at one of them, the invariant stands.
LEMMA PlansKept ==
  ASSUME OwnedInv, ConsentInv', UNCHANGED <<now, archive, owner>>,
         DOMAIN decisions \subseteq DOMAIN decisions',
         \A d \in DOMAIN decisions : /\ decisions'[d].plan = decisions[d].plan
                                     /\ decisions'[d].forced = decisions[d].forced
                                     /\ decisions'[d].at = decisions[d].at
                                     /\ decisions'[d].seen = decisions[d].seen,
         \A d \in DOMAIN decisions' \ DOMAIN decisions : DecisionFits(d)',
         DOMAIN jobs \subseteq DOMAIN jobs',
         \A j \in DOMAIN jobs : /\ jobs'[j].decision = jobs[j].decision
                                /\ jobs'[j].batch = jobs[j].batch,
         \A j \in DOMAIN jobs' \ DOMAIN jobs : JobFits(j)',
         \A s \in Spenders : ShellFits(s)',
         runner' \in [Spenders -> [up : BOOLEAN, job : Nat]],
         \A h \in Spenders : RunnerFits(h)'
  PROVE  OwnedInv'
<1>1. ArchiveInv'
  BY DEF OwnedInv, ArchiveInv, OwnerIsLatest
<1>2. ASSUME NEW d \in DOMAIN decisions' PROVE DecisionFits(d)'
  <2>1. CASE d \in DOMAIN decisions
    <3>1. DecisionFits(d)
      BY <2>1 DEF OwnedInv, PlansInv
    <3>2. /\ decisions'[d].plan = decisions[d].plan /\ decisions'[d].forced = decisions[d].forced
          /\ decisions'[d].at = decisions[d].at /\ decisions'[d].seen = decisions[d].seen
      BY <2>1
    <3> QED BY <3>1, <3>2 DEF DecisionFits
  <2> QED BY <2>1
<1>3. ASSUME NEW j \in DOMAIN jobs
      PROVE  JobFits(j)' /\ RequestOf(j)' = RequestOf(j)
  <2> DEFINE d == jobs[j].decision  n == jobs[j].batch
  <2>1. d \in DOMAIN decisions /\ JobFits(j)
    BY DEF OwnedInv, ConsentInv, LetThrough, PlansInv
  <2>2. jobs'[j].decision = d /\ jobs'[j].batch = n
    OBVIOUS
  <2>3. decisions'[d].plan = decisions[d].plan
    BY <2>1
  <2> QED BY <2>1, <2>2, <2>3 DEF JobFits, RequestOf
<1>4. \A j \in DOMAIN jobs' : JobFits(j)'
  BY <1>3
<1>5. ASSUME NEW i \in DOMAIN archive' PROVE RowFits(i)'
  <2>1. RowFits(i) /\ archive'[i] = archive[i]
    BY DEF OwnedInv, PlansInv
  <2> QED BY <1>3, <2>1 DEF RowFits, RequestOf
<1> QED BY <1>1, <1>2, <1>4, <1>5 DEF OwnedInv, PlansInv

\* A runner that starts or stops is at no job.
LEMMA RunnersFit ==
  ASSUME PlansInv, NEW h \in Spenders, NEW up \in BOOLEAN,
         runner' = [runner EXCEPT ![h] = [up |-> up, job |-> 0]] \/ runner' = runner,
         DOMAIN jobs \subseteq DOMAIN jobs'
  PROVE  /\ runner' \in [Spenders -> [up : BOOLEAN, job : Nat]]
         /\ \A r \in Spenders : RunnerFits(r)'
<1>1. runner' \in [Spenders -> [up : BOOLEAN, job : Nat]]
  BY DEF PlansInv
<1>2. ASSUME NEW r \in Spenders PROVE RunnerFits(r)'
  <2>1. runner'[r] = runner[r] \/ runner'[r] = [up |-> up, job |-> 0]
    BY DEF PlansInv
  <2>2. runner'[r].job = runner[r].job \/ runner'[r].job = 0
    BY <2>1
  <2> QED BY <2>2 DEF PlansInv, RunnerFits
<1> QED BY <1>1, <1>2

LEMMA StopFits ==
  ASSUME PlansInv, NEW h \in Spenders, Stop(h), DOMAIN jobs \subseteq DOMAIN jobs'
  PROVE  /\ runner' \in [Spenders -> [up : BOOLEAN, job : Nat]]
         /\ \A r \in Spenders : RunnerFits(r)'
BY RunnersFit DEF Stop, Down

\* Shells that are where they were, at plans that are as they were.
LEMMA ShellsStay ==
  ASSUME OwnedInv, NEW t \in Spenders, shell'[t] = shell[t],
         \A d \in DOMAIN decisions : decisions'[d].plan = decisions[d].plan
  PROVE  ShellFits(t)'
<1>1. ShellFits(t) /\ ShellWell(t)
  BY DEF OwnedInv, PlansInv, ConsentInv
<1>2. shell[t].pc = "queueing" => shell[t].decision \in DOMAIN decisions
  BY <1>1 DEF ShellWell, LetThrough
<1> QED BY <1>1, <1>2 DEF ShellFits

\* A plan that is not empty has a first request.
LEMMA PlanStarts ==
  ASSUME NEW plan \in Seq(Asked), plan # <<>>
  PROVE  1 \in DOMAIN plan
OBVIOUS

\* A new decision rests on what is stored now.
LEMMA OwnedAsk ==
  ASSUME OwnedInv, NEW s \in Spenders, shell[s].pc = "idle", NEW plan, NEW forced \in BOOLEAN,
         PlanFits(plan, forced, archive, now, Len(archive)), Ask(s, plan, forced)
  PROVE  OwnedInv'
<1>0. ConsentInv'
  BY AskKeeps DEF OwnedInv
<1>1. PICK answer \in FirstAnswers(s, plan) :
        /\ decisions' = Append(decisions, [plan |-> plan, forced |-> forced, at |-> now,
                                           seen |-> Len(archive), answer |-> answer])
        /\ shell' = [shell EXCEPT ![s] =
                      [pc |-> IF answer = "pending" THEN "asking" ELSE "queueing",
                       decision |-> Len(decisions) + 1, next |-> 1]]
  BY DEF Ask
<1>2. plan # <<>> /\ UNCHANGED <<now, archive, owner, jobs>>
  BY DEF Ask
<1>3. PICK S : decisions \in Seq(S)
  BY DEF OwnedInv, ConsentInv
<1>4. PICK last \in Nat : last = Len(decisions) + 1
  BY <1>3
<1> DEFINE decision == [plan |-> plan, forced |-> forced, at |-> now,
                        seen |-> Len(archive), answer |-> answer]
<1>5. /\ decision.plan = plan /\ decision.forced = forced /\ decision.at = now
      /\ decision.seen = Len(archive)
  OBVIOUS
<1> HIDE DEF decision
<1>6. /\ DOMAIN decisions' = DOMAIN decisions \cup {last} /\ decisions'[last] = decision
      /\ last \notin DOMAIN decisions
      /\ \A d \in DOMAIN decisions : decisions'[d] = decisions[d]
  <2>1. decisions' = Append(decisions, decision) /\ decisions \in Seq(S \cup {decision})
    BY <1>1, <1>3 DEF decision
  <2> QED BY <1>4, <2>1
<1>7. DecisionFits(last)'
  <2>1. decisions'[last].plan = plan /\ decisions'[last].forced = forced
        /\ decisions'[last].at = now /\ decisions'[last].seen = Len(archive)
    BY <1>5, <1>6
  <2>2. Len(archive) \in 0 .. Len(archive)
    BY DEF OwnedInv, ArchiveInv
  <2> QED BY <1>2, <2>1, <2>2 DEF DecisionFits
<1>8. ASSUME NEW t \in Spenders PROVE ShellFits(t)'
  <2>1. CASE t # s
    <3>1. shell'[t] = shell[t]
      BY <1>1, <2>1 DEF OwnedInv, ConsentInv
    <3> QED BY <1>6, <3>1, ShellsStay
  <2>2. CASE t = s
    <3>1. shell'[s].decision = last /\ shell'[s].next = 1
      BY <1>1, <1>4 DEF OwnedInv, ConsentInv
    <3>2. 1 \in DOMAIN plan
      BY <1>2, PlanStarts DEF PlanFits
    <3> QED BY <1>5, <1>6, <2>2, <3>1, <3>2 DEF ShellFits
  <2> QED BY <2>1, <2>2
<1>9. /\ runner' \in [Spenders -> [up : BOOLEAN, job : Nat]]
      /\ \A r \in Spenders : RunnerFits(r)'
  <2>1. CASE Stop(Tui)
    BY <1>2, <2>1, StopFits, PurchasesAssumption DEF OwnedInv
  <2>2. CASE UNCHANGED runner
    BY <1>2, <2>2, RunnersFit DEF OwnedInv
  <2> QED BY <2>1, <2>2 DEF Ask
<1> QED
  BY <1>0, <1>2, <1>6, <1>7, <1>8, <1>9, PlansKept

LEMMA OwnedAnswer ==
  ASSUME OwnedInv, NEW s \in Spenders, NEW yes \in BOOLEAN, Answer(s, yes)
  PROVE  OwnedInv'
<1>0. ConsentInv'
  BY AnswerKeeps DEF OwnedInv
<1>1. PICK d : d = shell[s].decision
  OBVIOUS
<1>2. /\ shell[s].pc = "asking" /\ UNCHANGED <<now, archive, owner, jobs, runner>>
      /\ decisions' = [decisions EXCEPT ![d].answer = IF yes THEN "yes" ELSE "no"]
      /\ shell' = [shell EXCEPT ![s] = IF yes THEN [@ EXCEPT !.pc = "queueing"] ELSE IdleShell]
  BY <1>1 DEF Answer
<1>3. d \in DOMAIN decisions /\ shell[s].next = 1 /\ shell[s] \in Shells
  BY <1>1, <1>2 DEF OwnedInv, ConsentInv, ShellWell
<1>4. /\ DOMAIN decisions' = DOMAIN decisions
      /\ \A e \in DOMAIN decisions : /\ decisions'[e].plan = decisions[e].plan
                                     /\ decisions'[e].forced = decisions[e].forced
                                     /\ decisions'[e].at = decisions[e].at
                                     /\ decisions'[e].seen = decisions[e].seen
  <2>1. DOMAIN decisions' = DOMAIN decisions
    BY <1>2
  <2>2. ASSUME NEW e \in DOMAIN decisions
        PROVE  /\ decisions'[e].plan = decisions[e].plan
               /\ decisions'[e].forced = decisions[e].forced
               /\ decisions'[e].at = decisions[e].at
               /\ decisions'[e].seen = decisions[e].seen
    <3> DEFINE old == decisions[e]
               known == Decision(old.plan, old.forced, old.at, old.seen, old.answer)
    <3>1. old = known
      BY DEF OwnedInv, ConsentInv, DecisionWell, Entry
    <3>2. decisions'[e] = old \/ decisions'[e] = [old EXCEPT !.answer = IF yes THEN "yes" ELSE "no"]
      BY <1>2
    <3>3. [known EXCEPT !.answer = IF yes THEN "yes" ELSE "no"] =
            Decision(old.plan, old.forced, old.at, old.seen, IF yes THEN "yes" ELSE "no")
      BY DEF Decision
    <3> HIDE DEF old
    <3>4. \E a : decisions'[e] = Decision(old.plan, old.forced, old.at, old.seen, a)
      BY <3>1, <3>2, <3>3
    <3>5. PICK a : decisions'[e] = Decision(old.plan, old.forced, old.at, old.seen, a)
      BY <3>4
    <3> QED BY <3>5 DEF Decision, old
  <2> QED BY <2>1, <2>2
<1>5. ASSUME NEW t \in Spenders PROVE ShellFits(t)'
  <2>1. CASE t # s
    <3>1. shell'[t] = shell[t]
      BY <1>2, <2>1 DEF OwnedInv, ConsentInv
    <3> QED BY <1>4, <3>1, ShellsStay
  <2>2. CASE t = s
    <3>1. shell'[s].pc = "queueing" => shell'[s].decision = d /\ shell'[s].next = 1
      <4>1. shell'[s] = IF yes THEN [shell[s] EXCEPT !.pc = "queueing"] ELSE IdleShell
        BY <1>2 DEF OwnedInv, ConsentInv
      <4> QED BY <1>1, <1>3, <4>1 DEF Shells, IdleShell
    <3>2. DecisionFits(d)
      BY <1>3 DEF OwnedInv, PlansInv
    <3>3. 1 \in DOMAIN decisions[d].plan
      BY <3>2, PlanStarts DEF DecisionFits, PlanFits
    <3> QED BY <1>3, <1>4, <2>2, <3>1, <3>3 DEF ShellFits
  <2> QED BY <2>1, <2>2
<1>6. /\ runner' \in [Spenders -> [up : BOOLEAN, job : Nat]]
      /\ \A r \in Spenders : RunnerFits(r)'
  BY <1>2, RunnersFit DEF OwnedInv
<1> QED BY <1>0, <1>2, <1>4, <1>5, <1>6, PlansKept

LEMMA OwnedEnqueue ==
  ASSUME OwnedInv, NEW s \in Spenders, EnqueueNext(s)
  PROVE  OwnedInv'
<1>0. ConsentInv'
  BY EnqueueKeeps DEF OwnedInv
<1>1. PICK d, n : d = shell[s].decision /\ n = shell[s].next
  OBVIOUS
<1>2. /\ shell[s].pc = "queueing" /\ UNCHANGED <<now, archive, owner, decisions, runner>>
      /\ jobs' = Append(jobs, [decision |-> d, batch |-> n, status |-> "queued"])
      /\ shell' = [shell EXCEPT ![s] = IF n = Len(decisions[d].plan) THEN IdleShell
                                      ELSE [@ EXCEPT !.next = n + 1]]
  BY <1>1 DEF EnqueueNext
<1>3. /\ d \in DOMAIN decisions /\ n \in DOMAIN decisions[d].plan
      /\ decisions[d].plan \in Seq(Asked) /\ shell[s] \in Shells
  <2>1. ShellFits(s) /\ ShellWell(s) /\ shell[s] \in Shells
    BY DEF OwnedInv, PlansInv, ConsentInv
  <2>2. d \in DOMAIN decisions /\ n \in DOMAIN decisions[d].plan
    BY <1>1, <1>2, <2>1 DEF ShellFits, ShellWell, LetThrough
  <2>3. DecisionFits(d)
    BY <2>2 DEF OwnedInv, PlansInv
  <2> QED BY <2>1, <2>2, <2>3 DEF DecisionFits, PlanFits
<1>4. PICK last \in Nat : last = Len(jobs) + 1
  BY DEF OwnedInv, ConsentInv
<1> DEFINE job == [decision |-> d, batch |-> n, status |-> "queued"]
<1>5. job.decision = d /\ job.batch = n
  OBVIOUS
<1> HIDE DEF job
<1>6. /\ DOMAIN jobs' = DOMAIN jobs \cup {last} /\ jobs'[last] = job
      /\ \A j \in DOMAIN jobs : jobs'[j] = jobs[j]
  <2>1. jobs \in Seq(Jobs \cup {job}) /\ jobs' = Append(jobs, job)
    BY <1>2 DEF OwnedInv, ConsentInv, job
  <2> QED BY <1>4, <2>1
<1>7. JobFits(last)'
  BY <1>2, <1>3, <1>5, <1>6 DEF JobFits
<1>8. ASSUME NEW t \in Spenders PROVE ShellFits(t)'
  <2>1. CASE t # s
    <3>1. shell'[t] = shell[t]
      BY <1>2, <2>1 DEF OwnedInv, ConsentInv
    <3> QED BY <1>2, <3>1, ShellsStay
  <2>2. CASE t = s
    <3>1. shell'[s].pc = "queueing" =>
            shell'[s].decision = d /\ shell'[s].next = n + 1 /\ n # Len(decisions[d].plan)
      <4>1. shell'[s] = IF n = Len(decisions[d].plan) THEN IdleShell
                        ELSE [shell[s] EXCEPT !.next = n + 1]
        BY <1>2 DEF OwnedInv, ConsentInv
      <4> QED BY <1>1, <1>3, <4>1 DEF Shells, IdleShell
    <3>2. n # Len(decisions[d].plan) => n + 1 \in DOMAIN decisions[d].plan
      BY <1>3
    <3> QED BY <1>2, <2>2, <3>1, <3>2 DEF ShellFits
  <2> QED BY <2>1, <2>2
<1>9. /\ runner' \in [Spenders -> [up : BOOLEAN, job : Nat]]
      /\ \A r \in Spenders : RunnerFits(r)'
  BY <1>2, <1>6, RunnersFit DEF OwnedInv
<1> QED BY <1>0, <1>2, <1>6, <1>7, <1>8, <1>9, PlansKept

\* Commands that end, runners that come and go, and jobs that change in status decide
\* nothing and store nothing.
LEMMA OwnedMoves ==
  ASSUME OwnedInv, ConsentInv', UNCHANGED <<now, archive, owner, decisions>>,
         NEW s \in Spenders, shell' = [shell EXCEPT ![s] = IdleShell] \/ shell' = shell,
         NEW job, NEW status \in {"queued", "running", "done", "failed"},
         StatusesChange(job, status),
         runner' \in [Spenders -> [up : BOOLEAN, job : Nat]],
         \A h \in Spenders : RunnerFits(h)'
  PROVE  OwnedInv'
<1>1. /\ DOMAIN jobs' = DOMAIN jobs
      /\ \A j \in DOMAIN jobs : /\ jobs'[j].decision = jobs[j].decision
                                /\ jobs'[j].batch = jobs[j].batch
  BY JobsStay DEF OwnedInv, ConsentInv
<1>2. ASSUME NEW t \in Spenders PROVE ShellFits(t)'
  <2>1. CASE shell'[t] = shell[t]
    BY <2>1, ShellsStay
  <2>2. CASE shell'[t] = IdleShell
    BY <2>2 DEF ShellFits, IdleShell
  <2> QED BY <2>1, <2>2 DEF OwnedInv, ConsentInv
<1> QED BY <1>1, <1>2, PlansKept

\* The same, where the runners are as they were, or one of them starts or stops.
LEMMA OwnedQuiet ==
  ASSUME OwnedInv, ConsentInv', UNCHANGED <<now, archive, owner, decisions>>,
         NEW s \in Spenders, shell' = [shell EXCEPT ![s] = IdleShell] \/ shell' = shell,
         NEW job, NEW status \in {"queued", "running", "done", "failed"},
         StatusesChange(job, status),
         NEW h \in Spenders, NEW up \in BOOLEAN,
         runner' = [runner EXCEPT ![h] = [up |-> up, job |-> 0]] \/ runner' = runner
  PROVE  OwnedInv'
<1>1. DOMAIN jobs' = DOMAIN jobs
  BY JobsStay DEF OwnedInv, ConsentInv
<1>2. /\ runner' \in [Spenders -> [up : BOOLEAN, job : Nat]]
      /\ \A r \in Spenders : RunnerFits(r)'
  BY <1>1, RunnersFit DEF OwnedInv
<1> QED BY <1>2, OwnedMoves

LEMMA OwnedClaim ==
  ASSUME OwnedInv, ConsentInv', NEW h \in Spenders, Claim(h)
  PROVE  OwnedInv'
<1>1. PICK j \in DOMAIN jobs :
        \/ jobs' = [jobs EXCEPT ![j].status = "done"] /\ UNCHANGED runner
        \/ jobs' = [jobs EXCEPT ![j].status = "failed"] /\ UNCHANGED runner
        \/ /\ jobs' = [jobs EXCEPT ![j].status = "running"]
           /\ runner' = [runner EXCEPT ![h].job = j]
  BY DEF Claim
<1>2. UNCHANGED <<now, archive, owner, decisions, shell>>
  BY DEF Claim
<1>3. CASE UNCHANGED runner
  BY <1>1, <1>2, <1>3, OwnedQuiet DEF StatusesChange
<1>4. CASE jobs' = [jobs EXCEPT ![j].status = "running"] /\ runner' = [runner EXCEPT ![h].job = j]
  <2>1. StatusesChange(j, "running")
    BY <1>4 DEF StatusesChange
  <2>2. DOMAIN jobs' = DOMAIN jobs /\ j \in Nat
    BY <2>1, JobsStay DEF OwnedInv, ConsentInv
  <2>3. /\ runner \in [Spenders -> [up : BOOLEAN, job : Nat]]
        /\ \A r \in Spenders : RunnerFits(r)
    BY DEF OwnedInv, PlansInv
  <2>4. runner' \in [Spenders -> [up : BOOLEAN, job : Nat]]
    BY <1>4, <2>2, <2>3
  <2>5. ASSUME NEW r \in Spenders PROVE RunnerFits(r)'
    <3>1. runner'[r].job = runner[r].job \/ runner'[r].job = j
      BY <1>4, <2>3
    <3> QED BY <2>2, <2>3, <3>1 DEF RunnerFits
  <2> QED BY <1>2, <2>1, <2>4, <2>5, OwnedMoves
<1> QED BY <1>1, <1>3, <1>4

LEMMA OwnedFail ==
  ASSUME OwnedInv, ConsentInv', NEW h \in Spenders, Fail(h)
  PROVE  OwnedInv'
<1>1. PICK job : job = runner[h].job
  OBVIOUS
<1>2. PICK status \in {"queued", "failed"} : jobs' = [jobs EXCEPT ![job].status = status]
  BY <1>1 DEF Fail
<1>3. UNCHANGED <<now, archive, owner, decisions, shell>> /\ runner' = [runner EXCEPT ![h].job = 0]
  BY DEF Fail
<1>4. StatusesChange(job, status) /\ status \in {"queued", "running", "done", "failed"}
  BY <1>2 DEF StatusesChange
<1>5. DOMAIN jobs' = DOMAIN jobs
  BY <1>4, JobsStay DEF OwnedInv, ConsentInv
<1>6. /\ runner \in [Spenders -> [up : BOOLEAN, job : Nat]]
      /\ \A r \in Spenders : RunnerFits(r)
  BY DEF OwnedInv, PlansInv
<1>7. runner' \in [Spenders -> [up : BOOLEAN, job : Nat]]
  BY <1>3, <1>6
<1>8. ASSUME NEW r \in Spenders PROVE RunnerFits(r)'
  <2>1. runner'[r].job = runner[r].job \/ runner'[r].job = 0
    BY <1>3, <1>6
  <2> QED BY <1>5, <1>6, <2>1 DEF RunnerFits
<1> QED BY <1>3, <1>4, <1>7, <1>8, OwnedMoves

\* Time passes: a row stays as old as it was.
LEMMA OwnedTick == ASSUME OwnedInv, ConsentInv', Tick PROVE OwnedInv'
<1>1. now' = now + 1 /\ UNCHANGED <<archive, owner, decisions, jobs, shell, runner>>
  BY DEF Tick
<1>2. ArchiveInv'
  <2>1. now' \in Nat /\ \A i \in DOMAIN archive : archive[i].at <= now'
    <3>1. now \in Nat /\ archive \in Seq(Rows) /\ \A i \in DOMAIN archive : archive[i].at <= now
      BY DEF OwnedInv, ArchiveInv
    <3>2. ASSUME NEW i \in DOMAIN archive PROVE archive[i].at \in Nat
      <4>1. archive[i] \in Rows
        BY <3>1
      <4> QED BY <4>1 DEF Rows
    <3> QED BY <1>1, <3>1, <3>2
  <2> QED BY <1>1, <2>1 DEF OwnedInv, ArchiveInv, OwnerIsLatest
<1>3. PlansInv'
  BY <1>1 DEF OwnedInv, PlansInv, DecisionFits, JobFits, RowFits, RequestOf, ShellFits, RunnerFits
<1> QED BY <1>2, <1>3 DEF OwnedInv

\* A row is stored: what was decided rests on the rows before it, and its keywords
\* are owned by it.
LEMMA OwnedDeliver ==
  ASSUME OwnedInv, ConsentInv', NEW h \in Spenders, NEW excess, NEW answer \in Answers,
         Deliver(h, excess, answer)
  PROVE  OwnedInv'
<1>1. PICK j : j = runner[h].job
  OBVIOUS
<1>2. PICK request : request = RequestOf(j)
  OBVIOUS
<1>3. PICK returned :
        returned = IF request.capability = "volume" THEN answer \cap request.keywords ELSE answer
  OBVIOUS
<1>4. /\ j # 0
      /\ archive' = Append(archive, [request |-> request, job |-> j, at |-> now,
                                     returned |-> returned])
      /\ owner' = Repointed(returned)
      /\ jobs' = [jobs EXCEPT ![j].status = "done"]
      /\ runner' = [runner EXCEPT ![h].job = 0]
      /\ UNCHANGED <<now, decisions, shell>>
  BY <1>1, <1>2, <1>3 DEF Deliver
<1>5. PICK last \in Nat : last = Len(archive) + 1
  BY DEF OwnedInv, ArchiveInv
<1> DEFINE row == [request |-> request, job |-> j, at |-> now, returned |-> returned]
<1>6. /\ StatusesChange(j, "done")
      /\ jobs \in Seq(Jobs) /\ jobs' \in Seq(Jobs) /\ DOMAIN jobs' = DOMAIN jobs
      /\ \A i \in DOMAIN jobs : /\ jobs'[i].decision = jobs[i].decision
                                /\ jobs'[i].batch = jobs[i].batch
  <2>1. StatusesChange(j, "done")
    BY <1>4 DEF StatusesChange
  <2> QED BY <2>1, JobsStay DEF OwnedInv, ConsentInv
<1>7. j \in DOMAIN jobs /\ j \in Nat /\ request \in Asked
  <2>1. RunnerFits(h)
    BY DEF OwnedInv, PlansInv
  <2>2. j \in DOMAIN jobs
    BY <1>1, <1>4, <2>1 DEF RunnerFits
  <2>3. JobFits(j) /\ jobs[j].decision \in DOMAIN decisions
    BY <2>2 DEF OwnedInv, PlansInv, ConsentInv, LetThrough
  <2>4. DecisionFits(jobs[j].decision)
    BY <2>3 DEF OwnedInv, PlansInv
  <2>5. decisions[jobs[j].decision].plan \in Seq(Asked)
    BY <2>4 DEF DecisionFits, PlanFits
  <2>6. request \in Asked
    BY <1>2, <2>3, <2>5 DEF JobFits, RequestOf
  <2> QED BY <1>6, <2>2, <2>6
<1>8. /\ row \in Rows /\ row.returned = returned /\ row.at = now /\ row.job = j
      /\ row.request = request
  <2>1. returned \in SUBSET Keywords
    BY <1>3, PurchasesAssumption
  <2>2. now \in Nat
    BY DEF OwnedInv, ArchiveInv
  <2> QED BY <1>7, <2>1, <2>2 DEF Rows
<1> HIDE DEF row
<1>9. /\ archive \in Seq(Rows) /\ archive' \in Seq(Rows) /\ Len(archive') = last
      /\ DOMAIN archive' = DOMAIN archive \cup {last} /\ archive'[last] = row
      /\ DOMAIN archive = 1 .. last - 1 /\ last \notin DOMAIN archive /\ Len(archive) = last - 1
      /\ \A i \in DOMAIN archive : archive'[i] = archive[i]
  <2>1. archive \in Seq(Rows) /\ archive' = Append(archive, row)
    BY <1>4 DEF OwnedInv, ArchiveInv, row
  <2> QED BY <1>5, <1>8, <2>1
<1>10. ArchiveInv'
  <2>0. ArchiveInv
    BY DEF OwnedInv
  <2>1. now' \in Nat /\ owner' \in [Keywords -> Nat]
    <3>1. owner' = [k \in Keywords |-> IF k \in returned THEN last ELSE owner[k]]
      BY <1>4, <1>5 DEF Repointed
    <3> QED BY <1>4, <2>0, <3>1 DEF ArchiveInv
  <2>2. \A i \in DOMAIN archive' : archive'[i].at <= now'
    BY <1>4, <1>8, <1>9, <2>0, <2>1 DEF ArchiveInv
  <2>3. \A i, m \in DOMAIN archive' : i < m => archive'[i].at <= archive'[m].at
    <3> SUFFICES ASSUME NEW i \in DOMAIN archive', NEW m \in DOMAIN archive', i < m
                 PROVE  archive'[i].at <= archive'[m].at
      OBVIOUS
    <3>1. i \in DOMAIN archive
      BY <1>9
    <3>2. CASE m = last
      BY <1>8, <1>9, <2>0, <3>1, <3>2 DEF ArchiveInv
    <3>3. CASE m # last
      BY <1>9, <2>0, <3>1, <3>3 DEF ArchiveInv
    <3> QED BY <3>2, <3>3
  <2>4. ASSUME NEW k \in Keywords PROVE OwnerIsLatest(k)'
    <3>1. OwnerIsLatest(k)
      BY <2>0 DEF ArchiveInv
    <3>2. owner'[k] = IF k \in returned THEN last ELSE owner[k]
      BY <1>4, <1>5 DEF Repointed
    <3>3. CASE k \in returned
      <4>1. owner'[k] = last /\ last \in 0 .. last
        BY <3>2, <3>3
      <4>2. \A m \in DOMAIN archive' : m <= last
        BY <1>9
      <4>3. k \in archive'[last].returned
        BY <1>8, <1>9, <3>3
      <4> QED BY <1>9, <4>1, <4>2, <4>3 DEF OwnerIsLatest
    <3>4. CASE k \notin returned
      <4>1. owner'[k] = owner[k] /\ owner[k] \in 0 .. last - 1
        BY <1>9, <3>1, <3>2, <3>4 DEF OwnerIsLatest
      <4>2. owner[k] # 0 => k \in archive'[owner[k]].returned
        BY <1>9, <3>1, <4>1 DEF OwnerIsLatest
      <4>3. \A m \in DOMAIN archive' : k \in archive'[m].returned => m <= owner[k]
        BY <1>8, <1>9, <3>1, <3>4 DEF OwnerIsLatest
      <4>4. owner[k] \in 0 .. last
        BY <4>1
      <4> QED BY <1>9, <4>1, <4>2, <4>3, <4>4 DEF OwnerIsLatest
    <3> QED BY <3>3, <3>4
  <2> QED BY <1>9, <2>1, <2>2, <2>3, <2>4 DEF ArchiveInv
<1>11. ASSUME NEW d \in DOMAIN decisions' PROVE DecisionFits(d)'
  <2>1. DecisionFits(d) /\ decisions' = decisions
    BY <1>4 DEF OwnedInv, PlansInv
  <2> DEFINE seen == decisions[d].seen  at == decisions[d].at  plan == decisions[d].plan
  <2>2. seen \in Nat /\ seen <= last - 1 /\ seen \in 0 .. Len(archive')
    BY <1>9, <2>1 DEF DecisionFits
  <2>3. \A r \in 1 .. seen : archive'[r] = archive[r]
    BY <1>9, <2>2
  <2> HIDE DEF seen, at, plan
  <2>4. \A request_ : AnsweredIn(archive', request_, at, seen) = AnsweredIn(archive, request_, at, seen)
    BY <2>2, <2>3, AnsweredStays
  <2>5. PlanFits(plan, decisions[d].forced, archive', at, seen)
    BY <2>1, <2>4 DEF DecisionFits, PlanFits, plan, at, seen
  <2> QED BY <2>1, <2>2, <2>5 DEF DecisionFits, plan, at, seen
<1>12. \A i \in DOMAIN jobs' : JobFits(i)'
  BY <1>4, <1>6 DEF OwnedInv, PlansInv, JobFits
<1>13. \A i \in DOMAIN jobs : RequestOf(i)' = RequestOf(i)
  BY <1>4, <1>6 DEF RequestOf
<1>14. ASSUME NEW i \in DOMAIN archive' PROVE RowFits(i)'
  <2>1. CASE i = last
    <3>1. archive'[i].job = j /\ archive'[i].request = request
      BY <1>8, <1>9, <2>1
    <3>2. RequestOf(j)' = request
      BY <1>2, <1>7, <1>13
    <3> QED BY <1>6, <1>7, <3>1, <3>2 DEF RowFits, RequestOf
  <2>2. CASE i # last
    <3>1. archive'[i] = archive[i] /\ RowFits(i)
      BY <1>9, <2>2 DEF OwnedInv, PlansInv
    <3> QED BY <1>6, <1>13, <3>1 DEF RowFits, RequestOf
  <2> QED BY <2>1, <2>2
<1>15. ASSUME NEW t \in Spenders PROVE ShellFits(t)'
  BY <1>4, ShellsStay
<1>16. /\ runner \in [Spenders -> [up : BOOLEAN, job : Nat]]
       /\ \A r \in Spenders : RunnerFits(r)
  BY DEF OwnedInv, PlansInv
<1>17. runner' \in [Spenders -> [up : BOOLEAN, job : Nat]]
  BY <1>4, <1>16
<1>18. ASSUME NEW r \in Spenders PROVE RunnerFits(r)'
  <2>1. runner'[r].job = runner[r].job \/ runner'[r].job = 0
    BY <1>4, <1>16
  <2> QED BY <1>6, <1>16, <2>1 DEF RunnerFits
<1>19. PlansInv'
  BY <1>11, <1>12, <1>14, <1>15, <1>17, <1>18 DEF PlansInv
<1> QED BY <1>10, <1>19 DEF OwnedInv

\* One step per action.
LEMMA OwnedStep == OwnedInv /\ [Next]_allVars => OwnedInv'
<1> SUFFICES ASSUME OwnedInv, [Next]_allVars PROVE OwnedInv'
  OBVIOUS
<1>1. ArchiveInv /\ ConsentInv' /\ Tui \in Spenders
  BY ConsentStep, PurchasesAssumption DEF OwnedInv
<1>2. ASSUME NEW s \in Spenders, CanAsk(s), NEW plan, NEW forcedPlan, AskEither(s, plan, forcedPlan),
             PlanFits(plan, FALSE, archive, now, Len(archive)),
             PlanFits(forcedPlan, TRUE, archive, now, Len(archive))
      PROVE  OwnedInv'
  <2>1. shell[s].pc = "idle"
    BY <1>2 DEF CanAsk
  <2>2. CASE Ask(s, plan, FALSE)
    BY <1>2, <2>1, <2>2, OwnedAsk
  <2>3. CASE Ask(s, forcedPlan, TRUE)
    BY <1>2, <2>1, <2>3, OwnedAsk
  <2> QED BY <1>2, <2>2, <2>3 DEF AskEither
<1>3. ASSUME NEW s \in Spenders, AskVolume(s) PROVE OwnedInv'
  <2>1. PICK words \in Typed : AskEither(s, VolumePlan(Normalise(words), FALSE),
                                           VolumePlan(Normalise(words), TRUE))
    BY <1>3 DEF AskVolume
  <2>2. /\ PlanFits(VolumePlan(Normalise(words), FALSE), FALSE, archive, now, Len(archive))
        /\ PlanFits(VolumePlan(Normalise(words), TRUE), TRUE, archive, now, Len(archive))
    BY <1>1, NormaliseIs, VolumePlanFits
  <2> QED BY <1>2, <1>3, <2>1, <2>2 DEF AskVolume
<1>4. ASSUME NEW s \in Spenders, AskIdeas(s) \/ AskRanks(s) \/ AskGap(s) PROVE OwnedInv'
  <2>1. CanAsk(s)
    BY <1>4 DEF AskIdeas, AskRanks, AskGap, AskPull
  <2>2. PICK request \in IdeasRequests \cup RanksRequests \cup GapRequests :
          AskEither(s, PullPlan(request, FALSE), PullPlan(request, TRUE))
    BY <1>4 DEF AskIdeas, AskRanks, AskGap, AskPull
  <2>3. /\ PlanFits(PullPlan(request, FALSE), FALSE, archive, now, Len(archive))
        /\ PlanFits(PullPlan(request, TRUE), TRUE, archive, now, Len(archive))
    BY <1>1, PullPlanFits
  <2> QED BY <1>2, <2>1, <2>2, <2>3
<1>5. CASE AskStale
  <2>1. PICK list \in SetToSeqs(StaleKeywords) : Ask(Tui, VolumePlan(list, TRUE), FALSE)
    BY <1>5 DEF AskStale
  <2>2. shell[Tui].pc = "idle"
    BY <1>5 DEF AskStale, CanAsk
  <2>3. PlanFits(VolumePlan(list, TRUE), FALSE, archive, now, Len(archive))
    BY <1>1, StalePlanFits
  <2> QED BY <1>1, <2>1, <2>2, <2>3, OwnedAsk
<1>6. ASSUME NEW s \in Spenders, Abandon(s) PROVE OwnedInv'
  <2>1. StatusesChange(0, "queued")
    BY <1>6 DEF Abandon, StatusesChange
  <2> QED BY <1>1, <1>6, <2>1, OwnedQuiet DEF Abandon
<1>7. CASE CloseTui
  <2>1. StatusesChange(0, "queued")
    BY <1>7 DEF CloseTui, StatusesChange
  <2> QED BY <1>1, <1>7, <2>1, OwnedQuiet DEF CloseTui, Stop, Down
<1>8. CASE OtherCommand
  <2>1. StatusesChange(0, "queued")
    BY <1>8 DEF OtherCommand, StatusesChange
  <2> QED BY <1>1, <1>8, <2>1, OwnedQuiet DEF OtherCommand, Stop, Down
<1>9. ASSUME NEW h \in Spenders, StopRunner(h) PROVE OwnedInv'
  <2>1. StatusesChange(0, "queued")
    BY <1>9 DEF StopRunner, StatusesChange
  <2> QED BY <1>1, <1>9, <2>1, OwnedQuiet DEF StopRunner, Stop, Down
<1>10. ASSUME NEW h \in Spenders, Start(h), UNCHANGED <<now, archive, owner, decisions, shell>>
       PROVE  OwnedInv'
  <2>1. StatusesChange(0, "queued")
    BY <1>10 DEF Start, StatusesChange
  <2> QED BY <1>1, <1>10, <2>1, OwnedQuiet DEF Start
<1>11. CASE OpenTui
  BY <1>1, <1>10, <1>11 DEF OpenTui
<1>12. ASSUME NEW h \in Spenders, StartDrain(h) PROVE OwnedInv'
  BY <1>10, <1>12 DEF StartDrain
<1>13. CASE UNCHANGED allVars
  <2>1. StatusesChange(0, "queued")
    BY <1>13 DEF allVars, purchaseVars, StatusesChange
  <2> QED BY <1>1, <1>13, <2>1, OwnedQuiet DEF allVars, purchaseVars
<1>14. ASSUME NEW s \in Spenders, NEW yes \in BOOLEAN, Answer(s, yes) PROVE OwnedInv'
  BY <1>14, OwnedAnswer
<1>15. ASSUME NEW s \in Spenders, EnqueueNext(s) PROVE OwnedInv'
  BY <1>15, OwnedEnqueue
<1>16. ASSUME NEW h \in Spenders, RunnerStep(h) PROVE OwnedInv'
  BY <1>1, <1>16, OwnedClaim, OwnedDeliver DEF RunnerStep
<1>17. ASSUME NEW h \in Spenders, Fail(h) PROVE OwnedInv'
  BY <1>1, <1>17, OwnedFail
<1>18. CASE Tick
  BY <1>1, <1>18, OwnedTick
<1> QED
  BY <1>3, <1>4, <1>5, <1>6, <1>7, <1>8, <1>9, <1>11, <1>12, <1>13, <1>14, <1>15, <1>16, <1>17, <1>18
  DEF Next

\* "It is buying data you already own": whoever buys beside whom, and however long a
\* plan waits at the gate, without --force it buys nothing that was answered when it
\* was made.
THEOREM OwnedNeverRebought == Spec => []NothingOwnedIsRebought
<1>1. OwnedInv => NothingOwnedIsRebought
  <2> SUFFICES ASSUME OwnedInv, NEW i \in DOMAIN archive,
                      ~decisions[jobs[archive[i].job].decision].forced
               PROVE  AlreadyAnswered(archive[i].request, decisions[jobs[archive[i].job].decision]) = {}
    BY DEF NothingOwnedIsRebought
  <2> DEFINE j == archive[i].job
             d == jobs[j].decision
             n == jobs[j].batch
  <2>1. j \in DOMAIN jobs /\ archive[i].request = decisions[d].plan[n]
    BY DEF OwnedInv, PlansInv, RowFits, RequestOf
  <2>2. d \in DOMAIN decisions /\ n \in DOMAIN decisions[d].plan
    BY <2>1 DEF OwnedInv, ConsentInv, LetThrough, PlansInv, JobFits
  <2>3. DecisionFits(d)
    BY <2>2 DEF OwnedInv, PlansInv
  <2>4. AnsweredIn(archive, archive[i].request, decisions[d].at, decisions[d].seen) = {}
    BY <2>1, <2>2, <2>3 DEF DecisionFits, PlanFits
  <2>5. AlreadyAnswered(archive[i].request, decisions[d]) =
          AnsweredIn(archive, archive[i].request, decisions[d].at, decisions[d].seen)
    BY DEF AlreadyAnswered, AnsweredIn
  <2> QED BY <2>4, <2>5
<1> QED BY <1>1, OwnedInit, OwnedStep, PTL DEF Spec
=============================================================================
