---------------------------- MODULE MeteredFetch ----------------------------
(***************************************************************************)
(* fetch.py: the one door to the network.  A caller asks a question (a     *)
(* capability and its normalised parameters); it is answered from          *)
(* raw_response while a row younger than the TTL is stored, and otherwise  *)
(* priced, held against the month's ceiling, sent, validated and stored.   *)
(*                                                                         *)
(* A host is an operating-system process.  The callers of one host are     *)
(* asyncio tasks: a stretch of code with no await runs without another     *)
(* task of the same host in between, but other hosts share the database    *)
(* and do run in between.  _paid_lock and _free_semaphore are per host.    *)
(***************************************************************************)
EXTENDS Integers, FiniteSets, Sequences, FiniteSetsExt, Functions

CONSTANTS
  Callers, Hosts, HostOf,  \* tasks, processes, and the process of each task
  Questions,               \* capability + params_hash
  Estimate,                \* cap.price(normalised).usd of each question
  Charges,                 \* the charges a vendor may report, None if it reports none
  TTL,                     \* cap.ttl of each question
  Validated,               \* questions whose capability has a validate hook
  Credentialed,            \* questions whose credentials are configured
  Ceiling,                 \* Budget.ceiling_usd
  FreeConcurrency,         \* FREE_CONCURRENCY
  MonthLength,             \* ticks of the clock in a calendar month
  None,
  MaxTime, MaxRows,        \* bounds of the model: clock, rows stored or under way
  MaxMishaps               \* bound of the model: lost answers, faults, crashes

\* What a vendor's answer comes to.
Reply == [kind : {"rows", "error200", "http_error"}, charge : Nat \cup {None}]

\* What is not free is an endpoint of DataForSEO, and each of those is registered with
\* a validate hook; what is free is free, whatever the vendor says.
ASSUME MeteredFetchAssumption ==
  /\ IsFiniteSet(Callers) /\ Callers # {} /\ HostOf \in [Callers -> Hosts]
  /\ IsFiniteSet(Questions) /\ Questions # {}
  /\ Estimate \in [Questions -> Nat]
  /\ Charges \in [Questions -> SUBSET (Nat \cup {None})]
  /\ \A q \in Questions : IsFiniteSet(Charges[q])
  /\ TTL \in [Questions -> Nat]
  /\ Validated \subseteq Questions /\ Credentialed \subseteq Questions
  /\ \A q \in Questions : Estimate[q] = 0 => Charges[q] \subseteq {0, None}
  /\ \A q \in Questions : Estimate[q] # 0 => q \in Validated
  /\ Ceiling \in Nat /\ FreeConcurrency \in Nat
  /\ MonthLength \in Nat \ {0}
  /\ None \notin Callers \cup Questions \cup Nat \cup Reply

VARIABLES
  now,        \* the clock
  raw,        \* raw_response, in rowid order
  call,       \* each caller's fetch in progress
  paidLock,   \* per host, the caller inside _paid_lock
  freeSlots,  \* per host, what _free_semaphore has left
  billed,     \* the vendor's own count of questions it answered and charged for
  mishaps     \* how many faults have happened

fetchVars == <<now, raw, call, paidLock, freeSlots, billed, mishaps>>

-----------------------------------------------------------------------------

IsFree(q) == Estimate[q] = 0

Rows(q) == {i \in DOMAIN raw : raw[i].question = q}

\* ORDER BY fetched_at DESC LIMIT 1: rows of the same second tie.
Newest(q) == {i \in Rows(q) : \A j \in Rows(q) : raw[j].at <= raw[i].at}

\* Mutant: only an answer of this very moment counts as fresh.
FreshNow(i) == now = raw[i].at

Fresh(i) == now - raw[i].at < TTL[raw[i].question]

MonthStart == now - (now % MonthLength)

SpentThisMonth ==
  SumFunctionOnSet([i \in DOMAIN raw |-> raw[i].cost],
                   {i \in DOMAIN raw : raw[i].at >= MonthStart})

\* Mutant: the ceiling is held against what is spent, not what would be.
BreachesLate(q) == ~IsFree(q) /\ SpentThisMonth > Ceiling

Breaches(q) == ~IsFree(q) /\ SpentThisMonth + Estimate[q] > Ceiling

\* pc of a caller between two statements that no await separates.
MidStretch == {"check", "stored"}

\* No other task of this host is in the middle of such a stretch.
Runs(c) == \A d \in Callers \ {c} : HostOf[d] = HostOf[c] => call[d].pc \notin MidStretch

IdleCall == [pc |-> "idle", question |-> None, force |-> FALSE, dry |-> FALSE,
             seen |-> 0, reply |-> None, row |-> 0, outcome |-> None]

\* Inside `async with guard`.
Inside == {"awaiting", "stored"}

GuardIsFree(h, q) == IF IsFree(q) THEN freeSlots[h] > 0 ELSE paidLock[h] = None

Waiting(h, free) ==
  {d \in Callers : HostOf[d] = h /\ call[d].pc = "waiting" /\ IsFree(call[d].question) = free}

TakeGuard(c, q) ==
  IF IsFree(q)
  THEN /\ freeSlots' = [freeSlots EXCEPT ![HostOf[c]] = @ - 1]
       /\ UNCHANGED paidLock
  ELSE /\ paidLock' = [paidLock EXCEPT ![HostOf[c]] = c]
       /\ UNCHANGED freeSlots

\* Leaving `async with guard`, normally or by an exception.
ReleaseGuard(c) ==
  IF IsFree(call[c].question)
  THEN /\ freeSlots' = [freeSlots EXCEPT ![HostOf[c]] = @ + 1]
       /\ UNCHANGED paidLock
  ELSE /\ paidLock' = [paidLock EXCEPT ![HostOf[c]] = None]
       /\ UNCHANGED freeSlots

\* The call is over and its locals are gone: what is left is the outcome, and the
\* row that answers it.
Returns(c, outcome, row) ==
  call' = [call EXCEPT ![c] = [IdleCall EXCEPT !.pc = "returned", !.outcome = outcome,
                                               !.row = row]]

Mishap == mishaps < MaxMishaps /\ mishaps' = mishaps + 1

-----------------------------------------------------------------------------

Begin(c, q, force, dry) ==
  /\ call[c].pc = "idle" /\ Runs(c)
  /\ Len(raw) + Cardinality({d \in Callers : call[d].pc # "idle"}) < MaxRows
  /\ call' = [call EXCEPT ![c] = [IdleCall EXCEPT !.pc = "lookup", !.question = q,
                                                  !.force = force, !.dry = dry]]
  /\ UNCHANGED <<now, raw, paidLock, freeSlots, billed, mishaps>>

\* 1. TTL short-circuit: the newest row answers while it is younger than the TTL.
Hit(c) ==
  /\ call[c].pc = "lookup" /\ Runs(c) /\ ~call[c].force
  /\ \E i \in Newest(call[c].question) :
       /\ Fresh(i)
       /\ Returns(c, "cached", i)
  /\ UNCHANGED <<now, raw, paidLock, freeSlots, billed, mishaps>>

Miss(c) ==
  /\ call[c].pc = "lookup" /\ Runs(c)
  /\ call[c].force \/ \A i \in Newest(call[c].question) : ~Fresh(i)
  /\ call' = [call EXCEPT ![c].pc = "check", ![c].seen = Len(raw)]
  /\ UNCHANGED <<now, raw, paidLock, freeSlots, billed, mishaps>>

\* 2-4. Price, ceiling, dry run, credentials: each ends the call without a socket.
Decline(c) ==
  LET q == call[c].question IN
  /\ call[c].pc = "check" /\ Runs(c)
  /\ \/ Breaches(q) /\ Returns(c, "over_ceiling", 0)
     \/ ~Breaches(q) /\ call[c].dry /\ Returns(c, "planned", 0)
     \/ ~Breaches(q) /\ ~call[c].dry /\ q \notin Credentialed /\ Returns(c, "no_credential", 0)
  /\ UNCHANGED <<now, raw, paidLock, freeSlots, billed, mishaps>>

\* 5. Through every check: into the guard at once when nobody holds it or queues
\* for it, and into the queue otherwise.
Approve(c) ==
  LET q == call[c].question  h == HostOf[c] IN
  /\ call[c].pc = "check" /\ Runs(c)
  /\ ~Breaches(q) /\ ~call[c].dry /\ q \in Credentialed
  /\ IF GuardIsFree(h, q) /\ Waiting(h, IsFree(q)) = {}
     THEN TakeGuard(c, q) /\ call' = [call EXCEPT ![c].pc = "awaiting"]
     ELSE call' = [call EXCEPT ![c].pc = "waiting"] /\ UNCHANGED <<paidLock, freeSlots>>
  /\ UNCHANGED <<now, raw, billed, mishaps>>

Enter(c) ==
  LET q == call[c].question IN
  /\ call[c].pc = "waiting" /\ Runs(c) /\ GuardIsFree(HostOf[c], q)
  /\ TakeGuard(c, q)
  /\ call' = [call EXCEPT ![c].pc = "awaiting"]
  /\ UNCHANGED <<now, raw, billed, mishaps>>

\* The vendor (external): rows it charges for, an error inside an HTTP 200, or an
\* HTTP status of 400 and above.
VendorAnswers(c) ==
  LET q == call[c].question IN
  /\ call[c].pc = "awaiting" /\ call[c].reply = None
  /\ \/ \E charge \in Charges[q] :
          /\ call' = [call EXCEPT ![c].reply = [kind |-> "rows", charge |-> charge]]
          /\ billed' = [billed EXCEPT ![q] = @ + 1]
     \/ \E kind \in {"error200", "http_error"} :
          /\ call' = [call EXCEPT ![c].reply = [kind |-> kind, charge |-> None]]
          /\ UNCHANGED billed
  /\ UNCHANGED <<now, raw, paidLock, freeSlots, mishaps>>

\* Mutant: the guard is given back on success only.
RejectHolding(c) ==
  /\ call[c].pc = "awaiting" /\ call[c].reply # None /\ Runs(c)
  /\ call[c].reply.kind # "rows" /\ Returns(c, "vendor_error", 0)
  /\ UNCHANGED <<now, raw, paidLock, freeSlots, billed, mishaps>>

\* _send raises on the status, or validate raises on the body.
Reject(c) ==
  /\ call[c].pc = "awaiting" /\ call[c].reply # None /\ Runs(c)
  /\ \/ call[c].reply.kind = "http_error"
     \/ call[c].reply.kind = "error200" /\ call[c].question \in Validated
  /\ ReleaseGuard(c) /\ Returns(c, "vendor_error", 0)
  /\ UNCHANGED <<now, raw, billed, mishaps>>

\* Mutant: the vendor's figure, reported or not.
CostReported(q, reply) == reply.charge

\* What the vendor says it charged, or else what was predicted.
Cost(q, reply) == IF reply.charge = None THEN Estimate[q] ELSE reply.charge

\* The answer is there and neither _send nor validate objects to it.
Accepted(c) ==
  /\ call[c].pc = "awaiting" /\ call[c].reply # None
  /\ \/ call[c].reply.kind = "rows"
     \/ call[c].reply.kind = "error200" /\ call[c].question \notin Validated

\* Mutant: stored before it is validated.
PersistUnchecked(c) ==
  LET q == call[c].question IN
  /\ call[c].pc = "awaiting" /\ call[c].reply # None /\ Runs(c)
  /\ call[c].reply.kind \in {"rows", "error200"}
  /\ raw' = Append(raw, [question |-> q, cost |-> Cost(q, call[c].reply), at |-> now,
                         error |-> call[c].reply.kind = "error200",
                         seen |-> call[c].seen, force |-> call[c].force])
  /\ call' = [call EXCEPT ![c].pc = "stored", ![c].row = Len(raw) + 1]
  /\ UNCHANGED <<now, paidLock, freeSlots, billed, mishaps>>

\* validate passes (or there is none): the bytes commit in a transaction of their own.
Persist(c) ==
  LET q == call[c].question IN
  /\ Accepted(c) /\ Runs(c)
  /\ raw' = Append(raw, [question |-> q, cost |-> Cost(q, call[c].reply), at |-> now,
                         error |-> call[c].reply.kind = "error200",
                         seen |-> call[c].seen, force |-> call[c].force])
  /\ call' = [call EXCEPT ![c].pc = "stored", ![c].row = Len(raw) + 1]
  /\ UNCHANGED <<now, paidLock, freeSlots, billed, mishaps>>

\* Mutant: a failed projection takes the stored bytes back with it.
ProjectRollingBack(c) ==
  /\ call[c].pc = "stored"
  /\ ReleaseGuard(c) /\ Returns(c, "bought", call[c].row)
  /\ raw' = SubSeq(raw, 1, Len(raw) - 1)
  /\ UNCHANGED <<now, billed, mishaps>>

\* The projection commits, or fails and is reported: the call succeeds either way.
Project(c) ==
  /\ call[c].pc = "stored"
  /\ ReleaseGuard(c) /\ Returns(c, "bought", call[c].row)
  /\ UNCHANGED <<now, raw, billed, mishaps>>

\* The caller takes the result and its task moves on.
Return(c) ==
  /\ call[c].pc = "returned" /\ Runs(c)
  /\ call' = [call EXCEPT ![c] = IdleCall]
  /\ UNCHANGED <<now, raw, paidLock, freeSlots, billed, mishaps>>

\* httpx.HTTPError: no answer within the timeout, or a broken connection, whether
\* or not the vendor had done the work.
LoseAnswer(c) ==
  /\ call[c].pc = "awaiting" /\ Runs(c) /\ Mishap
  /\ ReleaseGuard(c) /\ Returns(c, "vendor_error", 0)
  /\ UNCHANGED <<now, raw, billed>>

\* BEGIN IMMEDIATE raises OperationalError once busy_timeout has passed.
PersistBusy(c) ==
  /\ Accepted(c) /\ Runs(c) /\ Mishap
  /\ ReleaseGuard(c) /\ Returns(c, "db_error", 0)
  /\ UNCHANGED <<now, raw, billed>>

\* An exception no handler names: RateLimitTimeoutError before anything is sent, one
\* from validate on a body of an unforeseen shape, or from a projector, the row stored.
Escape(c) ==
  /\ \/ call[c].pc = "awaiting" /\ call[c].reply = None
     \/ call[c].pc = "awaiting" /\ call[c].reply # None /\ call[c].reply.kind # "http_error"
     \/ call[c].pc = "stored"
  /\ Runs(c) /\ Mishap
  /\ ReleaseGuard(c) /\ Returns(c, "escaped", 0)
  /\ UNCHANGED <<now, raw, billed>>

\* Mutant: the guard is released by a task that only waited for it.
CancelReleasing(c) ==
  /\ call[c].pc \in {"waiting", "awaiting"} /\ Runs(c) /\ Mishap
  /\ ReleaseGuard(c)
  /\ Returns(c, "cancelled", 0)
  /\ UNCHANGED <<now, raw, billed>>

\* Mutant: a cancelled call never leaves its guard.
CancelHolding(c) ==
  /\ call[c].pc \in {"waiting", "awaiting"} /\ Runs(c) /\ Mishap
  /\ Returns(c, "cancelled", 0)
  /\ UNCHANGED <<now, raw, paidLock, freeSlots, billed>>

\* asyncio cancels the task at an await.
Cancel(c) ==
  /\ call[c].pc \in {"waiting", "awaiting"} /\ Runs(c) /\ Mishap
  /\ IF call[c].pc = "awaiting" THEN ReleaseGuard(c) ELSE UNCHANGED <<paidLock, freeSlots>>
  /\ Returns(c, "cancelled", 0)
  /\ UNCHANGED <<now, raw, billed>>

\* The process dies: its locks die with it, the database stays.
Crash(h) ==
  /\ \E c \in Callers : HostOf[c] = h /\ call[c].pc # "idle"
  /\ Mishap
  /\ call' = [c \in Callers |-> IF HostOf[c] = h THEN IdleCall ELSE call[c]]
  /\ paidLock' = [paidLock EXCEPT ![h] = None]
  /\ freeSlots' = [freeSlots EXCEPT ![h] = FreeConcurrency]
  /\ UNCHANGED <<now, raw, billed>>

Tick ==
  /\ now < MaxTime
  /\ now' = now + 1
  /\ UNCHANGED <<raw, call, paidLock, freeSlots, billed, mishaps>>

-----------------------------------------------------------------------------

Init ==
  /\ now = 0
  /\ raw = <<>>
  /\ call = [c \in Callers |-> IdleCall]
  /\ paidLock = [h \in Hosts |-> None]
  /\ freeSlots = [h \in Hosts |-> FreeConcurrency]
  /\ billed = [q \in Questions |-> 0]
  /\ mishaps = 0

\* What a task of a host does by itself, once it has been asked something.
Proceed(c) ==
  \/ Hit(c) \/ Miss(c) \/ Decline(c) \/ Approve(c) \/ Enter(c)
  \/ Reject(c) \/ Persist(c) \/ Project(c) \/ Return(c)

Fault(c) == LoseAnswer(c) \/ PersistBusy(c) \/ Escape(c) \/ Cancel(c)

Next ==
  \/ \E c \in Callers :
       \/ \E q \in Questions, force, dry \in BOOLEAN : Begin(c, q, force, dry)
       \/ Proceed(c) \/ VendorAnswers(c) \/ Fault(c)
  \/ \E h \in Hosts : Crash(h)
  \/ Tick

Spec == Init /\ [][Next]_fetchVars

\* asyncio's ready queue and the waiters of its locks are first come, first
\* served, and a sent request ends by an answer or by its timeout.
Fairness == \A c \in Callers : SF_fetchVars(Proceed(c)) /\ WF_fetchVars(VendorAnswers(c))

FairSpec == Spec /\ Fairness

-----------------------------------------------------------------------------

Call == [pc : {"idle", "lookup", "check", "waiting", "awaiting", "stored", "returned"},
         question : Questions \cup {None}, force : BOOLEAN, dry : BOOLEAN, seen : Nat,
         reply : Reply \cup {None}, row : Nat,
         outcome : {None, "cached", "over_ceiling", "planned", "no_credential", "bought",
                    "vendor_error", "db_error", "escaped", "cancelled"}]

Row == [question : Questions, cost : Nat, at : Nat, error : BOOLEAN,
        seen : Nat, force : BOOLEAN]

TypeOK ==
  /\ now \in Nat /\ mishaps \in Nat
  /\ raw \in Seq(Row)
  /\ call \in [Callers -> Call]
  /\ \A c \in Callers : call[c].pc \notin {"idle", "returned"} => call[c].question \in Questions
  /\ paidLock \in [Hosts -> Callers \cup {None}]
  /\ freeSlots \in [Hosts -> Int]
  /\ billed \in [Questions -> Nat]

InsideCalls(h) == {c \in Callers : HostOf[c] = h /\ call[c].pc \in Inside}
FreeInside(h) == {c \in InsideCalls(h) : IsFree(call[c].question)}
PaidInside(h) == {c \in InsideCalls(h) : ~IsFree(call[c].question)}

\* In one process at most one paid call is between taking _paid_lock and leaving
\* it, whatever faults, cancellations and early exits came before.
PaidSerial == \A h \in Hosts : \A c, d \in PaidInside(h) : c = d

\* No exit from fetch leaks its guard: _paid_lock is held by exactly the call
\* inside it and _free_semaphore is short by exactly the calls inside it.  A slot
\* lost on one error path would stall every later call of the process.
GuardsBalanced ==
  \A h \in Hosts :
    /\ \A c \in Callers : paidLock[h] = c <=> c \in PaidInside(h)
    /\ freeSlots[h] >= 0
    /\ freeSlots[h] + Cardinality(FreeInside(h)) = FreeConcurrency

\* A vendor error inside an HTTP 200 is never served from the cache when the
\* capability has a validate hook: it is not in raw_response at all.
NoVendorErrorStored == \A i \in DOMAIN raw : raw[i].error => raw[i].question \notin Validated

\* An unforced purchase repeats a stored answer younger than its TTL only when
\* that answer was stored after the purchase had looked: the lookup never misses
\* what was there, and nothing but an overlap of two calls buys twice.
RepurchaseOnlyByOverlap ==
  \A i, j \in DOMAIN raw :
    /\ i < j /\ raw[i].question = raw[j].question
    /\ ~raw[j].force /\ raw[j].at - raw[i].at < TTL[raw[j].question]
    => raw[j].seen < i

PaidRows == {i \in DOMAIN raw : ~IsFree(raw[i].question)}

PaidAnswersHeld ==
  {c \in UNION {PaidInside(h) : h \in Hosts} :
     call[c].pc = "awaiting" /\ call[c].reply # None /\ call[c].reply.kind = "rows"}

PaidBills == SumFunctionOnSet(billed, {q \in Questions : ~IsFree(q)})

\* Every answer the vendor charged for is a stored row or in the hands of a call,
\* except one at most per fault: a crash of a process with many calls under way
\* loses one paid answer and no more, because _paid_lock lets one be under way.
\* And no row is stored that the vendor did not charge for.
PaidAnswersKept ==
  LET kept == Cardinality(PaidRows) + Cardinality(PaidAnswersHeld) IN
  kept <= PaidBills /\ PaidBills <= kept + mishaps

\* A fetch that was asked ends: it is answered, declined or fails, even with
\* other tasks of the process queueing for the same guard.
EveryCallReturns == \A c \in Callers : call[c].pc # "idle" ~> call[c].pc = "idle"

\* "Serialising paid calls makes check-then-spend safe without a reservation
\* protocol" (fetch.py:44): the month's spend never passes the ceiling.
CeilingHolds == SpentThisMonth <= Ceiling

\* "Answer a capability request from cache, or buy it once and keep it"
\* (fetch.py:232): no two unforced purchases of a question within its TTL.
BoughtOnce ==
  \A i, j \in DOMAIN raw :
    i < j /\ raw[i].question = raw[j].question /\ ~raw[j].force
    => raw[j].at - raw[i].at >= TTL[raw[j].question]

-----------------------------------------------------------------------------

Costs(q) == {Estimate[q]} \cup (Charges[q] \ {None})

\* The ledger this module implements: a call is an approval in flight from the
\* ceiling check to the row, or to whatever ends it without one.
Ledger == INSTANCE SpendLedger WITH
  Spenders  <- Callers,
  MaxCharge <- Max(UNION {Costs(q) : q \in Questions}),
  Overrun   <- Max(UNION {{k - Estimate[q] : k \in Costs(q)} : q \in Questions}),
  spent     <- SpentThisMonth,
  approved  <- [c \in Callers |->
                 IF call[c].pc \in {"waiting", "awaiting"} THEN Estimate[call[c].question] ELSE 0]

\* Every step of fetch is a step of check-then-spend, or none of the ledger's
\* business: in particular no row costs money without an approval before it.
ImplementsLedger == Ledger!LedgerSpec
=============================================================================
