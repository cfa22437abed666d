------------------------- MODULE Projections_proofs -------------------------
(***************************************************************************)
(* The archive and what is derived from it, for any number of processes,   *)
(* answers and ticks.  First the archive alone, which no step reads the    *)
(* tables to change: what prune may never do to it.  Then the tables: what *)
(* one projector writes, what a replay makes of many, and that each table  *)
(* is what its responses say, however it came about.                       *)
(***************************************************************************)
EXTENDS Projections, Lists_proofs

\* The last rowid is still in the archive: deleting the largest is what would let
\* SQLite give it out again.
LastIdStored ==
    /\ lastId \in Nat
    /\ DOMAIN raw \subseteq 1..lastId
    /\ lastId # 0 => lastId \in DOMAIN raw

ClockAndFrames ==
    /\ now \in Nat
    /\ DOMAIN proc = Processes
    /\ \A i \in DOMAIN raw : raw[i].at \in 0..now
    /\ \A i, j \in DOMAIN raw : i < j => raw[i].at <= raw[j].at

\* A previewed row that is still there is still a candidate: nothing makes a free,
\* stale, superseded answer anything else.
PlanStands ==
    \A p \in Processes :
        proc[p].pc = "previewed" =>
            /\ proc[p].rows \subseteq 1..lastId
            /\ \A i \in proc[p].rows \cap DOMAIN raw :
                \E c \in proc[p].by_capability : i \in Candidates(c)

IInv == LastIdStored /\ ClockAndFrames /\ PlanStands

LEMMA NewIdIsNext == ASSUME LastIdStored PROVE NewId = lastId + 1
<1>1. CASE lastId = 0
  BY <1>1 DEF LastIdStored, NewId
<1>2. CASE lastId # 0
  <2>1. lastId \in DOMAIN raw /\ \A y \in DOMAIN raw : lastId >= y
    BY <1>2 DEF LastIdStored
  <2>2. DOMAIN raw \subseteq Nat
    BY DEF LastIdStored
  <2>3. Max(DOMAIN raw) = lastId
    BY <2>1, <2>2 DEF Max, LastIdStored
  <2> QED
    BY <2>1, <2>3 DEF NewId
<1> QED
  BY <1>1, <1>2

\* Deletes never leave a question without an answer: above every stored response
\* stands the newest one to its question.
LEMMA NewestExists ==
    ASSUME LastIdStored, NEW i \in DOMAIN raw
    PROVE  \E j \in DOMAIN raw : /\ raw[j].capability = raw[i].capability
                                 /\ raw[j].question = raw[i].question
                                 /\ i <= j
                                 /\ ~Superseded(j)
<1> DEFINE Same == {j \in DOMAIN raw : /\ raw[j].capability = raw[i].capability
                                       /\ raw[j].question = raw[i].question
                                       /\ i <= j}
           Below == {lastId - j : j \in Same}
<1>1. DOMAIN raw \subseteq Nat /\ lastId \in Nat /\ \A j \in DOMAIN raw : j <= lastId
  BY DEF LastIdStored
<1>2. Below \subseteq Nat /\ i \in Same
  BY <1>1
<1>3. Below # {}
  BY <1>2
<1>4. \E x \in Below : \A y \in Below : ~(<<y, x>> \in OpToRel(<, Nat))
  BY <1>2, <1>3, NatLessThanWellFounded, WFMin
<1>5. PICK x \in Below : \A y \in Below : ~(y < x)
  BY <1>2, <1>4 DEF OpToRel
<1>6. PICK j \in Same : x = lastId - j
  BY <1>5
<1>7. \A k \in Same : ~(j < k)
  BY <1>1, <1>5, <1>6
<1>8. ~Superseded(j)
  BY <1>1, <1>6, <1>7 DEF Superseded
<1> QED
  BY <1>6, <1>8

LEMMA CandidateStands ==
    ASSUME ClockAndFrames, ClockAndFrames', now' >= now, NEW c, NEW i \in Candidates(c),
           i \in DOMAIN raw', raw'[i] = raw[i], Superseded(i)'
    PROVE  (i \in Candidates(c))'
<1>1. raw[i].at \in Nat /\ now \in Nat /\ now' \in Nat /\ FreeTTL \in Nat
  BY BoundsAssumption DEF Candidates, ClockAndFrames
<1>2. raw[i].capability = c /\ raw[i].cost = 0 /\ raw[i].at + FreeTTL < now
  BY DEF Candidates
<1>3. raw[i].at + FreeTTL < now'
  BY <1>1, <1>2
<1> QED
  BY <1>2, <1>3 DEF Candidates

\* Rows that are kept keep the plans over them standing.
LEMMA PlansCarryOver ==
    ASSUME ClockAndFrames, ClockAndFrames', PlanStands, now' >= now, lastId' >= lastId, LastIdStored,
           LastIdStored',
           \A p \in Processes : proc'[p].pc = "previewed" => proc'[p] = proc[p],
           \A i \in DOMAIN raw \cap DOMAIN raw' :
              raw'[i] = raw[i] /\ (Superseded(i) => Superseded(i)'),
           \A i \in DOMAIN raw' \ DOMAIN raw : i > lastId
    PROVE  PlanStands'
<1> SUFFICES ASSUME NEW p \in Processes, proc'[p].pc = "previewed"
             PROVE  /\ proc'[p].rows \subseteq 1..lastId'
                    /\ \A i \in proc'[p].rows \cap DOMAIN raw' :
                         \E c \in proc'[p].by_capability : (i \in Candidates(c))'
  BY DEF PlanStands
<1>1. proc'[p] = proc[p] /\ proc[p].pc = "previewed"
  OBVIOUS
<1>2. proc[p].rows \subseteq 1..lastId
  BY <1>1 DEF PlanStands
<1>3. proc'[p].rows \subseteq 1..lastId'
  BY <1>1, <1>2 DEF LastIdStored
<1>4. ASSUME NEW i \in proc'[p].rows \cap DOMAIN raw'
      PROVE  \E c \in proc'[p].by_capability : (i \in Candidates(c))'
  <2>1. i \in DOMAIN raw
    BY <1>1, <1>2, <1>4 DEF LastIdStored
  <2>2. PICK c \in proc[p].by_capability : i \in Candidates(c)
    BY <1>1, <2>1 DEF PlanStands
  <2>3. Superseded(i)
    BY <2>2 DEF Candidates
  <2>4. (i \in Candidates(c))'
    BY <2>1, <2>2, <2>3, CandidateStands
  <2> QED
    BY <1>1, <2>2, <2>4
<1> QED
  BY <1>3, <1>4

LEMMA StoreKeeps ==
    ASSUME IInv, NEW p \in Processes, NEW a \in Responses, Store(p, a)
    PROVE  IInv'
<1>1. NewId = lastId + 1 /\ lastId \in Nat /\ DOMAIN raw \subseteq 1..lastId
  BY NewIdIsNext DEF IInv, LastIdStored
<1>2. DOMAIN raw' = DOMAIN raw \cup {lastId + 1} /\ lastId' = lastId + 1 /\ now' = now
  BY <1>1 DEF Store
<1>3. \A i \in DOMAIN raw : raw'[i] = raw[i]
  BY <1>1 DEF Store
<1>4. raw'[lastId + 1].at = now
  BY <1>1 DEF Store
<1>5. LastIdStored'
  BY <1>1, <1>2 DEF LastIdStored
<1>6. ClockAndFrames'
  <2>1. DOMAIN proc' = Processes
    BY DEF Store, IInv, ClockAndFrames
  <2>2. now' \in Nat /\ \A i \in DOMAIN raw : raw[i].at \in 0..now
    BY <1>2 DEF IInv, ClockAndFrames
  <2>3. \A i \in DOMAIN raw' : raw'[i].at \in 0..now'
    BY <1>2, <1>3, <1>4, <2>2
  <2>4. ASSUME NEW i \in DOMAIN raw', NEW j \in DOMAIN raw', i < j
        PROVE  raw'[i].at <= raw'[j].at
    <3>1. i \in DOMAIN raw
      BY <1>1, <1>2, <2>4
    <3>2. CASE j \in DOMAIN raw
      BY <1>3, <2>4, <3>1, <3>2 DEF IInv, ClockAndFrames
    <3>3. CASE j = lastId + 1
      BY <1>3, <1>4, <2>2, <3>1, <3>3
    <3> QED
      BY <1>2, <3>2, <3>3
  <2> QED
    BY <2>1, <2>2, <2>3, <2>4 DEF ClockAndFrames
<1>7. \A q \in Processes : proc'[q].pc = "previewed" => proc'[q] = proc[q]
  <2> SUFFICES ASSUME NEW q \in Processes, proc'[q].pc = "previewed"
               PROVE  proc'[q] = proc[q]
    OBVIOUS
  <2> QED
    BY DEF Store, IInv, ClockAndFrames
<1>8. \A i \in DOMAIN raw : Superseded(i) => Superseded(i)'
  BY <1>2, <1>3 DEF Superseded
<1>9. PlanStands'
  <2>1. now' >= now /\ lastId' >= lastId
    BY <1>1, <1>2 DEF IInv, ClockAndFrames
  <2>2. \A i \in DOMAIN raw' \ DOMAIN raw : i > lastId
    BY <1>1, <1>2
  <2>3. \A i \in DOMAIN raw \cap DOMAIN raw' :
           raw'[i] = raw[i] /\ (Superseded(i) => Superseded(i)')
    BY <1>3, <1>8
  <2>4. LastIdStored /\ ClockAndFrames /\ PlanStands
    BY DEF IInv
  <2> QED
    BY <1>5, <1>6, <1>7, <2>1, <2>2, <2>3, <2>4, PlansCarryOver
<1> QED
  BY <1>5, <1>6, <1>9 DEF IInv

\* A preview starts a plan whose every row is a candidate of a planned capability.
LEMMA PreviewKeeps ==
    ASSUME IInv, NEW p \in Processes, PrunePreview(p)
    PROVE  IInv'
<1> DEFINE planned == {c \in Prunable : Candidates(c) # {}}
           rows == UNION {Candidates(c) : c \in planned}
<1>1. UNCHANGED <<raw, now, lastId>>
  BY DEF PrunePreview
<1>2. proc' = [proc EXCEPT ![p] = [pc |-> "previewed", by_capability |-> planned,
                                   rows |-> rows]]
  BY DEF PrunePreview
<1>3. LastIdStored' /\ ClockAndFrames'
  BY <1>1, <1>2 DEF IInv, LastIdStored, ClockAndFrames
<1>4. \A c : Candidates(c)' = Candidates(c)
  BY <1>1 DEF Candidates, Superseded
<1>5. ASSUME NEW q \in Processes, proc'[q].pc = "previewed"
      PROVE  /\ proc'[q].rows \subseteq 1..lastId'
             /\ \A i \in proc'[q].rows \cap DOMAIN raw' :
                  \E c \in proc'[q].by_capability : (i \in Candidates(c))'
  <2>1. CASE q = p
    <3>1. proc'[q].rows = rows /\ proc'[q].by_capability = planned
      BY <1>2, <2>1 DEF IInv, ClockAndFrames
    <3>2. rows \subseteq DOMAIN raw
      BY DEF Candidates
    <3>3. rows \subseteq 1..lastId'
      BY <1>1, <3>2 DEF IInv, LastIdStored
    <3>4. \A i \in rows : \E c \in planned : i \in Candidates(c)
      OBVIOUS
    <3> QED
      BY <1>4, <3>1, <3>3, <3>4
  <2>2. CASE q # p
    <3>1. proc'[q] = proc[q]
      BY <1>2, <2>2 DEF IInv, ClockAndFrames
    <3> QED
      BY <1>1, <1>4, <1>5, <3>1 DEF IInv, PlanStands
  <2> QED
    BY <2>1, <2>2
<1> QED
  BY <1>3, <1>5 DEF IInv, PlanStands

\* A delete takes no row that is the newest of its question, so the last rowid and
\* the superseders of the candidates of other plans stay.
LEMMA DeleteKeeps ==
    ASSUME IInv, NEW p \in Processes, PruneDelete(p)
    PROVE  IInv'
<1> DEFINE gone == UNION {Candidates(c) : c \in proc[p].by_capability}
<1>1. DOMAIN raw' = DOMAIN raw \ gone /\ (\A i \in DOMAIN raw' : raw'[i] = raw[i])
  BY DEF PruneDelete
<1>2. UNCHANGED <<now, lastId>> /\ proc' = [proc EXCEPT ![p] = Idle]
  BY DEF PruneDelete
<1>3. \A i \in gone : Superseded(i)
  BY DEF Candidates
<1>4. LastIdStored'
  <2>1. ~Superseded(lastId)
    BY DEF IInv, LastIdStored, Superseded
  <2> QED
    BY <1>1, <1>2, <1>3, <2>1 DEF IInv, LastIdStored
<1>5. ClockAndFrames'
  BY <1>1, <1>2 DEF IInv, ClockAndFrames
<1>6. \A q \in Processes : proc'[q].pc = "previewed" => proc'[q] = proc[q]
  BY <1>2 DEF Idle, IInv, ClockAndFrames
<1>7. ASSUME NEW i \in DOMAIN raw', Superseded(i)
      PROVE  Superseded(i)'
  <2>1. PICK k \in DOMAIN raw : /\ raw[k].capability = raw[i].capability
                                /\ raw[k].question = raw[i].question
                                /\ i < k
    BY <1>7 DEF Superseded
  <2>2. PICK j \in DOMAIN raw : /\ raw[j].capability = raw[k].capability
                                /\ raw[j].question = raw[k].question
                                /\ k <= j
                                /\ ~Superseded(j)
    BY NewestExists DEF IInv
  <2>3. i < j
    BY <1>1, <1>7, <2>1, <2>2 DEF IInv, LastIdStored
  <2>4. j \in DOMAIN raw'
    BY <1>1, <1>3, <2>2
  <2> QED
    BY <1>1, <2>1, <2>2, <2>3, <2>4 DEF Superseded
<1>8. PlanStands'
  <2>1. now' >= now /\ lastId' >= lastId
    BY <1>2 DEF IInv, ClockAndFrames, LastIdStored
  <2>2. \A i \in DOMAIN raw' \ DOMAIN raw : i > lastId
    BY <1>1
  <2>3. \A i \in DOMAIN raw \cap DOMAIN raw' :
           raw'[i] = raw[i] /\ (Superseded(i) => Superseded(i)')
    BY <1>1, <1>7
  <2>4. LastIdStored /\ ClockAndFrames /\ PlanStands
    BY DEF IInv
  <2> QED
    BY <1>4, <1>5, <1>6, <2>1, <2>2, <2>3, <2>4, PlansCarryOver
<1> QED
  BY <1>4, <1>5, <1>8 DEF IInv

\* The other steps leave the archive alone and start no plan.
LEMMA ArchiveUntouched ==
    ASSUME IInv, UNCHANGED <<raw, lastId>>, now' \in Nat, now' >= now,
           DOMAIN proc' = Processes,
           \A q \in Processes : proc'[q].pc = "previewed" => proc'[q] = proc[q]
    PROVE  IInv'
<1>1. LastIdStored' /\ ClockAndFrames'
  BY DEF IInv, LastIdStored, ClockAndFrames
<1>2. \A i \in DOMAIN raw \cap DOMAIN raw' :
         raw'[i] = raw[i] /\ (Superseded(i) => Superseded(i)')
  BY DEF Superseded
<1>3. \A i \in DOMAIN raw' \ DOMAIN raw : i > lastId
  OBVIOUS
<1>4. lastId' >= lastId
  BY DEF IInv, LastIdStored
<1>5. LastIdStored /\ ClockAndFrames /\ PlanStands
  BY DEF IInv
<1>6. PlanStands'
  BY <1>1, <1>2, <1>3, <1>4, <1>5, PlansCarryOver
<1> QED
  BY <1>1, <1>6 DEF IInv

-----------------------------------------------------------------------------

LEMMA InitEstablishes == Init => IInv
<1> SUFFICES ASSUME Init PROVE IInv
  OBVIOUS
<1>1. DOMAIN raw = {}
  BY DEF Init
<1>2. \A p \in Processes : proc[p].pc = "idle"
  BY DEF Init, Idle
<1> QED
  BY <1>1, <1>2 DEF Init, IInv, LastIdStored, ClockAndFrames, PlanStands

LEMMA StepPreserves == IInv /\ [Next]_vars => IInv'
<1> SUFFICES ASSUME IInv, [Next]_vars PROVE IInv'
  OBVIOUS
<1> USE DEF ClockAndFrames
<1>1. ASSUME NEW p \in Processes, NEW a \in Responses, Store(p, a) PROVE IInv'
  BY <1>1, StoreKeeps
<1>2. ASSUME NEW p \in Processes, Project(p) \/ GiveUp(p) PROVE IInv'
  <2>1. UNCHANGED <<raw, lastId, now>> /\ proc' = [proc EXCEPT ![p] = Idle]
    BY <1>2 DEF Project, GiveUp
  <2> QED
    BY <2>1, ArchiveUntouched DEF Idle, IInv
<1>3. ASSUME NEW p \in Processes, NEW chosen \in Selections, Rebuild(p, chosen) PROVE IInv'
  <2>1. UNCHANGED <<raw, lastId, now, proc>>
    BY <1>3 DEF Rebuild
  <2> QED
    BY <2>1, ArchiveUntouched DEF IInv
<1>4. ASSUME NEW p \in Processes, PrunePreview(p) PROVE IInv'
  BY <1>4, PreviewKeeps
<1>5. ASSUME NEW p \in Processes, PruneDelete(p) PROVE IInv'
  BY <1>5, DeleteKeeps
<1>6. CASE Tick
  BY <1>6, ArchiveUntouched DEF Tick, IInv
<1>7. CASE UNCHANGED vars
  BY <1>7, ArchiveUntouched DEF vars, IInv
<1> QED
  BY <1>1, <1>2, <1>3, <1>4, <1>5, <1>6, <1>7 DEF Next

\* What is stored, when, and what a prune has in hand stay consistent.
THEOREM Invariance == Spec => []IInv
  BY InitEstablishes, StepPreserves, PTL DEF Spec

-----------------------------------------------------------------------------

\* A rowid belongs to one response for ever, so raw_id names what it named and
\* (fetched_at, id) is the order of storing, although prune deletes rows.
THEOREM RowidsUnique == Spec => IdsNeverReused
<1>1. ASSUME IInv, [Next]_vars, NEW i \in DOMAIN raw' \ DOMAIN raw
      PROVE  i > lastId
  <2>1. ASSUME NEW p \in Processes, NEW a \in Responses, Store(p, a) PROVE i > lastId
    <3>1. i = NewId /\ NewId = lastId + 1 /\ lastId \in Nat
      BY <1>1, <2>1, NewIdIsNext DEF Store, IInv, LastIdStored
    <3> QED
      BY <3>1
  <2>2. ASSUME DOMAIN raw' \subseteq DOMAIN raw PROVE i > lastId
    BY <1>1, <2>2
  <2> QED
    BY <1>1, <2>1, <2>2
       DEF Next, Project, GiveUp, Rebuild, PrunePreview, PruneDelete, Tick, vars
<1>2. IInv /\ [Next]_vars => [\A i \in DOMAIN raw' \ DOMAIN raw : i > lastId]_vars
  BY <1>1
<1> QED
  BY <1>2, Invariance, PTL DEF Spec, IdsNeverReused

\* However prunes and writers interleave, an answered question keeps an answer at
\* least as recent: ids and times agree, so the largest id kept is the latest.
THEOREM AnswersKept == Spec => CacheNeverFallsBack
<1>1. ASSUME IInv, [Next]_vars, NEW i \in DOMAIN raw
      PROVE  \E j \in DOMAIN raw' : /\ raw'[j].capability = raw[i].capability
                                    /\ raw'[j].question = raw[i].question
                                    /\ raw'[j].at >= raw[i].at
  <2>1. DOMAIN raw \subseteq Nat /\ \A k \in DOMAIN raw : raw[k].at \in Nat
    BY <1>1 DEF IInv, LastIdStored, ClockAndFrames
  <2>2. PICK j \in DOMAIN raw : /\ raw[j].capability = raw[i].capability
                                /\ raw[j].question = raw[i].question
                                /\ i <= j
                                /\ ~Superseded(j)
    BY <1>1, NewestExists DEF IInv
  <2>3. raw[j].at >= raw[i].at
    BY <1>1, <2>1, <2>2 DEF IInv, ClockAndFrames
  <2>4. ASSUME NEW p \in Processes, PruneDelete(p)
        PROVE  j \in DOMAIN raw' /\ raw'[j] = raw[j]
    BY <2>2, <2>4 DEF PruneDelete, Candidates
  <2>5. ASSUME NEW p \in Processes, NEW a \in Responses, Store(p, a)
        PROVE  j \in DOMAIN raw' /\ raw'[j] = raw[j]
    <3>1. j # NewId
      BY <1>1, <2>1, NewIdIsNext DEF IInv, LastIdStored
    <3> QED
      BY <2>5, <3>1 DEF Store
  <2>6. j \in DOMAIN raw' /\ raw'[j] = raw[j]
    BY <1>1, <2>4, <2>5 DEF Next, Project, GiveUp, Rebuild, PrunePreview, Tick, vars
  <2> QED
    BY <2>2, <2>3, <2>6
<1>2. IInv /\ [Next]_vars =>
        [\A i \in DOMAIN raw :
            \E j \in DOMAIN raw' :
                /\ raw'[j].capability = raw[i].capability
                /\ raw'[j].question = raw[i].question
                /\ raw'[j].at >= raw[i].at]_vars
  BY <1>1
<1> QED
  BY <1>2, Invariance, PTL DEF Spec, CacheNeverFallsBack

\* When a prune is done, every row its preview counted is gone, whoever deleted it.
THEOREM PrunesAchievePlans == Spec => PlannedGone
<1>1. ASSUME IInv, [Next]_vars, NEW p \in Processes, proc[p].pc = "previewed",
             proc'[p].pc = "idle"
      PROVE  proc[p].rows \cap DOMAIN raw' = {}
  <2>1. PruneDelete(p)
    BY <1>1 DEF Next, Store, Project, GiveUp, Rebuild, PrunePreview, PruneDelete, Tick, vars,
                Idle, IInv, ClockAndFrames
  <2>2. DOMAIN raw' = DOMAIN raw \ UNION {Candidates(c) : c \in proc[p].by_capability}
    BY <2>1 DEF PruneDelete
  <2>3. \A i \in proc[p].rows \cap DOMAIN raw : \E c \in proc[p].by_capability : i \in Candidates(c)
    BY <1>1 DEF IInv, PlanStands
  <2> QED
    BY <2>2, <2>3
<1>2. IInv /\ [Next]_vars =>
        [\A p \in Processes :
            proc[p].pc = "previewed" /\ proc'[p].pc = "idle" =>
                proc[p].rows \cap DOMAIN raw' = {}]_vars
  BY <1>1
<1> QED
  BY <1>2, Invariance, PTL DEF Spec, PlannedGone

-----------------------------------------------------------------------------
(* What a replay makes of a table                                          *)

LEMMA MaxIsNew ==
    ASSUME NEW X \in SUBSET Nat, NEW i \in Nat, \A x \in X : x < i
    PROVE  Max(X \cup {i}) = i
<1>1. i \in X \cup {i} /\ \A x \in X \cup {i} : i >= x
  OBVIOUS
<1>2. \A y \in X \cup {i} : (\A x \in X \cup {i} : y >= x) => y = i
  OBVIOUS
<1> QED
  BY <1>1, <1>2 DEF Max

LEMMA MinIsOld ==
    ASSUME NEW X \in SUBSET Nat, NEW i \in Nat, \A x \in X : x < i
    PROVE  Min(X \cup {i}) = IF X = {} THEN i ELSE Min(X)
<1>1. CASE X = {}
  BY <1>1 DEF Min
<1>2. CASE X # {}
  <2>1. \E x \in X : \A y \in X : ~(<<y, x>> \in OpToRel(<, Nat))
    BY <1>2, NatLessThanWellFounded, WFMin
  <2>2. PICK x \in X : \A y \in X : ~(y < x)
    BY <2>1 DEF OpToRel
  <2>3. \A y \in X : x <= y
    BY <2>2
  <2>4. \A z \in X : (\A y \in X : z <= y) => z = x
    BY <2>3
  <2>5. Min(X) = x
    BY <2>3, <2>4 DEF Min
  <2>6. x \in X \cup {i} /\ \A y \in X \cup {i} : x <= y
    BY <2>3
  <2>7. \A z \in X \cup {i} : (\A y \in X \cup {i} : z <= y) => z = x
    BY <2>6
  <2>8. Min(X \cup {i}) = x
    BY <2>6, <2>7 DEF Min
  <2> QED
    BY <1>2, <2>5, <2>8
<1> QED
  BY <1>1, <1>2

\* The newest response speaks for a column, and the others do when it is not asked.
LEMMA NewestSaid ==
    ASSUME NEW X \in SUBSET Nat, NEW i \in Nat, \A x \in X : x < i, NEW k, NEW column
    PROVE  LastSaid(X \cup {i}, k, column) = Said(i, RecordOf(i, k), column)
BY MaxIsNew DEF LastSaid, Said

\* One more response, newer than the others, does to a keyword what its projector
\* does to the row.
LEMMA KeywordGrows ==
    ASSUME DOMAIN raw \subseteq Nat, NEW S \in SUBSET DOMAIN raw, NEW i \in DOMAIN raw,
           \A j \in S : j < i, NEW k, k \in Keys("keyword", i)
    PROVE  KeywordOf(S \cup {i}, k) =
             Written(raw[i].capability, i, RecordOf(i, k),
                     IF Naming(S, k) # {} THEN KeywordOf(S, k) ELSE Inserted(i))
<1> DEFINE c == raw[i].capability
           r == RecordOf(i, k)
           New == S \cup {i}
           old == IF Naming(S, k) # {} THEN KeywordOf(S, k) ELSE Inserted(i)
           attributes == {"AUTOCOMPLETE", "BULK_KEYWORD_DIFFICULTY", "SEARCH_INTENT"}
           owned == IF Naming(S, k) # {} THEN Owner(S, k) ELSE i
           rates == c = "BULK_KEYWORD_DIFFICULTY" \/ (c \notin attributes /\ "difficulty" \in r.says)
           labels == c = "SEARCH_INTENT" \/ (c \notin attributes /\ "intent" \in r.says)
<1>1. Naming(New, k) = Naming(S, k) \cup {i}
  BY DEF Naming
<1>2. \A d : AskedFor(New, k, d) = AskedFor(S, k, d) \cup (IF c = d THEN {i} ELSE {})
  BY <1>1 DEF AskedFor
<1>3. Measuring(New, k) = Measuring(S, k) \cup (IF c \notin attributes THEN {i} ELSE {})
  BY <1>1 DEF Measuring
<1>4. \A column : Reporting(New, k, column) =
        Reporting(S, k, column) \cup (IF c \notin attributes /\ column \in r.says THEN {i} ELSE {})
  BY <1>3 DEF Reporting
<1>5. /\ Naming(S, k) \in SUBSET Nat /\ Measuring(S, k) \subseteq Naming(S, k)
      /\ Rated(S, k) \subseteq Naming(S, k) /\ Labelled(S, k) \subseteq Naming(S, k)
      /\ \A j \in Naming(S, k) : j < i
      /\ i \in Nat
  BY DEF Naming, Measuring, Rated, Labelled, AskedFor, Reporting
<1>0. /\ Measuring(S, k) \in SUBSET Nat /\ \A j \in Measuring(S, k) : j < i
      /\ Rated(S, k) \in SUBSET Nat /\ \A j \in Rated(S, k) : j < i
      /\ Labelled(S, k) \in SUBSET Nat /\ \A j \in Labelled(S, k) : j < i
  BY <1>5
<1>6. /\ old.volume = LastSaid(Measuring(S, k), k, "volume")
      /\ old.difficulty = LastSaid(Rated(S, k), k, "difficulty")
      /\ old.intent = LastSaid(Labelled(S, k), k, "intent")
      /\ old.probability = LastSaid(Labelled(S, k), k, "probability")
      /\ old.raw_id = owned /\ old.updated_at = raw[owned].at
      /\ old = [volume |-> old.volume, difficulty |-> old.difficulty, intent |-> old.intent,
                probability |-> old.probability, updated_at |-> old.updated_at,
                raw_id |-> old.raw_id]
  <2>1. CASE Naming(S, k) # {}
    BY <2>1 DEF KeywordOf
  <2>2. CASE Naming(S, k) = {}
    BY <1>5, <2>2 DEF Inserted, LastSaid
  <2> QED
    BY <2>1, <2>2
<1> HIDE DEF old
<1>7. Owner(New, k) = IF c \notin attributes THEN i ELSE owned
  <2>1. CASE c \notin attributes
    BY <1>3, <1>5, <2>1, MaxIsNew DEF Owner
  <2>2. CASE c \in attributes /\ Measuring(S, k) # {}
    BY <1>3, <1>5, <2>2 DEF Owner
  <2>3. CASE c \in attributes /\ Measuring(S, k) = {}
    BY <1>1, <1>3, <1>5, <2>3, MinIsOld DEF Owner
  <2> QED
    BY <2>1, <2>2, <2>3
<1>8. Rated(New, k) = Rated(S, k) \cup
        (IF rates THEN {i} ELSE {})
  BY <1>2, <1>4 DEF Rated
<1>9. Labelled(New, k) = Labelled(S, k) \cup
        (IF labels THEN {i} ELSE {})
  BY <1>2, <1>4 DEF Labelled
<1> HIDE DEF rates, labels
<1>10. LastSaid(Measuring(New, k), k, "volume") =
         IF c \notin attributes THEN Said(i, r, "volume") ELSE old.volume
  <2>1. CASE c \notin attributes
    <3>1. Measuring(New, k) = Measuring(S, k) \cup {i}
      BY <1>3, <2>1
    <3> QED
      BY <1>0, <1>5, <2>1, <3>1, NewestSaid
  <2>2. CASE c \in attributes
    BY <1>3, <1>6, <2>2
  <2> QED
    BY <2>1, <2>2
<1>11. LastSaid(Rated(New, k), k, "difficulty") =
         IF rates THEN Said(i, r, "difficulty") ELSE old.difficulty
  <2>1. CASE rates
    <3>1. Rated(New, k) = Rated(S, k) \cup {i}
      BY <1>8, <2>1
    <3>2. LastSaid(Rated(S, k) \cup {i}, k, "difficulty") = Said(i, r, "difficulty")
      BY <1>0, <1>5, NewestSaid
    <3> QED
      BY <2>1, <3>1, <3>2
  <2>2. CASE ~rates
    <3>1. Rated(New, k) = Rated(S, k)
      BY <1>8, <2>2
    <3> QED
      BY <1>6, <2>2, <3>1
  <2> QED
    BY <2>1, <2>2
<1>12. \A column \in {"intent", "probability"} :
         LastSaid(Labelled(New, k), k, column) =
           IF labels THEN Said(i, r, column) ELSE old[column]
  <2>1. CASE labels
    <3>1. Labelled(New, k) = Labelled(S, k) \cup {i}
      BY <1>9, <2>1
    <3> QED
      BY <1>0, <1>5, <2>1, <3>1, NewestSaid
  <2>2. CASE ~labels
    <3>1. Labelled(New, k) = Labelled(S, k)
      BY <1>9, <2>2
    <3> QED
      BY <1>6, <2>2, <3>1
  <2> QED
    BY <2>1, <2>2
<1>13. KeywordOf(New, k) =
         [volume |-> IF c \notin attributes THEN Said(i, r, "volume") ELSE old.volume,
          difficulty |-> IF rates THEN Said(i, r, "difficulty") ELSE old.difficulty,
          intent |-> IF labels THEN Said(i, r, "intent") ELSE old.intent,
          probability |-> IF labels THEN Said(i, r, "probability") ELSE old.probability,
          updated_at |-> IF c \notin attributes THEN raw[i].at ELSE old.updated_at,
          raw_id |-> IF c \notin attributes THEN i ELSE old.raw_id]
  BY <1>6, <1>7, <1>10, <1>11, <1>12 DEF KeywordOf
<1>14. Written(c, i, r, old) = KeywordOf(New, k)
  <2>1. CASE c = "AUTOCOMPLETE"
    BY <1>6, <1>13, <2>1 DEF Written, rates, labels
  <2>2. CASE c = "BULK_KEYWORD_DIFFICULTY"
    BY <1>6, <1>13, <2>2 DEF Written, rates, labels
  <2>3. CASE c = "SEARCH_INTENT"
    BY <1>6, <1>13, <2>3 DEF Written, rates, labels
  <2>4. CASE c \notin attributes
    BY <1>6, <1>13, <2>4 DEF Written, Measured, Said, rates, labels
  <2> QED
    BY <2>1, <2>2, <2>3, <2>4
<1> QED
  BY <1>14 DEF old

\* One more response, newer than the others, does to a table what its projector does.
LEMMA DerivedGrows ==
    ASSUME DOMAIN raw \subseteq Nat, NEW S \in SUBSET DOMAIN raw, NEW i \in DOMAIN raw,
           \A j \in S : j < i, NEW T, NEW t \in Tables, T[t] = Derived(t, S)
    PROVE  Apply(T, i)[t] = Derived(t, S \cup {i})
<1> DEFINE New == S \cup {i}
           keys == UNION {Keys(t, j) : j \in S}
           current(k) == IF k \in DOMAIN T["keyword"] THEN T["keyword"][k] ELSE Inserted(i)
           row(x) == IF x \in Keys(t, i)
                     THEN IF t = "keyword"
                          THEN Written(raw[i].capability, i, RecordOf(i, x), current(x))
                          ELSE i
                     ELSE T[t][x]
           new(x) == IF t = "keyword" THEN KeywordOf(New, x)
                     ELSE Max({j \in New : x \in Keys(t, j)})
           old(x) == IF t = "keyword" THEN KeywordOf(S, x)
                     ELSE Max({j \in S : x \in Keys(t, j)})
<1>1. DOMAIN T[t] = keys /\ \A x \in keys : T[t][x] = old(x)
  BY DEF Derived
<1>2. Apply(T, i)[t] = [x \in Keys(t, i) \cup DOMAIN T[t] |-> row(x)]
  BY DEF Apply
<1>3. Derived(t, New) = [x \in UNION {Keys(t, j) : j \in New} |-> new(x)]
  BY DEF Derived
<1>4. UNION {Keys(t, j) : j \in New} = Keys(t, i) \cup DOMAIN T[t]
  BY <1>1
<1>5. ASSUME NEW x \in Keys(t, i) \cup DOMAIN T[t] PROVE row(x) = new(x)
  <2>1. CASE x \notin Keys(t, i)
    <3>1. row(x) = old(x)
      BY <1>1, <2>1
    <3>2. {j \in New : x \in Keys(t, j)} = {j \in S : x \in Keys(t, j)}
      BY <2>1
    <3>3. t = "keyword" => KeywordOf(New, x) = KeywordOf(S, x)
      <4> SUFFICES ASSUME t = "keyword" PROVE KeywordOf(New, x) = KeywordOf(S, x)
        OBVIOUS
      <4>1. Naming(New, x) = Naming(S, x)
        BY <3>2 DEF Naming
      <4> QED
        BY <4>1 DEF KeywordOf, Owner, Rated, Labelled, Reporting, Measuring, AskedFor
    <3> QED
      BY <3>1, <3>2, <3>3
  <2>2. CASE x \in Keys(t, i) /\ t = "keyword"
    <3>1. x \in DOMAIN T["keyword"] <=> Naming(S, x) # {}
      BY <1>1, <2>2 DEF Naming
    <3>2. current(x) = IF Naming(S, x) # {} THEN KeywordOf(S, x) ELSE Inserted(i)
      BY <1>1, <2>2, <3>1
    <3>3. KeywordOf(New, x) = Written(raw[i].capability, i, RecordOf(i, x), current(x))
      BY <2>2, <3>2, KeywordGrows
    <3> QED
      BY <2>2, <3>3
  <2>3. CASE x \in Keys(t, i) /\ t # "keyword"
    <3> DEFINE X == {j \in S : x \in Keys(t, j)}
    <3>1. {j \in New : x \in Keys(t, j)} = X \cup {i}
      BY <2>3
    <3>2. X \in SUBSET Nat /\ i \in Nat /\ \A j \in X : j < i
      OBVIOUS
    <3>3. Max(X \cup {i}) = i
      BY <3>2, MaxIsNew
    <3> QED
      BY <2>3, <3>1, <3>3
  <2> QED
    BY <2>1, <2>2, <2>3
<1> HIDE DEF row, new
<1> QED
  BY <1>2, <1>3, <1>4, <1>5

\* What says nothing of a table does not count.
LEMMA DerivedWithin ==
    ASSUME NEW t \in Tables, NEW S, NEW R, S \subseteq R, \A i \in R \ S : Keys(t, i) = {}
    PROVE  Derived(t, R) = Derived(t, S)
<1>1. UNION {Keys(t, i) : i \in R} = UNION {Keys(t, i) : i \in S}
  OBVIOUS
<1>2. \A x : {i \in R : x \in Keys(t, i)} = {i \in S : x \in Keys(t, i)}
  OBVIOUS
<1>3. ASSUME NEW x, t = "keyword" PROVE KeywordOf(R, x) = KeywordOf(S, x)
  <2>1. Naming(R, x) = Naming(S, x)
    BY <1>2, <1>3 DEF Naming
  <2> QED
    BY <2>1 DEF KeywordOf, Owner, Rated, Labelled, Reporting, Measuring, AskedFor
<1> QED
  BY <1>1, <1>2, <1>3 DEF Derived

\* The recursive function inside FoldLeft, of Apply.
Replayed(T, list) ==
    CHOOSE iter : iter = [s \in SUBSET DOMAIN list |->
                            IF s = {} THEN T
                            ELSE Apply(iter[s \ {Max(s)}], list[Max(s)])]

LEMMA ReplayUnfolds ==
    ASSUME NEW T, NEW list
    PROVE  FoldLeft(Apply, T, list) = Replayed(T, list)[DOMAIN list]
BY DEF FoldLeft, MapThenFoldSet, Replayed

Replay(T, list) == FoldLeft(Apply, T, list)

\* A replay goes through tables, each the one before with one response applied.
LEMMA ReplaySteps ==
    ASSUME NEW T, NEW N \in Nat, NEW list, DOMAIN list = 1 .. N
    PROVE  \E after : /\ after[0] = T /\ after[N] = Replay(T, list)
                      /\ \A n \in 1 .. N : after[n] = Apply(after[n - 1], list[n])
<1> DEFINE Folds(f, n) == \A s \in SUBSET (1 .. n) :
                f[s] = IF s = {} THEN T ELSE Apply(f[s \ {Max(s)}], list[Max(s)])
           R == {n \in Nat : \E f : Folds(f, n)}
<1>1. 0 \in R
  <2> DEFINE f == [s \in {{}} |-> T]
  <2>1. Folds(f, 0)
    OBVIOUS
  <2> QED
    BY <2>1
<1>2. ASSUME NEW n \in Nat, n \in R PROVE n + 1 \in R
  <2>1. PICK f : Folds(f, n)
    BY <1>2
  <2> DEFINE g == [s \in SUBSET (1 .. n + 1) |->
                     IF n + 1 \in s THEN Apply(f[s \ {n + 1}], list[n + 1]) ELSE f[s]]
  <2>2. ASSUME NEW s \in SUBSET (1 .. n + 1)
        PROVE  g[s] = IF s = {} THEN T ELSE Apply(g[s \ {Max(s)}], list[Max(s)])
    <3>1. CASE n + 1 \in s
      <4>1. Max(s) = n + 1
        <5>1. \A x \in s : x \in Nat /\ n + 1 >= x
          OBVIOUS
        <5>2. \A y \in s : (\A x \in s : y >= x) => y = n + 1
          BY <3>1, <5>1
        <5> QED
          BY <3>1, <5>1, <5>2 DEF Max
      <4>2. s \ {n + 1} \in SUBSET (1 .. n + 1) /\ n + 1 \notin s \ {n + 1}
        OBVIOUS
      <4>3. g[s \ {n + 1}] = f[s \ {n + 1}]
        BY <4>2
      <4>4. g[s] = Apply(f[s \ {n + 1}], list[n + 1]) /\ s # {}
        BY <3>1
      <4> HIDE DEF g
      <4> QED
        BY <4>1, <4>3, <4>4
    <3>2. CASE n + 1 \notin s
      <4>1. s \in SUBSET (1 .. n)
        BY <3>2
      <4>2. s \ {Max(s)} \in SUBSET (1 .. n + 1) /\ n + 1 \notin s \ {Max(s)}
        BY <3>2
      <4>3. g[s] = f[s] /\ g[s \ {Max(s)}] = f[s \ {Max(s)}]
        BY <3>2, <4>2
      <4> HIDE DEF g
      <4> QED
        BY <2>1, <4>1, <4>3
    <3> QED
      BY <3>1, <3>2
  <2> HIDE DEF g
  <2>3. \E h : Folds(h, n + 1)
    BY <2>2
  <2>4. n + 1 \in Nat
    OBVIOUS
  <2> HIDE DEF Folds
  <2> QED
    BY Zenon, <2>3, <2>4
<1>3. N \in R
  <2> HIDE DEF R
  <2> QED
    BY <1>1, <1>2, NatSetInduction
<1>4. PICK f : Folds(f, N)
  BY <1>3
<1> DEFINE Body(h) == [s \in SUBSET DOMAIN list |->
                         IF s = {} THEN T ELSE Apply(h[s \ {Max(s)}], list[Max(s)])]
           total == [s \in SUBSET DOMAIN list |-> f[s]]
<1>5. total = Body(total)
  BY <1>4
<1>6. Replayed(T, list) = Body(Replayed(T, list))
  <2> HIDE DEF total
  <2> QED
    BY <1>5 DEF Replayed
<1> DEFINE after == [n \in 0 .. N |-> Replayed(T, list)[1 .. n]]
<1>7. after[0] = T
  <2>1. 1 .. 0 = {} /\ {} \in SUBSET DOMAIN list
    OBVIOUS
  <2> QED
    BY <1>6, <2>1
<1>8. ASSUME NEW n \in 1 .. N PROVE after[n] = Apply(after[n - 1], list[n])
  <2>1. Max(1 .. n) = n
    <3>1. n \in 1 .. n /\ \A x \in 1 .. n : n >= x
      OBVIOUS
    <3>2. \A y \in 1 .. n : (\A x \in 1 .. n : y >= x) => y = n
      OBVIOUS
    <3> QED
      BY <3>1, <3>2 DEF Max
  <2>2. (1 .. n) \ {n} = 1 .. n - 1 /\ 1 .. n \in SUBSET DOMAIN list /\ 1 .. n # {} /\ n - 1 \in 0 .. N
    OBVIOUS
  <2>3. Replayed(T, list)[1 .. n] = Apply(Replayed(T, list)[1 .. n - 1], list[n])
    BY <1>6, <2>1, <2>2
  <2> QED
    BY <2>2, <2>3
<1>9. after[N] = Replay(T, list)
  BY ReplayUnfolds DEF Replay
<1> HIDE DEF after
<1> QED
  BY <1>7, <1>8, <1>9

-----------------------------------------------------------------------------
(* The rows of the tables                                                  *)

\* What is stored is an answer that could arrive.
RowsWell ==
    \A i \in DOMAIN raw :
        /\ raw[i].capability \in REGISTRY
        /\ \A r \in raw[i].records : "probability" \in r.says => "intent" \in r.says

\* A row of `keyword` refers to stored responses, and its confidence is its label's.
Sound(k, row) ==
    /\ row \in [volume : Ids, difficulty : Ids, intent : Ids, probability : Ids,
                updated_at : Nat, raw_id : DOMAIN raw]
    /\ k \in Keys("keyword", row.raw_id)
    /\ row.updated_at = raw[row.raw_id].at
    /\ row.volume \in {Null, row.raw_id}
    /\ row.probability \in {Null, row.intent}

\* Every key of a table was given by a stored response of that table.
WellFormed(T) ==
    /\ T = [t \in Tables |-> [x \in DOMAIN T[t] |-> T[t][x]]]
    /\ \A t \in Tables : \A x \in DOMAIN T[t] : \E i \in Archive(t) : x \in Keys(t, i)
    /\ \A t \in Tables \ {"keyword"} : \A x \in DOMAIN T[t] : T[t][x] \in Ids
    /\ \A k \in DOMAIN T["keyword"] : Sound(k, T["keyword"][k])

\* A projector leaves a sound row where a sound one, or none, stood.
LEMMA WrittenSound ==
    ASSUME LastIdStored, ClockAndFrames, RowsWell, NEW i \in DOMAIN raw,
           NEW k \in Keys("keyword", i), NEW old, Sound(k, old)
    PROVE  Sound(k, Written(raw[i].capability, i, RecordOf(i, k), old))
<1> DEFINE c == raw[i].capability
           r == RecordOf(i, k)
<1>1. r \in raw[i].records
  <2>1. k \in Named(i)
    BY DEF Keys
  <2> QED
    BY <2>1 DEF Named, RecordOf
<1>2. "probability" \in r.says => "intent" \in r.says
  BY <1>1 DEF RowsWell
<1>3. i \in Ids /\ Null \in Ids /\ raw[i].at \in Nat
  BY DEF LastIdStored, ClockAndFrames, Ids, Null
<1>4. \A column : Said(i, r, column) \in {Null, i}
  BY DEF Said
<1>5. Said(i, r, "probability") \in {Null, Said(i, r, "intent")}
  BY <1>2 DEF Said
<1> HIDE DEF r
<1>6. CASE c = "AUTOCOMPLETE"
  BY <1>6 DEF Written
<1>7. CASE c = "BULK_KEYWORD_DIFFICULTY"
  <2>1. Written(c, i, r, old) = [old EXCEPT !.difficulty = Said(i, r, "difficulty")]
    BY <1>7 DEF Written
  <2> QED
    BY <1>3, <1>4, <2>1 DEF Sound, r
<1>8. CASE c = "SEARCH_INTENT"
  <2>1. Written(c, i, r, old) = [old EXCEPT !.intent = Said(i, r, "intent"),
                                            !.probability = Said(i, r, "probability")]
    BY <1>8 DEF Written
  <2>2. PICK label, confidence \in {Null, i} :
          label = Said(i, r, "intent") /\ confidence = Said(i, r, "probability")
    BY <1>4
  <2>3. label \in Ids /\ confidence \in Ids /\ confidence \in {Null, label}
    BY <1>3, <1>5, <2>2
  <2>4. Sound(k, [old EXCEPT !.intent = label, !.probability = confidence])
    BY <2>3 DEF Sound
  <2> QED
    BY <2>1, <2>2, <2>4 DEF r
<1>9. CASE c \notin {"AUTOCOMPLETE", "BULK_KEYWORD_DIFFICULTY", "SEARCH_INTENT"}
  <2>1. Written(c, i, r, old) = Measured(i, r, old)
    BY <1>9 DEF Written
  <2>2. Measured(i, r, old) \in [volume : Ids, difficulty : Ids, intent : Ids, probability : Ids,
                                 updated_at : Nat, raw_id : DOMAIN raw]
    BY <1>3, <1>4 DEF Sound, Measured
  <2>3. Measured(i, r, old).probability \in {Null, Measured(i, r, old).intent}
    BY <1>5 DEF Sound, Measured, Said
  <2>4. /\ Measured(i, r, old).raw_id = i /\ Measured(i, r, old).updated_at = raw[i].at
        /\ Measured(i, r, old).volume \in {Null, i}
    BY <1>4 DEF Measured
  <2>5. Sound(k, Measured(i, r, old))
    <3> DEFINE row == Measured(i, r, old)
    <3> HIDE DEF row
    <3>1. k \in Keys("keyword", row.raw_id) /\ row.updated_at = raw[row.raw_id].at
          /\ row.volume \in {Null, row.raw_id}
      BY <2>4 DEF row
    <3> QED
      BY <2>2, <2>3, <3>1 DEF Sound, row
  <2> QED
    BY <2>1, <2>5 DEF r
<1> QED
  BY <1>6, <1>7, <1>8, <1>9 DEF r

LEMMA InsertedSound ==
    ASSUME LastIdStored, ClockAndFrames, NEW i \in DOMAIN raw, NEW k \in Keys("keyword", i)
    PROVE  Sound(k, Inserted(i))
<1>1. Null \in Ids /\ raw[i].at \in Nat
  BY DEF LastIdStored, ClockAndFrames, Ids, Null
<1> QED
  BY <1>1 DEF Sound, Inserted

LEMMA ApplyWell ==
    ASSUME LastIdStored, ClockAndFrames, RowsWell, NEW i \in DOMAIN raw, NEW T, WellFormed(T)
    PROVE  WellFormed(Apply(T, i))
<1> DEFINE current(k) == IF k \in DOMAIN T["keyword"] THEN T["keyword"][k] ELSE Inserted(i)
           row(t, x) == IF x \in Keys(t, i)
                        THEN IF t = "keyword"
                             THEN Written(raw[i].capability, i, RecordOf(i, x), current(x))
                             ELSE i
                        ELSE T[t][x]
           new == Apply(T, i)
<1>1. new = [t \in Tables |-> [x \in Keys(t, i) \cup DOMAIN T[t] |-> row(t, x)]]
  BY DEF Apply
<1>2. /\ "keyword" \in Tables
      /\ \A t \in Tables : DOMAIN new[t] = Keys(t, i) \cup DOMAIN T[t]
      /\ \A t \in Tables : \A x \in DOMAIN new[t] : new[t][x] = row(t, x)
  BY <1>1 DEF Tables
<1> HIDE DEF row
<1>3. new = [t \in Tables |-> [x \in DOMAIN new[t] |-> new[t][x]]]
  BY <1>1, <1>2
<1> HIDE DEF new
<1>4. \A t \in Tables : Keys(t, i) # {} => i \in Archive(t)
  BY DEF Keys, Archive
<1>5. \A t \in Tables : \A x \in DOMAIN new[t] : \E j \in Archive(t) : x \in Keys(t, j)
  BY <1>2, <1>4 DEF WellFormed
<1>6. i \in Ids
  BY DEF LastIdStored, Ids
<1>7. \A t \in Tables \ {"keyword"} : \A x \in DOMAIN new[t] : new[t][x] \in Ids
  BY <1>2, <1>6 DEF WellFormed, row
<1>8. ASSUME NEW k \in DOMAIN new["keyword"] PROVE Sound(k, new["keyword"][k])
  <2>1. CASE k \in Keys("keyword", i)
    <3>1. Sound(k, current(k))
      BY <2>1, InsertedSound DEF WellFormed
    <3>2. Sound(k, Written(raw[i].capability, i, RecordOf(i, k), current(k)))
      BY <2>1, <3>1, WrittenSound
    <3>3. new["keyword"][k] = Written(raw[i].capability, i, RecordOf(i, k), current(k))
      BY <1>2, <2>1 DEF row
    <3> QED
      BY <3>2, <3>3
  <2>2. CASE k \notin Keys("keyword", i)
    <3>1. k \in DOMAIN T["keyword"] /\ new["keyword"][k] = T["keyword"][k]
      BY <1>2, <2>2 DEF row
    <3> QED
      BY <3>1 DEF WellFormed
  <2> QED
    BY <2>1, <2>2
<1> QED
  BY <1>3, <1>5, <1>7, <1>8 DEF WellFormed, new

\* A response that says nothing of a table leaves it alone.
LEMMA ApplyElsewhere ==
    ASSUME NEW i, NEW T, WellFormed(T), NEW t \in Tables, Keys(t, i) = {}
    PROVE  Apply(T, i)[t] = T[t]
<1>1. Apply(T, i)[t] = [x \in DOMAIN T[t] |-> T[t][x]]
  BY DEF Apply
<1>2. T[t] = [x \in DOMAIN T[t] |-> T[t][x]]
  BY DEF WellFormed
<1> QED
  BY <1>1, <1>2

-----------------------------------------------------------------------------
(* Tables and archive together                                             *)

Upward(list) == \A m, n \in DOMAIN list : m < n => list[m] < list[n]

\* A table that responses were applied to in the order of storing is what they say.
TablesSay ==
    \A t \in Tables :
        Upward(applied[t]) => tables[t] = Derived(t, ToSet(applied[t]))

\* A process that is to project still knows what it stored, unless nothing is
\* derived from it; a prune is of what nothing is derived from.
ProcWell(p) ==
    /\ proc[p].pc \in {"idle", "stored", "previewed"}
    /\ proc[p].pc = "stored" =>
          /\ proc[p].row \in 1 .. lastId
          /\ \/ proc[p].row \in DOMAIN raw
             \/ proc[p].capability \notin Projected
          /\ proc[p].row \in DOMAIN raw =>
                raw[proc[p].row].capability = proc[p].capability
    /\ proc[p].pc = "previewed" => proc[p].by_capability \subseteq Prunable

Bounded == now <= MaxNow /\ lastId <= MaxId

TablesInv ==
    /\ RowsWell /\ WellFormed(tables) /\ Bounded
    /\ \A t \in Tables : applied[t] \in Seq(Archive(t))
    /\ DOMAIN applied = Tables
    /\ TablesSay
    /\ \A p \in Processes : ProcWell(p)

\* A set of rows has a last and a first, which are of it.
LEMMA EndsExist ==
    ASSUME LastIdStored, NEW X \in SUBSET DOMAIN raw, X # {}
    PROVE  Max(X) \in X /\ Min(X) \in X
<1> DEFINE Below == {lastId - j : j \in X}
<1>1. X \subseteq Nat /\ lastId \in Nat /\ \A j \in X : j <= lastId
  BY DEF LastIdStored
<1>2. Below \subseteq Nat /\ Below # {}
  BY <1>1
<1>3. \E x \in Below : \A y \in Below : ~(<<y, x>> \in OpToRel(<, Nat))
  BY <1>2, NatLessThanWellFounded, WFMin
<1>4. PICK x \in Below : \A y \in Below : ~(y < x)
  BY <1>2, <1>3 DEF OpToRel
<1>5. PICK j \in X : x = lastId - j
  BY <1>4
<1>6. \A y \in X : j >= y
  BY <1>1, <1>4, <1>5
<1>7. \E z \in X : \A y \in X : ~(<<y, z>> \in OpToRel(<, Nat))
  BY <1>1, NatLessThanWellFounded, WFMin
<1>8. PICK z \in X : \A y \in X : ~(y < z)
  BY <1>1, <1>7 DEF OpToRel
<1>9. \A y \in X : z <= y
  BY <1>1, <1>8
<1> QED
  BY <1>6, <1>9 DEF Max, Min

\* What rows say does not change while they stay.
LEMMA DerivedStays ==
    ASSUME LastIdStored, NEW t \in Tables, NEW S \in SUBSET DOMAIN raw,
           \A i \in S : i \in DOMAIN raw' /\ raw'[i] = raw[i]
    PROVE  Derived(t, S)' = Derived(t, S)
<1>1. \A i \in S : \A u \in Tables : Keys(u, i)' = Keys(u, i)
  BY DEF Keys, MonthKeys, RankKeys, Named
<1>2. UNION {Keys(t, i) : i \in S}' = UNION {Keys(t, i) : i \in S}
  BY <1>1
<1>3. \A x : {i \in S : x \in Keys(t, i)}' = {i \in S : x \in Keys(t, i)}
  BY <1>1
<1>4. \A i \in S : \A k : RecordOf(i, k)' = RecordOf(i, k)
  BY DEF RecordOf
<1>5. ASSUME NEW k, k \in UNION {Keys("keyword", i) : i \in S}
      PROVE  KeywordOf(S, k)' = KeywordOf(S, k)
  <2>1. Naming(S, k)' = Naming(S, k) /\ Naming(S, k) \subseteq S
    BY <1>1 DEF Naming, Tables
  <2>2. /\ Measuring(S, k)' = Measuring(S, k) /\ Measuring(S, k) \subseteq S
        /\ \A c : AskedFor(S, k, c)' = AskedFor(S, k, c) /\ AskedFor(S, k, c) \subseteq S
    BY <2>1 DEF Measuring, AskedFor
  <2>3. \A column : /\ Reporting(S, k, column)' = Reporting(S, k, column)
                    /\ Reporting(S, k, column) \subseteq S
    BY <1>4, <2>2 DEF Reporting
  <2>4. /\ Rated(S, k)' = Rated(S, k) /\ Rated(S, k) \subseteq S
        /\ Labelled(S, k)' = Labelled(S, k) /\ Labelled(S, k) \subseteq S
    BY <2>2, <2>3 DEF Rated, Labelled
  <2>5. \A X \in SUBSET S : \A column : LastSaid(X, k, column)' = LastSaid(X, k, column)
    <3> SUFFICES ASSUME NEW X \in SUBSET S, NEW column
                 PROVE  LastSaid(X, k, column)' = LastSaid(X, k, column)
      OBVIOUS
    <3>1. X # {} => Max(X) \in S
      BY EndsExist
    <3> QED
      BY <1>4, <3>1 DEF LastSaid
  <2>6. Owner(S, k)' = Owner(S, k) /\ Owner(S, k) \in S
    <3>1. Naming(S, k) # {}
      BY <1>5 DEF Naming
    <3> QED
      BY <2>1, <2>2, <3>1, EndsExist DEF Owner
  <2> QED
    BY <2>2, <2>4, <2>5, <2>6 DEF KeywordOf
<1> QED
  BY <1>2, <1>3, <1>5 DEF Derived

\* Steps that leave the tables alone, and the rows they are derived from.
LEMMA TablesKept ==
    ASSUME IInv, IInv', TablesInv, UNCHANGED <<tables, applied>>, lastId' >= lastId,
           RowsWell', Bounded', \A p \in Processes : ProcWell(p)',
           \A t \in Tables : \A i \in Archive(t) : i \in DOMAIN raw' /\ raw'[i] = raw[i]
    PROVE  TablesInv'
<1>1. LastIdStored /\ DOMAIN raw \subseteq Nat /\ lastId \in Nat /\ lastId' \in Nat
  BY DEF IInv, LastIdStored
<1>2. \A t \in Tables : Archive(t) \subseteq Archive(t)'
  BY DEF Archive
<1>3. Ids \subseteq Ids'
  BY <1>1 DEF Ids
<1>4. \A t \in Tables : \A i \in Archive(t) : Keys(t, i)' = Keys(t, i)
  BY DEF Keys, MonthKeys, RankKeys, Named
<1>5. ASSUME NEW k, NEW row, Sound(k, row) PROVE Sound(k, row)'
  <2>1. row.raw_id \in Archive("keyword") /\ "keyword" \in Tables
    BY <1>5 DEF Sound, Keys, Archive, Tables
  <2>2. row.raw_id \in DOMAIN raw' /\ raw'[row.raw_id] = raw[row.raw_id]
    BY <2>1
  <2>3. k \in Keys("keyword", row.raw_id)'
    BY <1>4, <1>5, <2>1 DEF Sound
  <2>4. row \in [volume : Ids', difficulty : Ids', intent : Ids', probability : Ids',
                 updated_at : Nat, raw_id : DOMAIN raw']
    BY <1>3, <1>5, <2>2 DEF Sound
  <2> QED
    BY <1>5, <2>2, <2>3, <2>4 DEF Sound
<1>6. WellFormed(tables)'
  <2>1. \A t \in Tables : \A x \in DOMAIN tables[t] : \E i \in Archive(t)' : x \in Keys(t, i)'
    BY <1>2, <1>4 DEF TablesInv, WellFormed
  <2>2. \A k \in DOMAIN tables["keyword"] : Sound(k, tables["keyword"][k])'
    BY <1>5 DEF TablesInv, WellFormed
  <2>3. \A t \in Tables \ {"keyword"} : \A x \in DOMAIN tables[t] : tables[t][x] \in Ids'
    BY <1>3 DEF TablesInv, WellFormed
  <2> QED
    BY <2>1, <2>2, <2>3 DEF TablesInv, WellFormed
<1>7. \A t \in Tables : applied'[t] \in Seq(Archive(t)')
  BY <1>2 DEF TablesInv
<1>8. TablesSay'
  <2> SUFFICES ASSUME NEW t \in Tables, Upward(applied[t])
               PROVE  tables[t] = Derived(t, ToSet(applied[t]))'
    BY DEF TablesSay, Upward
  <2>1. PICK S : S = ToSet(applied[t])
    OBVIOUS
  <2>2. S \subseteq Archive(t) /\ S \subseteq DOMAIN raw
    <3>1. applied[t] \in Seq(Archive(t))
      BY DEF TablesInv
    <3>2. \A n \in DOMAIN applied[t] : applied[t][n] \in Archive(t)
      BY <3>1
    <3>3. S \subseteq Archive(t)
      BY <2>1, <3>2 DEF ToSet
    <3> QED
      BY <3>3 DEF Archive
  <2>3. tables[t] = Derived(t, S)
    BY <2>1 DEF TablesInv, TablesSay
  <2>4. Derived(t, S)' = Derived(t, S)
    BY <1>1, <2>2, DerivedStays
  <2>5. S = ToSet(applied[t])'
    BY <2>1 DEF ToSet
  <2> QED
    BY <2>3, <2>4, <2>5
<1> QED
  BY <1>6, <1>7, <1>8 DEF TablesInv

LEMMA TablesStore ==
    ASSUME IInv, IInv', TablesInv, NEW p \in Processes, NEW a \in Responses, Store(p, a)
    PROVE  TablesInv'
<1>1. /\ NewId = lastId + 1 /\ lastId \in Nat /\ DOMAIN raw \subseteq 1 .. lastId
      /\ NewId \notin DOMAIN raw /\ lastId' = lastId + 1
  <2>1. NewId = lastId + 1 /\ lastId \in Nat /\ DOMAIN raw \subseteq 1 .. lastId
    BY NewIdIsNext DEF IInv, LastIdStored
  <2> QED
    BY <2>1 DEF Store
<1>2. /\ DOMAIN raw' = DOMAIN raw \cup {NewId} /\ \A i \in DOMAIN raw : raw'[i] = raw[i]
      /\ raw'[NewId].capability = a.capability /\ raw'[NewId].records = a.records
  BY <1>1 DEF Store
<1>3. RowsWell'
  BY <1>2, ResponsesAssumption DEF TablesInv, RowsWell
<1>4. Bounded'
  BY DEF TablesInv, Bounded, Store
<1>5. ASSUME NEW q \in Processes PROVE ProcWell(q)'
  <2>1. CASE q = p
    <3>1. proc'[q] = [pc |-> "stored", row |-> NewId, capability |-> a.capability]
      BY <2>1 DEF Store, IInv, ClockAndFrames
    <3> QED
      BY <1>1, <1>2, <3>1 DEF ProcWell
  <2>2. CASE q # p
    <3>1. proc'[q] = proc[q] /\ ProcWell(q)
      BY <2>2 DEF Store, IInv, ClockAndFrames, TablesInv
    <3> QED
      BY <1>1, <1>2, <3>1 DEF ProcWell
  <2> QED
    BY <2>1, <2>2
<1> QED
  BY <1>1, <1>2, <1>3, <1>4, <1>5, TablesKept DEF Archive, Store

LEMMA TablesDelete ==
    ASSUME IInv, IInv', TablesInv, NEW p \in Processes, PruneDelete(p)
    PROVE  TablesInv'
<1> DEFINE gone == UNION {Candidates(c) : c \in proc[p].by_capability}
<1>1. /\ DOMAIN raw' = DOMAIN raw \ gone /\ (\A i \in DOMAIN raw' : raw'[i] = raw[i])
      /\ UNCHANGED <<tables, applied, now, lastId>> /\ proc' = [proc EXCEPT ![p] = Idle]
  BY DEF PruneDelete
<1>2. \A i \in gone : raw[i].capability \notin Projected
  <2>1. proc[p].by_capability \subseteq Prunable
    BY DEF TablesInv, ProcWell, PruneDelete
  <2> QED
    BY <2>1 DEF Candidates, Prunable
<1>3. \A t \in Tables : \A i \in Archive(t) : i \notin gone
  BY <1>2 DEF Archive, Writes
<1> HIDE DEF gone
<1>4. RowsWell' /\ Bounded' /\ lastId' >= lastId
  BY <1>1 DEF TablesInv, RowsWell, Bounded, IInv, LastIdStored
<1>5. ASSUME NEW q \in Processes PROVE ProcWell(q)'
  <2>1. CASE q = p
    <3>1. proc'[q] = Idle
      BY <1>1, <2>1 DEF IInv, ClockAndFrames
    <3> QED
      BY <3>1 DEF ProcWell, Idle
  <2>2. CASE q # p
    <3>1. proc'[q] = proc[q] /\ ProcWell(q)
      BY <1>1, <2>2 DEF IInv, ClockAndFrames, TablesInv
    <3>2. proc[q].pc = "stored" /\ proc[q].row \notin DOMAIN raw' => proc[q].capability \notin Projected
      <4>1. ASSUME proc[q].pc = "stored", proc[q].row \in gone, proc[q].row \in DOMAIN raw
            PROVE  proc[q].capability \notin Projected
        BY <1>2, <3>1, <4>1 DEF ProcWell
      <4> QED
        BY <1>1, <3>1, <4>1 DEF ProcWell
    <3> QED
      BY <1>1, <3>1, <3>2 DEF ProcWell
  <2> QED
    BY <2>1, <2>2
<1>6. \A t \in Tables : \A i \in Archive(t) : i \in DOMAIN raw' /\ raw'[i] = raw[i]
  BY <1>1, <1>3 DEF Archive
<1> QED
  BY <1>1, <1>4, <1>5, <1>6, TablesKept

\* Steps that change the tables and what they stand for together, over the same rows.
LEMMA TablesFollow ==
    ASSUME TablesInv, UNCHANGED <<raw, now, lastId>>, WellFormed(tables'), DOMAIN applied' = Tables,
           \A t \in Tables :
              /\ applied'[t] \in Seq(Archive(t))
              /\ Upward(applied'[t]) => tables'[t] = Derived(t, ToSet(applied'[t])),
           \A p \in Processes : ProcWell(p)'
    PROVE  TablesInv'
<1>1. WellFormed(tables)' <=> WellFormed(tables')
  BY DEF WellFormed, Sound, Archive, Keys, Ids, MonthKeys, RankKeys, Named
<1>2. \A t \in Tables : Archive(t)' = Archive(t)
  BY DEF Archive
<1>3. \A t \in Tables : \A S : Derived(t, S)' = Derived(t, S)
  <2>1. raw' = raw
    OBVIOUS
  <2>2. \A t, i : Keys(t, i)' = Keys(t, i)
    BY <2>1 DEF Keys, MonthKeys, RankKeys, Named
  <2>3. \A i, k : RecordOf(i, k)' = RecordOf(i, k)
    BY <2>1 DEF RecordOf
  <2>4. \A S, k : Naming(S, k)' = Naming(S, k)
    BY <2>2 DEF Naming
  <2>5. \A S, k : /\ Measuring(S, k)' = Measuring(S, k)
                  /\ \A c : AskedFor(S, k, c)' = AskedFor(S, k, c)
    BY <2>1, <2>4 DEF Measuring, AskedFor
  <2>6. \A S, k : \A column : Reporting(S, k, column)' = Reporting(S, k, column)
    BY <2>3, <2>5 DEF Reporting
  <2>7. \A S, k : /\ Rated(S, k)' = Rated(S, k) /\ Labelled(S, k)' = Labelled(S, k)
                  /\ Owner(S, k)' = Owner(S, k)
    BY <2>4, <2>5, <2>6 DEF Rated, Labelled, Owner
  <2>8. \A S, k : \A column : LastSaid(S, k, column)' = LastSaid(S, k, column)
    BY <2>3 DEF LastSaid
  <2>9. \A S, k : KeywordOf(S, k)' = KeywordOf(S, k)
    BY <2>1, <2>5, <2>7, <2>8 DEF KeywordOf
  <2>10. \A t, S : \A x : {i \in S : x \in Keys(t, i)}' = {i \in S : x \in Keys(t, i)}
    BY <2>2
  <2>11. \A t, S : UNION {Keys(t, i) : i \in S}' = UNION {Keys(t, i) : i \in S}
    BY <2>2
  <2> SUFFICES ASSUME NEW t \in Tables, NEW S PROVE Derived(t, S)' = Derived(t, S)
    OBVIOUS
  <2>12. CASE t = "keyword"
    BY <2>9, <2>11, <2>12 DEF Derived
  <2>13. CASE t # "keyword"
    <3> DEFINE keys == UNION {Keys(t, i) : i \in S}
               having(x) == {i \in S : x \in Keys(t, i)}
    <3>1. Derived(t, S) = [x \in keys |-> Max(having(x))]
      BY <2>13 DEF Derived
    <3>2. Derived(t, S)' = [x \in keys' |-> Max(having(x)')]
      BY <2>13 DEF Derived
    <3>3. keys' = keys /\ \A x : having(x)' = having(x)
      BY <2>10, <2>11
    <3> HIDE DEF keys, having
    <3> QED
      BY <3>1, <3>2, <3>3
  <2> QED
    BY <2>12, <2>13
<1>4. TablesSay'
  <2> SUFFICES ASSUME NEW t \in Tables, Upward(applied'[t])
               PROVE  tables'[t] = Derived(t, ToSet(applied[t]))'
    BY DEF TablesSay, Upward
  <2>1. PICK S : S = ToSet(applied'[t])
    OBVIOUS
  <2>2. Derived(t, ToSet(applied[t]))' = Derived(t, S)'
    BY <2>1 DEF ToSet
  <2> QED
    BY <1>3, <2>1, <2>2
<1> QED
  BY <1>1, <1>2, <1>4 DEF TablesInv, RowsWell, Bounded

\* A response is applied behind those that were.
LEMMA TablesProject ==
    ASSUME IInv, IInv', TablesInv, NEW p \in Processes, Project(p)
    PROVE  TablesInv'
<1>1. PICK i : i = proc[p].row
  OBVIOUS
<1> DEFINE hit == {t \in Tables : i \in DOMAIN raw /\ t \in Writes(raw[i].capability)}
<1>2. /\ tables' = IF hit = {} THEN tables ELSE Apply(tables, i)
      /\ applied' = [t \in Tables |-> IF t \in hit THEN Append(applied[t], i) ELSE applied[t]]
      /\ UNCHANGED <<raw, now, lastId>> /\ proc' = [proc EXCEPT ![p] = Idle]
  BY <1>1 DEF Project
<1>3. /\ \A t \in hit : i \in Archive(t) /\ i \in DOMAIN raw
      /\ \A t \in Tables \ hit : i \in DOMAIN raw => Keys(t, i) = {}
  BY DEF Archive, Keys
<1> HIDE DEF hit
<1>4. hit \subseteq Tables
  BY DEF hit
<1>5. WellFormed(tables')
  <2>1. CASE hit = {}
    BY <1>2, <2>1 DEF TablesInv
  <2>2. CASE hit # {}
    BY <1>2, <1>3, <2>2, ApplyWell DEF TablesInv, IInv
  <2> QED
    BY <2>1, <2>2
<1>6. ASSUME NEW t \in Tables
      PROVE  /\ applied'[t] \in Seq(Archive(t))
             /\ Upward(applied'[t]) => tables'[t] = Derived(t, ToSet(applied'[t]))
  <2>0. applied[t] \in Seq(Archive(t)) /\ WellFormed(tables)
    BY DEF TablesInv
  <2>1. CASE t \notin hit
    <3>1. applied'[t] = applied[t]
      BY <1>2, <2>1
    <3>2. tables'[t] = tables[t]
      BY <1>2, <1>3, <1>4, <2>0, <2>1, ApplyElsewhere
    <3> QED
      BY <2>0, <3>1, <3>2 DEF TablesInv, TablesSay
  <2>2. CASE t \in hit
    <3>1. applied'[t] = Append(applied[t], i) /\ tables' = Apply(tables, i) /\ i \in Archive(t)
      BY <1>2, <1>3, <2>2
    <3>2. PICK n \in Nat : n = Len(applied[t]) /\ DOMAIN applied[t] = 1 .. n
      BY <2>0
    <3>3. /\ applied'[t] \in Seq(Archive(t)) /\ DOMAIN applied'[t] = 1 .. n + 1
          /\ applied'[t][n + 1] = i /\ \A m \in 1 .. n : applied'[t][m] = applied[t][m]
      BY <2>0, <3>1, <3>2
    <3>4. \A m \in 1 .. n : applied[t][m] \in Archive(t)
      BY <2>0, <3>2
    <3>5. ToSet(applied'[t]) = ToSet(applied[t]) \cup {i} /\ ToSet(applied[t]) \subseteq Archive(t)
      <4>1. \A m \in 1 .. n + 1 : m = n + 1 \/ m \in 1 .. n
        OBVIOUS
      <4>2. n + 1 \in 1 .. n + 1 /\ 1 .. n \subseteq 1 .. n + 1
        OBVIOUS
      <4> QED
        BY <3>2, <3>3, <3>4, <4>1, <4>2 DEF ToSet
    <3>6. ASSUME Upward(applied'[t]) PROVE tables'[t] = Derived(t, ToSet(applied'[t]))
      <4>1. PICK S : S = ToSet(applied[t])
        OBVIOUS
      <4>2. Upward(applied[t])
        BY <3>2, <3>3, <3>6 DEF Upward
      <4>3. tables[t] = Derived(t, S)
        BY <4>1, <4>2 DEF TablesInv, TablesSay
      <4>4. \A j \in S : j < i
        BY <3>2, <3>3, <3>6, <4>1 DEF Upward, ToSet
      <4>5. S \in SUBSET DOMAIN raw /\ i \in DOMAIN raw /\ DOMAIN raw \subseteq Nat
        BY <3>1, <3>5, <4>1 DEF Archive, IInv, LastIdStored
      <4>6. Apply(tables, i)[t] = Derived(t, S \cup {i})
        BY <4>3, <4>4, <4>5, DerivedGrows
      <4> QED
        BY <3>1, <3>5, <4>1, <4>6
    <3> QED
      BY <3>3, <3>6
  <2> QED
    BY <2>1, <2>2
<1>7. ASSUME NEW q \in Processes PROVE ProcWell(q)'
  <2>1. CASE q = p
    <3>1. proc'[q] = Idle
      BY <1>2, <2>1 DEF IInv, ClockAndFrames
    <3> QED
      BY <3>1 DEF ProcWell, Idle
  <2>2. CASE q # p
    <3>1. proc'[q] = proc[q] /\ ProcWell(q)
      BY <1>2, <2>2 DEF IInv, ClockAndFrames, TablesInv
    <3> QED
      BY <1>2, <3>1 DEF ProcWell
  <2> QED
    BY <2>1, <2>2
<1> QED
  BY <1>2, <1>5, <1>6, <1>7, TablesFollow

\* A response that shares a table with one that is replayed is replayed as well.
LEMMA ClosureCloses ==
    ASSUME NEW chosen \in Selections
    PROVE  /\ chosen \subseteq Projected
           /\ \A c \in Projected : \A d \in chosen : Writes(c) \cap Writes(d) # {} => c \in chosen
<1> DEFINE closed(S) == \A c \in Projected \ S : \A d \in S : Writes(c) \cap Writes(d) = {}
<1>1. CASE chosen = Projected
  BY <1>1
<1>2. ASSUME NEW target \in Projected, chosen = Closure[target]
      PROVE  /\ chosen \subseteq Projected
             /\ \A c \in Projected : \A d \in chosen : Writes(c) \cap Writes(d) # {} => c \in chosen
  <2>1. chosen = {c \in Projected : \A S \in SUBSET Projected : target \in S /\ closed(S) => c \in S}
    BY <1>2 DEF Closure
  <2>2. ASSUME NEW c \in Projected, NEW d \in chosen, Writes(c) \cap Writes(d) # {},
               NEW S \in SUBSET Projected, target \in S, closed(S)
        PROVE  c \in S
    <3>1. d \in S
      BY <2>1, <2>2
    <3> QED
      BY <2>2, <3>1
  <2> HIDE DEF closed
  <2> QED
    BY <2>1, <2>2
<1> QED
  BY <1>1, <1>2 DEF Selections

\* Times and ids agree, so the order of the replay is the order of storing.
LEMMA ReplayUpward ==
    ASSUME LastIdStored, ClockAndFrames, NEW S \in SUBSET DOMAIN raw
    PROVE  ReplayOrder(S) = InOrder(S)
<1> DEFINE earlier == {pair \in S \X S : \/ raw[pair[1]].at < raw[pair[2]].at
                                         \/ raw[pair[1]].at = raw[pair[2]].at /\ pair[1] < pair[2]}
           lower == {pair \in S \X S : pair[1] < pair[2]}
<1>1. ASSUME NEW i \in S, NEW j \in S
      PROVE  (raw[i].at < raw[j].at \/ (raw[i].at = raw[j].at /\ i < j)) <=> i < j
  <2>1. i \in Nat /\ j \in Nat /\ raw[i].at \in Nat /\ raw[j].at \in Nat
    BY DEF LastIdStored, ClockAndFrames
  <2>2. /\ i < j => raw[i].at <= raw[j].at
        /\ j < i => raw[j].at <= raw[i].at
    BY DEF ClockAndFrames
  <2> QED
    BY <2>1, <2>2
<1>2. earlier = lower
  <2>1. \A pair \in S \X S : pair[1] \in S /\ pair[2] \in S
    OBVIOUS
  <2> QED
    BY <1>1, <2>1
<1>3. ReplayOrder(S) = Arranged(S, earlier)
  BY DEF ReplayOrder
<1>4. InOrder(S) = Arranged(S, lower)
  <2>1. DOMAIN raw \subseteq 1 .. lastId /\ lastId \in Nat
    BY DEF LastIdStored
  <2>2. IsFiniteSet(1 .. lastId)
    BY <2>1, FS_Interval
  <2>3. S \in SUBSET (1 .. lastId) /\ S \in SUBSET Nat
    BY <2>1
  <2>4. IsFiniteSet(S)
    BY <2>2, <2>3, FS_Subset
  <2> HIDE DEF lower
  <2> QED
    BY <2>3, <2>4, InOrderArranges DEF lower
<1> HIDE DEF earlier, lower
<1> QED
  BY <1>2, <1>3, <1>4

\* A rebuilt table is what its responses say, and the others are as they were.
LEMMA Rebuilt ==
    ASSUME IInv, TablesInv, NEW p \in Processes, NEW chosen \in Selections, Rebuild(p, chosen)
    PROVE  /\ WellFormed(tables')
           /\ \A t \in Tables :
                \/ tables'[t] = tables[t] /\ applied'[t] = applied[t]
                \/ /\ applied'[t] = InOrder(Archive(t)) /\ applied'[t] \in Seq(Archive(t))
                   /\ ToSet(applied'[t]) = Archive(t) /\ tables'[t] = Derived(t, Archive(t))
<1> DEFINE cleared == UNION {Writes(c) : c \in chosen}
           R == {i \in DOMAIN raw : raw[i].capability \in chosen}
           list == ReplayOrder(R)
           emptied == [t \in Tables |-> IF t \in cleared THEN <<>> ELSE tables[t]]
<1>1. /\ tables' = Replay(emptied, list)
      /\ applied' = [t \in Tables |-> IF t \in cleared THEN InOrder(Archive(t)) ELSE applied[t]]
      /\ UNCHANGED <<raw, proc, now, lastId>>
  BY DEF Rebuild, Replay
<1>2. /\ LastIdStored /\ ClockAndFrames /\ RowsWell /\ WellFormed(tables)
      /\ DOMAIN raw \subseteq Nat /\ IsFiniteSet(DOMAIN raw)
  <2>1. LastIdStored /\ ClockAndFrames /\ RowsWell /\ WellFormed(tables)
    BY DEF IInv, TablesInv
  <2>2. DOMAIN raw \subseteq 1 .. lastId /\ lastId \in Nat
    BY <2>1 DEF LastIdStored
  <2>3. IsFiniteSet(1 .. lastId)
    BY <2>2, FS_Interval
  <2> QED
    BY <2>1, <2>2, <2>3, FS_Subset
<1>3. PICK N \in Nat : /\ list \in [1 .. N -> R] /\ DOMAIN list = 1 .. N
                       /\ \A m, n \in 1 .. N : m < n => list[m] < list[n]
                       /\ \A i \in R : \E n \in 1 .. N : list[n] = i
  <2>1. R \in SUBSET DOMAIN raw /\ R \in SUBSET Nat
    BY <1>2
  <2>2. IsFiniteSet(R)
    BY <1>2, <2>1, FS_Subset
  <2>3. list = InOrder(R)
    BY <1>2, <2>1, ReplayUpward
  <2> HIDE DEF R, list
  <2> QED
    BY <2>1, <2>2, <2>3, InOrderIs
<1>4. /\ \A t \in cleared \cap Tables : \A i \in R : i \in DOMAIN raw
      /\ \A t \in cleared \cap Tables : Archive(t) \subseteq R
      /\ \A t \in Tables \ cleared : \A i \in R : Keys(t, i) = {}
  <2>1. \A t \in cleared \cap Tables : Archive(t) \subseteq R
    <3> SUFFICES ASSUME NEW t \in Tables, NEW d \in chosen, t \in Writes(d), NEW i \in Archive(t)
                 PROVE  i \in R
      OBVIOUS
    <3>1. i \in DOMAIN raw /\ t \in Writes(raw[i].capability)
      BY DEF Archive
    <3>2. raw[i].capability \in Projected
      BY <3>1 DEF Writes
    <3> QED
      BY <3>1, <3>2, ClosureCloses
  <2>2. \A t \in Tables \ cleared : \A i \in R : Keys(t, i) = {}
    BY DEF Keys
  <2> QED
    BY <2>1, <2>2
<1> HIDE DEF cleared, R, list, emptied
<1>5. PICK after : /\ after[0] = emptied /\ after[N] = tables'
                   /\ \A n \in 1 .. N : after[n] = Apply(after[n - 1], list[n])
  BY <1>1, <1>3, ReplaySteps
<1> DEFINE there(n) == {list[m] : m \in 1 .. n}
           Good(n) == /\ WellFormed(after[n])
                      /\ \A t \in Tables : after[n][t] = IF t \in cleared THEN Derived(t, there(n))
                                                         ELSE tables[t]
           G == {n \in Nat : n <= N => Good(n)}
<1>6. R \subseteq DOMAIN raw
  BY DEF R
<1>7. 0 \in G
  <2> USE DEF emptied
  <2>1. there(0) = {}
    OBVIOUS
  <2>2. \A t \in Tables : Derived(t, {}) = <<>>
    BY DEF Derived
  <2>3. emptied = [t \in Tables |-> [x \in DOMAIN emptied[t] |-> emptied[t][x]]]
    <3>1. \A t \in Tables : emptied[t] = [x \in DOMAIN emptied[t] |-> emptied[t][x]]
      <4> TAKE t \in Tables
      <4>1. CASE t \in cleared
        BY <4>1
      <4>2. CASE t \notin cleared
        <5>1. emptied[t] = tables[t]
          BY <4>2
        <5>2. tables[t] = [x \in DOMAIN tables[t] |-> tables[t][x]]
          BY <1>2 DEF WellFormed
        <5> HIDE DEF emptied
        <5> QED
          BY <5>1, <5>2
      <4> QED
        BY <4>1, <4>2
    <3> QED
      BY <3>1
  <2>4. \A t \in Tables : \A x \in DOMAIN emptied[t] : x \in DOMAIN tables[t] /\ emptied[t][x] = tables[t][x]
    OBVIOUS
  <2>5. "keyword" \in Tables
    BY DEF Tables
  <2>6. /\ \A t \in cleared \cap Tables : emptied[t] = <<>>
        /\ \A t \in Tables \ cleared : emptied[t] = tables[t]
    OBVIOUS
  <2> HIDE DEF emptied
  <2>7. WellFormed(emptied)
    BY <1>2, <2>3, <2>4, <2>5 DEF WellFormed
  <2>8. Good(0)
    BY <1>5, <2>1, <2>2, <2>6, <2>7
  <2> QED
    BY <2>8
<1>8. ASSUME NEW n \in Nat, n \in G PROVE n + 1 \in G
  <2> SUFFICES ASSUME n + 1 <= N PROVE Good(n + 1)
    OBVIOUS
  <2> DEFINE i == list[n + 1]
  <2>1. Good(n) /\ n + 1 \in 1 .. N
    <3> HIDE DEF Good
    <3> QED
      BY <1>8
  <2>2. after[n + 1] = Apply(after[n], i) /\ i \in R /\ i \in DOMAIN raw
    <3>1. (n + 1) - 1 = n
      OBVIOUS
    <3> QED
      BY <1>3, <1>5, <1>6, <2>1, <3>1
  <2>3. WellFormed(after[n + 1])
    BY <1>2, <2>1, <2>2, ApplyWell
  <2>4. /\ there(n + 1) = there(n) \cup {i} /\ there(n) \subseteq DOMAIN raw
        /\ \A j \in there(n) : j < i
    <3>1. \A m \in 1 .. n + 1 : m \in 1 .. n \/ m = n + 1
      OBVIOUS
    <3>2. \A m \in 1 .. n : m \in 1 .. N /\ m < n + 1 /\ m \in 1 .. n + 1
      BY <2>1
    <3>3. n + 1 \in 1 .. n + 1
      OBVIOUS
    <3> QED
      BY <1>3, <1>6, <2>1, <3>1, <3>2, <3>3
  <2> HIDE DEF there, i
  <2>5. ASSUME NEW t \in Tables, t \in cleared PROVE after[n + 1][t] = Derived(t, there(n + 1))
    <3>1. after[n][t] = Derived(t, there(n))
      BY <2>1, <2>5
    <3>2. there(n) \in SUBSET DOMAIN raw
      BY <2>4
    <3>3. PICK S : S = there(n)
      OBVIOUS
    <3>4. PICK T : T = after[n]
      OBVIOUS
    <3>5. /\ T[t] = Derived(t, S) /\ S \in SUBSET DOMAIN raw /\ \A j \in S : j < i
          /\ i \in DOMAIN raw /\ DOMAIN raw \subseteq Nat
      BY <1>2, <2>2, <2>4, <3>1, <3>2, <3>3, <3>4
    <3>6. Apply(T, i)[t] = Derived(t, S \cup {i})
      BY <3>5, DerivedGrows
    <3> QED
      BY <2>2, <2>4, <3>3, <3>4, <3>6
  <2>6. ASSUME NEW t \in Tables, t \notin cleared PROVE after[n + 1][t] = tables[t]
    <3>1. Keys(t, i) = {} /\ WellFormed(after[n]) /\ after[n][t] = tables[t]
      BY <1>4, <2>1, <2>2, <2>6
    <3> QED
      BY <2>2, <3>1, ApplyElsewhere
  <2> QED
    BY <2>3, <2>5, <2>6
<1>9. Good(N)
  <2>1. N \in G
    <3> HIDE DEF G
    <3> QED
      BY <1>7, <1>8, NatSetInduction
  <2> QED
    BY <2>1
<1>10. there(N) = R
  BY <1>3
<1> HIDE DEF there
<1>11. ASSUME NEW t \in Tables
       PROVE  \/ tables'[t] = tables[t] /\ applied'[t] = applied[t]
              \/ /\ applied'[t] = InOrder(Archive(t)) /\ applied'[t] \in Seq(Archive(t))
                 /\ ToSet(applied'[t]) = Archive(t) /\ tables'[t] = Derived(t, Archive(t))
  <2>1. CASE t \notin cleared
    BY <1>1, <1>5, <1>9, <2>1
  <2>2. CASE t \in cleared
    <3> DEFINE A == Archive(t)
    <3>1. applied'[t] = InOrder(A) /\ tables'[t] = Derived(t, R)
      BY <1>1, <1>5, <1>9, <1>10, <2>2
    <3>2. A \in SUBSET Nat /\ A \subseteq R /\ A \subseteq DOMAIN raw
      BY <1>2, <1>4, <2>2 DEF Archive
    <3>3. IsFiniteSet(A)
      BY <1>2, <3>2, FS_Subset
    <3>4. \A i \in R \ A : Keys(t, i) = {}
      BY <1>6 DEF Keys, Archive
    <3> HIDE DEF A
    <3>5. /\ InOrder(A) \in [1 .. Cardinality(A) -> A] /\ Cardinality(A) \in Nat
          /\ \A x \in A : \E n \in 1 .. Cardinality(A) : InOrder(A)[n] = x
      BY <3>2, <3>3, InOrderIs
    <3>6. InOrder(A) \in Seq(A)
      BY <3>5
    <3>7. ToSet(InOrder(A)) = A
      BY <3>5 DEF ToSet
    <3>8. Derived(t, R) = Derived(t, A)
      BY <3>2, <3>4, DerivedWithin
    <3> QED
      BY <3>1, <3>6, <3>7, <3>8 DEF A
  <2> QED
    BY <2>1, <2>2
<1> QED
  BY <1>5, <1>9, <1>11

LEMMA TablesRebuild ==
    ASSUME IInv, TablesInv, NEW p \in Processes, NEW chosen \in Selections, Rebuild(p, chosen)
    PROVE  TablesInv'
<1>1. UNCHANGED <<raw, proc, now, lastId>> /\ DOMAIN applied' = Tables
  BY DEF Rebuild
<1>2. \A t \in Tables :
        /\ applied'[t] \in Seq(Archive(t))
        /\ Upward(applied'[t]) => tables'[t] = Derived(t, ToSet(applied'[t]))
  BY Rebuilt DEF TablesInv, TablesSay
<1>3. \A q \in Processes : ProcWell(q)'
  BY <1>1 DEF TablesInv, ProcWell
<1>4. WellFormed(tables')
  BY Rebuilt
<1> QED
  BY <1>1, <1>2, <1>3, <1>4, TablesFollow

\* A rebuild loses no key: each is of a response that is still stored.
LEMMA RebuildKeeps ==
    ASSUME IInv, TablesInv, NEW p \in Processes, NEW chosen \in Selections, Rebuild(p, chosen),
           NEW t \in Tables
    PROVE  DOMAIN tables[t] \subseteq DOMAIN tables'[t]
<1>1. CASE tables'[t] = tables[t]
  BY <1>1
<1>2. CASE tables'[t] = Derived(t, Archive(t))
  <2>1. DOMAIN tables'[t] = UNION {Keys(t, i) : i \in Archive(t)}
    BY <1>2 DEF Derived
  <2>2. \A x \in DOMAIN tables[t] : \E i \in Archive(t) : x \in Keys(t, i)
    BY DEF TablesInv, WellFormed
  <2> QED
    BY <2>1, <2>2
<1> QED
  BY <1>1, <1>2, Rebuilt

LEMMA TablesInit == Init => TablesInv
<1> SUFFICES ASSUME Init PROVE TablesInv
  OBVIOUS
<1>1. DOMAIN raw = {} /\ lastId = 0 /\ now = 0
  BY DEF Init
<1>2. /\ tables = [t \in Tables |-> <<>>] /\ applied = [t \in Tables |-> <<>>]
      /\ "keyword" \in Tables
  BY DEF Init, Tables
<1>3. WellFormed(tables)
  <2>1. <<>> = [x \in DOMAIN <<>> |-> <<>>[x]] /\ DOMAIN <<>> = {}
    OBVIOUS
  <2>2. \A t \in Tables : tables[t] = <<>>
    BY <1>2
  <2>3. tables = [t \in Tables |-> tables[t]]
    BY <1>2
  <2>4. tables = [t \in Tables |-> [x \in DOMAIN tables[t] |-> tables[t][x]]]
    BY <2>1, <2>2, <2>3
  <2> QED
    BY <1>2, <2>1, <2>2, <2>4 DEF WellFormed
<1>4. TablesSay
  <2>1. \A t \in Tables : applied[t] = <<>> /\ tables[t] = <<>>
    BY <1>2
  <2>2. ToSet(<<>>) = {}
    BY DEF ToSet
  <2>3. \A t \in Tables : Derived(t, {}) = <<>>
    BY DEF Derived
  <2> QED
    BY <2>1, <2>2, <2>3 DEF TablesSay
<1>5. RowsWell /\ Bounded
  BY <1>1, BoundsAssumption DEF RowsWell, Bounded
<1>6. \A p \in Processes : ProcWell(p)
  BY DEF Init, Idle, ProcWell
<1> QED
  BY <1>2, <1>3, <1>4, <1>5, <1>6 DEF TablesInv

\* One step per action.
LEMMA TablesStep == IInv /\ TablesInv /\ [Next]_vars => TablesInv'
<1> SUFFICES ASSUME IInv, TablesInv, [Next]_vars PROVE TablesInv'
  OBVIOUS
<1>0. IInv'
  BY StepPreserves
<1>1. ASSUME NEW p \in Processes, NEW a \in Responses, Store(p, a) PROVE TablesInv'
  BY <1>0, <1>1, TablesStore
<1>2. ASSUME NEW p \in Processes, Project(p) PROVE TablesInv'
  BY <1>0, <1>2, TablesProject
<1>3. ASSUME NEW p \in Processes, GiveUp(p) \/ PrunePreview(p) PROVE TablesInv'
  <2>1. UNCHANGED <<raw, tables, applied, now, lastId>>
    BY <1>3 DEF GiveUp, PrunePreview
  <2>2. ASSUME NEW q \in Processes PROVE ProcWell(q)'
    <3>1. \/ proc'[q] = proc[q]
          \/ proc'[q] = Idle
          \/ proc'[q].pc = "previewed" /\ proc'[q].by_capability \subseteq Prunable
      BY <1>3 DEF GiveUp, PrunePreview, IInv, ClockAndFrames
    <3>2. ProcWell(q)
      BY DEF TablesInv
    <3> QED
      BY <2>1, <3>1, <3>2 DEF ProcWell, Idle
  <2>3. lastId' >= lastId
    BY <2>1 DEF IInv, LastIdStored
  <2> QED
    BY <1>0, <2>1, <2>2, <2>3, TablesKept DEF TablesInv, RowsWell, Bounded, Archive
<1>4. ASSUME NEW p \in Processes, NEW chosen \in Selections, Rebuild(p, chosen) PROVE TablesInv'
  BY <1>4, TablesRebuild
<1>5. ASSUME NEW p \in Processes, PruneDelete(p) PROVE TablesInv'
  BY <1>0, <1>5, TablesDelete
<1>6. CASE Tick \/ UNCHANGED vars
  <2>1. UNCHANGED <<raw, tables, applied, proc, lastId>> /\ now' <= MaxNow
    <3>1. now \in Nat /\ MaxNow \in Nat /\ now <= MaxNow
      BY BoundsAssumption DEF IInv, ClockAndFrames, TablesInv, Bounded
    <3> QED
      BY <1>6, <3>1 DEF Tick, vars
  <2>2. lastId' >= lastId
    BY <2>1 DEF IInv, LastIdStored
  <2> QED
    BY <1>0, <2>1, <2>2, TablesKept DEF TablesInv, RowsWell, Bounded, Archive, ProcWell
<1> QED
  BY <1>1, <1>2, <1>3, <1>4, <1>5, <1>6 DEF Next

\* Each table is what its responses made of it, whoever stored, pruned or rebuilt.
THEOREM TablesInvariance == Spec => [](IInv /\ TablesInv)
<1>1. Init => IInv /\ TablesInv
  BY InitEstablishes, TablesInit
<1>2. IInv /\ TablesInv /\ [Next]_vars => IInv' /\ TablesInv'
  BY StepPreserves, TablesStep
<1> QED
  BY <1>1, <1>2, PTL DEF Spec

\* References are to rows that were stored, and a response that waits for its
\* projector is not pruned.
THEOREM TypeCorrect == Spec => []TypeOK
<1>1. IInv /\ TablesInv => TypeOK
  <2> SUFFICES ASSUME IInv, TablesInv PROVE TypeOK
    OBVIOUS
  <2>1. now \in 0 .. MaxNow /\ lastId \in 0 .. MaxId /\ DOMAIN raw \subseteq 1 .. lastId
    BY BoundsAssumption DEF IInv, LastIdStored, ClockAndFrames, TablesInv, Bounded
  <2>2. \A i \in DOMAIN raw : raw[i].capability \in REGISTRY /\ raw[i].at \in 0 .. now
    BY DEF IInv, ClockAndFrames, TablesInv, RowsWell
  <2>3. DOMAIN tables = Tables
    BY DEF TablesInv, WellFormed
  <2>4. \A t \in Tables \ {"keyword"} : \A x \in DOMAIN tables[t] : tables[t][x] \in Ids
    BY DEF TablesInv, WellFormed
  <2>5. \A k \in DOMAIN tables["keyword"] : \A c \in Figures : tables["keyword"][k][c] \in Ids
    <3> SUFFICES ASSUME NEW k \in DOMAIN tables["keyword"]
                 PROVE  \A c \in Figures : tables["keyword"][k][c] \in Ids
      OBVIOUS
    <3>1. Sound(k, tables["keyword"][k])
      BY DEF TablesInv, WellFormed
    <3> QED
      BY <3>1 DEF Sound, Figures
  <2>6. \A p \in Processes : /\ proc[p].pc \in {"idle", "stored", "previewed"}
                             /\ proc[p].pc = "stored" =>
                                  \/ proc[p].row \in DOMAIN raw
                                  \/ proc[p].row \in 1 .. lastId /\ proc[p].capability \notin Projected
    BY DEF TablesInv, ProcWell
  <2>7. \A t \in Tables : \A n \in DOMAIN applied[t] : applied[t][n] \in DOMAIN raw
    <3> SUFFICES ASSUME NEW t \in Tables, NEW n \in DOMAIN applied[t]
                 PROVE  applied[t][n] \in DOMAIN raw
      OBVIOUS
    <3>1. applied[t] \in Seq(Archive(t))
      BY DEF TablesInv
    <3>2. applied[t][n] \in Archive(t)
      BY <3>1
    <3> QED
      BY <3>2 DEF Archive
  <2> QED
    BY <2>1, <2>2, <2>3, <2>4, <2>5, <2>6, <2>7 DEF TypeOK
<1> QED
  BY <1>1, TablesInvariance, PTL

\* "A pure derivation": whichever of the projectors ran, and whatever was pruned or
\* rebuilt between, a table whose responses were applied in the order of storing is,
\* column by column, what the archive says of it.
THEOREM TablesAreDerived == Spec => []TablesFollowArchive
<1>1. IInv /\ TablesInv => TablesFollowArchive
  <2> SUFFICES ASSUME IInv, TablesInv, NEW t \in Tables, applied[t] = InOrder(Archive(t))
               PROVE  tables[t] = Derived(t, Archive(t))
    BY DEF TablesFollowArchive
  <2>1. PICK S : S = Archive(t)
    OBVIOUS
  <2>2. S \in SUBSET Nat /\ IsFiniteSet(S)
    <3>1. S \subseteq 1 .. lastId /\ lastId \in Nat
      BY <2>1 DEF Archive, IInv, LastIdStored
    <3>2. IsFiniteSet(1 .. lastId)
      BY <3>1, FS_Interval
    <3>3. IsFiniteSet(S)
      BY <3>1, <3>2, FS_Subset
    <3> QED
      BY <3>1, <3>3
  <2>3. /\ InOrder(S) \in [1 .. Cardinality(S) -> S] /\ Cardinality(S) \in Nat
        /\ \A m, n \in 1 .. Cardinality(S) : m < n => InOrder(S)[m] < InOrder(S)[n]
        /\ \A x \in S : \E n \in 1 .. Cardinality(S) : InOrder(S)[n] = x
    BY <2>2, InOrderIs
  <2>4. Upward(applied[t]) /\ ToSet(applied[t]) = S
    BY <2>1, <2>3 DEF Upward, ToSet
  <2> QED
    BY <2>1, <2>4 DEF TablesInv, TablesSay
<1> QED
  BY <1>1, TablesInvariance, PTL

\* The raw_id of a keyword is a stored response that names it, and its volume came
\* from no other, whoever bought, pruned or rebuilt.
THEOREM ProvenanceKept == Spec => []Provenance
<1>1. TablesInv => Provenance
  <2> SUFFICES ASSUME TablesInv, NEW k \in DOMAIN tables["keyword"]
               PROVE  Sound(k, tables["keyword"][k])
    BY DEF Provenance, Sound
  <2> QED
    BY DEF TablesInv, WellFormed
<1> QED
  BY <1>1, TablesInvariance, PTL

\* A confidence stands beside the label it was measured for.
THEOREM ConfidencesPaired == Spec => []IntentPaired
<1>1. TablesInv => IntentPaired
  <2> SUFFICES ASSUME TablesInv, NEW k \in DOMAIN tables["keyword"]
               PROVE  Sound(k, tables["keyword"][k])
    BY DEF IntentPaired, Sound
  <2> QED
    BY DEF TablesInv, WellFormed
<1> QED
  BY <1>1, TablesInvariance, PTL

\* "A rebuild should never shrink a table": every key was given by a response that is
\* never pruned, and a rebuild replays every response of the tables it clears.
THEOREM KeysNeverLost == Spec => NothingLost
<1>1. ASSUME IInv, TablesInv, TablesInv', [Next]_vars, NEW t \in Tables
      PROVE  DOMAIN tables[t] \subseteq DOMAIN tables'[t]
  <2>1. CASE UNCHANGED tables
    BY <2>1
  <2>2. ASSUME NEW p \in Processes, Project(p) PROVE DOMAIN tables[t] \subseteq DOMAIN tables'[t]
    <3>1. tables' = tables \/ tables' = Apply(tables, proc[p].row)
      BY <2>2 DEF Project
    <3> QED
      BY <3>1 DEF Apply
  <2>3. ASSUME NEW p \in Processes, NEW chosen \in Selections, Rebuild(p, chosen)
        PROVE  DOMAIN tables[t] \subseteq DOMAIN tables'[t]
    BY <1>1, <2>3, RebuildKeeps
  <2> QED
    BY <1>1, <2>1, <2>2, <2>3 DEF Next, Store, GiveUp, PrunePreview, PruneDelete, Tick, vars
<1>2. IInv /\ TablesInv /\ TablesInv' /\ [Next]_vars =>
        [\A t \in Tables : DOMAIN tables[t] \subseteq DOMAIN tables'[t]]_vars
  BY <1>1
<1> QED
  BY <1>2, TablesInvariance, PTL DEF Spec, NothingLost
=============================================================================
