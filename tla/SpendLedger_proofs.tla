------------------------- MODULE SpendLedger_proofs -------------------------
(***************************************************************************)
(* The overshoot of the ceiling is bounded for every number of spenders.   *)
(*                                                                         *)
(* `Overshoot` alone is not inductive: a state with two approvals in       *)
(* flight and `spent` at the bound would break it in one step.  What is    *)
(* kept is that some approval in flight (the last one made) still fits at  *)
(* its worst charge, with room for a whole charge from each spender that   *)
(* is not in flight.                                                       *)
(***************************************************************************)
EXTENDS SpendLedger, TLAPS, FiniteSetTheorems

N == Cardinality(Spenders)

\* What may be spent while n approvals are in flight.
Room(n) == Ceiling + Overrun + (N - n) * MaxCharge

\* The most an approved call can still be charged.
Worst(s) == IF approved[s] + Overrun <= MaxCharge THEN approved[s] + Overrun ELSE MaxCharge

LastOneFits ==
  \E s \in Pending : spent + Worst(s) <= Room(Cardinality(Pending))

IInv ==
  /\ LedgerTypeOK
  /\ \A s \in Spenders : approved[s] <= Ceiling
  /\ Pending = {} => Overshoot
  /\ Pending # {} => LastOneFits

\* Room is a natural number that shrinks by one charge per approval in flight.
LEMMA RoomShrinks ==
  ASSUME NEW n \in Nat
  PROVE  /\ Room(n) \in Int
         /\ Room(n) = Room(n + 1) + MaxCharge
<1>1. N \in Nat
  BY SpendLedgerAssumption, FS_CardinalityType DEF N
<1>2. (N - n) * MaxCharge = (N - (n + 1)) * MaxCharge + MaxCharge
  BY <1>1, SpendLedgerAssumption
<1>3. (N - n) * MaxCharge \in Int /\ (N - (n + 1)) * MaxCharge \in Int
  BY <1>1, SpendLedgerAssumption
<1> QED
  BY <1>2, <1>3, SpendLedgerAssumption DEF Room

\* Fewer approvals in flight leave at least as much room.
LEMMA RoomMonotone ==
  ASSUME NEW m \in Nat, NEW n \in Nat, m <= n
  PROVE  /\ Room(n) <= Room(m)
         /\ m < n => Room(n) + MaxCharge <= Room(m)
<1>1. N \in Nat
  BY SpendLedgerAssumption, FS_CardinalityType DEF N
<1>2. PICK d \in Nat : n = m + d
  <2>1. n - m \in Nat /\ n = m + (n - m)
    OBVIOUS
  <2> QED
    BY <2>1
<1>3. (N - m) * MaxCharge = (N - n) * MaxCharge + d * MaxCharge
  BY <1>1, <1>2, SpendLedgerAssumption
<1>4. d * MaxCharge \in Nat /\ (N - m) * MaxCharge \in Int /\ (N - n) * MaxCharge \in Int
  BY <1>1, SpendLedgerAssumption
<1>5. m < n => d * MaxCharge >= MaxCharge
  <2>1. CASE d = 0
    BY <1>2, <2>1
  <2>2. CASE d # 0
    <3>1. PICK k \in Nat : d = k + 1
      <4>1. d - 1 \in Nat /\ d = (d - 1) + 1
        BY <2>2
      <4> QED
        BY <4>1
    <3>2. d * MaxCharge = k * MaxCharge + MaxCharge /\ k * MaxCharge \in Nat
      BY <3>1, SpendLedgerAssumption
    <3> QED
      BY <3>2, SpendLedgerAssumption
  <2> QED
    BY <2>1, <2>2
<1> QED
  BY <1>3, <1>4, <1>5, SpendLedgerAssumption DEF Room

\* Pending is a finite set of at most N spenders.
LEMMA PendingSize ==
  /\ IsFiniteSet(Pending)
  /\ Cardinality(Pending) \in Nat
  /\ Cardinality(Pending) <= N
  /\ N \in Nat
<1>1. Pending \subseteq Spenders
  BY DEF Pending
<1> QED
  BY <1>1, SpendLedgerAssumption, FS_Subset, FS_CardinalityType DEF N

\* A nonempty Pending has at least one element.
LEMMA PendingNonempty ==
  ASSUME Pending # {}
  PROVE  Cardinality(Pending) >= 1
BY PendingSize, FS_EmptySet

\* The room with one approval in flight is the overshoot bound, and with all
\* spenders in flight the ceiling still fits.
LEMMA RoomIsOvershoot ==
  /\ Room(1) = Ceiling + Slack
  /\ Ceiling + Overrun <= Room(N)
  /\ Room(1) \in Int /\ Slack \in Int
<1>1. N \in Nat /\ N # 0
  BY SpendLedgerAssumption, FS_CardinalityType, FS_EmptySet DEF N
<1>2. (N - 1) * MaxCharge \in Nat
  <2>1. N - 1 \in Nat
    BY <1>1
  <2> QED
    BY <2>1, SpendLedgerAssumption
<1>3. (N - N) * MaxCharge = 0
  BY <1>1, SpendLedgerAssumption
<1> QED
  BY <1>2, <1>3, SpendLedgerAssumption DEF Room, Slack, N

\* The bound on the overshoot is a natural number.
LEMMA SlackIsNat == Slack \in Nat
<1>1. N - 1 \in Nat
  BY SpendLedgerAssumption, FS_CardinalityType, FS_EmptySet DEF N
<1>2. (N - 1) * MaxCharge \in Nat
  BY <1>1, SpendLedgerAssumption
<1> QED
  BY <1>2, SpendLedgerAssumption DEF Slack, N

\* The invariant holds before anything is approved.
THEOREM InitInv == LedgerInit => IInv
<1> SUFFICES ASSUME LedgerInit PROVE IInv
  OBVIOUS
<1>1. LedgerTypeOK /\ \A s \in Spenders : approved[s] <= Ceiling
  BY SpendLedgerAssumption DEF LedgerInit, LedgerTypeOK
<1>2. Pending = {}
  BY DEF LedgerInit, Pending
<1>3. Overshoot
  BY SlackIsNat, SpendLedgerAssumption DEF Overshoot, LedgerInit
<1> QED
  BY <1>1, <1>2, <1>3 DEF IInv

-----------------------------------------------------------------------------

\* Whatever is in flight, the spend is within the overshoot bound.
LEMMA InvBoundsSpend == IInv => Overshoot
<1> SUFFICES ASSUME IInv PROVE Overshoot
  OBVIOUS
<1>1. CASE Pending = {}
  BY <1>1 DEF IInv
<1>2. CASE Pending # {}
  <2>1. PICK s \in Pending : spent + Worst(s) <= Room(Cardinality(Pending))
    BY <1>2 DEF IInv, LastOneFits
  <2>2. Worst(s) \in Nat /\ spent \in Nat
    BY SpendLedgerAssumption DEF IInv, LedgerTypeOK, Pending, Worst
  <2>3. Room(Cardinality(Pending)) <= Room(1) /\ Room(Cardinality(Pending)) \in Int
    BY <1>2, PendingSize, PendingNonempty, RoomMonotone, RoomShrinks
  <2> QED
    BY <2>1, <2>2, <2>3, RoomIsOvershoot, SpendLedgerAssumption DEF Overshoot
<1> QED
  BY <1>1, <1>2

\* A call that is let through is itself the one that fits.
LEMMA ApproveKeepsInv ==
  ASSUME IInv, NEW s \in Spenders, NEW e \in 1 .. MaxCharge, Approve(s, e)
  PROVE  IInv'
<1>1. Pending' = Pending \cup {s} /\ s \in Pending'
  BY DEF Approve, Pending, IInv, LedgerTypeOK
<1>2. LedgerTypeOK' /\ (\A t \in Spenders : approved[t] <= Ceiling)'
  <2>1. e <= Ceiling
    BY SpendLedgerAssumption DEF Approve, IInv, LedgerTypeOK
  <2> QED
    BY <2>1, SpendLedgerAssumption DEF Approve, IInv, LedgerTypeOK
<1>3. Cardinality(Pending') <= N /\ Cardinality(Pending') \in Nat /\ N \in Nat
  <2>1. Pending' \subseteq Spenders
    BY DEF Pending
  <2> QED
    BY <2>1, SpendLedgerAssumption, FS_Subset, FS_CardinalityType DEF N
<1>4. Ceiling + Overrun <= Room(Cardinality(Pending'))
  BY <1>3, RoomMonotone, RoomIsOvershoot, RoomShrinks, SpendLedgerAssumption
<1>5. (spent + Worst(s))' <= Room(Cardinality(Pending'))
  <2>1. (spent + Worst(s))' \in Int /\ (spent + Worst(s))' <= spent + e + Overrun
    BY SpendLedgerAssumption DEF Approve, IInv, LedgerTypeOK, Worst
  <2>2. spent + e <= Ceiling /\ spent + e \in Int
    BY DEF Approve, IInv, LedgerTypeOK
  <2>3. Room(Cardinality(Pending')) \in Int
    BY <1>3, RoomShrinks
  <2> QED
    BY <1>4, <2>1, <2>2, <2>3, SpendLedgerAssumption
<1>6. LastOneFits'
  BY <1>1, <1>5 DEF LastOneFits, Room, N
<1> QED
  BY <1>1, <1>2, <1>6 DEF IInv

\* A set of calls leaves the flight without a row: the room they leave behind
\* covers whatever any remaining call was approved for.
LEMMA DropKeepsInv ==
  ASSUME IInv, NEW group \in SUBSET Spenders, Drop(group)
  PROVE  IInv'
<1>1. Pending' = Pending \ group
  BY DEF Drop, Pending, IInv, LedgerTypeOK
<1>2. LedgerTypeOK' /\ (\A t \in Spenders : approved[t] <= Ceiling)'
  BY SpendLedgerAssumption DEF Drop, IInv, LedgerTypeOK
<1>3. CASE Pending' = {}
  <2>1. Overshoot'
    BY InvBoundsSpend DEF Drop, Overshoot, Slack
  <2> QED
    BY <1>2, <1>3, <2>1 DEF IInv
<1>4. CASE Pending' # {}
  <2>1. Pending # {}
    BY <1>1, <1>4
  <2>2. PICK s \in Pending : spent + Worst(s) <= Room(Cardinality(Pending))
    BY <2>1 DEF IInv, LastOneFits
  <2>3. /\ Cardinality(Pending') \in Nat
        /\ Cardinality(Pending') <= Cardinality(Pending)
        /\ Pending' # Pending => Cardinality(Pending') < Cardinality(Pending)
    BY <1>1, PendingSize, FS_Subset, FS_CardinalityType
  <2>4. Room(Cardinality(Pending)) <= Room(Cardinality(Pending'))
    BY <2>3, PendingSize, RoomMonotone
  <2>5. Room(Cardinality(Pending)) \in Int /\ Room(Cardinality(Pending')) \in Int
    BY <2>3, PendingSize, RoomShrinks
  <2>6. CASE s \in Pending'
    <3>1. Worst(s)' = Worst(s) /\ spent' = spent
      BY <1>1, <2>6 DEF Drop, Pending, Worst
    <3>2. spent \in Nat /\ Worst(s) \in Nat
      BY SpendLedgerAssumption DEF IInv, LedgerTypeOK, Pending, Worst
    <3>3. spent' + Worst(s)' <= Room(Cardinality(Pending'))
      BY <2>2, <2>4, <2>5, <3>1, <3>2
    <3>4. LastOneFits'
      BY <2>6, <3>3 DEF LastOneFits, Room, N
    <3> QED
      BY <1>2, <1>4, <3>4 DEF IInv
  <2>7. CASE s \notin Pending'
    <3>1. PICK t \in Pending' : TRUE
      BY <1>4
    <3>2. t \in Pending /\ Worst(t)' = Worst(t) /\ spent' = spent
      BY <1>1, <3>1 DEF Drop, Pending, Worst
    <3>3. Room(Cardinality(Pending)) + MaxCharge <= Room(Cardinality(Pending'))
      BY <2>2, <2>3, <2>7, PendingSize, RoomMonotone
    <3>4. /\ spent \in Nat /\ Worst(s) \in Nat
          /\ Worst(t) \in Nat /\ Worst(t) <= MaxCharge
      BY <3>2, SpendLedgerAssumption DEF IInv, LedgerTypeOK, Pending, Worst
    <3>5. spent' + Worst(t)' <= Room(Cardinality(Pending'))
      BY <2>2, <2>5, <3>2, <3>3, <3>4, SpendLedgerAssumption
    <3>6. LastOneFits'
      BY <3>1, <3>5 DEF LastOneFits, Room, N
    <3> QED
      BY <1>2, <1>4, <3>6 DEF IInv
  <2> QED
    BY <2>6, <2>7
<1> QED
  BY <1>3, <1>4

\* A charge is recorded: it is no more than the call's worst, so the spend stays
\* within the room, and the spender that left makes room for one more charge.
LEMMA RecordKeepsInv ==
  ASSUME IInv, NEW s \in Spenders, NEW k \in 0 .. MaxCharge, Record(s, k)
  PROVE  IInv'
<1>1. s \in Pending /\ Pending' = Pending \ {s}
  BY DEF Record, Pending, IInv, LedgerTypeOK
<1>2. LedgerTypeOK' /\ (\A t \in Spenders : approved[t] <= Ceiling)'
  BY SpendLedgerAssumption DEF Record, IInv, LedgerTypeOK
<1>3. /\ Cardinality(Pending) \in Nat /\ Cardinality(Pending') \in Nat
      /\ Cardinality(Pending') + 1 = Cardinality(Pending)
  <2>1. Cardinality(Pending \ {s}) = Cardinality(Pending) - 1
    BY <1>1, PendingSize, FS_RemoveElement
  <2>2. IsFiniteSet(Pending \ {s})
    BY PendingSize, FS_Subset
  <2> QED
    BY <1>1, <2>1, <2>2, PendingSize, FS_CardinalityType
<1>4. Room(Cardinality(Pending')) = Room(Cardinality(Pending)) + MaxCharge
  BY <1>3, RoomShrinks
<1>5. Room(Cardinality(Pending)) \in Int
  BY <1>3, RoomShrinks
<1>6. PICK last \in Pending : spent + Worst(last) <= Room(Cardinality(Pending))
  BY <1>1 DEF IInv, LastOneFits
<1>7. spent \in Nat /\ Worst(last) \in Nat /\ spent' = spent + k /\ k <= Worst(s)
  BY SpendLedgerAssumption DEF Record, IInv, LedgerTypeOK, Pending, Worst
<1>8. CASE Pending' = {}
  <2>1. last = s /\ Cardinality(Pending) = 1
    BY <1>1, <1>3, <1>8, FS_EmptySet
  <2>2. Overshoot'
    BY <1>6, <1>7, <2>1, RoomIsOvershoot, SpendLedgerAssumption DEF Overshoot, Slack
  <2> QED
    BY <1>2, <1>8, <2>2 DEF IInv
<1>9. CASE Pending' # {}
  <2>1. PICK t \in Pending' : spent' + Worst(t)' <= Room(Cardinality(Pending'))
    <3>1. CASE last # s
      <4>1. last \in Pending' /\ Worst(last)' = Worst(last)
        BY <1>1, <3>1 DEF Record, Pending, Worst, IInv, LedgerTypeOK
      <4>2. spent' + Worst(last)' <= Room(Cardinality(Pending'))
        BY <1>4, <1>5, <1>6, <1>7, <4>1, SpendLedgerAssumption
      <4> QED
        BY <4>1, <4>2
    <3>2. CASE last = s
      <4>1. PICK t \in Pending' : TRUE
        BY <1>9
      <4>2. Worst(t)' \in Nat /\ Worst(t)' <= MaxCharge
        BY <1>2, <4>1, SpendLedgerAssumption DEF LedgerTypeOK, Worst, Pending
      <4>3. spent' + Worst(t)' <= Room(Cardinality(Pending'))
        BY <1>4, <1>5, <1>6, <1>7, <3>2, <4>2, SpendLedgerAssumption
      <4> QED
        BY <4>3
    <3> QED
      BY <3>1, <3>2
  <2>2. LastOneFits'
    BY <2>1 DEF LastOneFits, Room, N
  <2> QED
    BY <1>2, <1>9, <2>2 DEF IInv
<1> QED
  BY <1>8, <1>9

\* A new month forgets the spend; an approval of last month still fits, since
\* its estimate fitted under the ceiling by itself.
LEMMA NewMonthKeepsInv ==
  ASSUME IInv, NewMonth
  PROVE  IInv'
<1>1. Pending' = Pending /\ \A s \in Spenders : Worst(s)' = Worst(s)
  BY DEF NewMonth, Pending, Worst
<1>2. LedgerTypeOK' /\ (\A t \in Spenders : approved[t] <= Ceiling)'
  BY SpendLedgerAssumption DEF NewMonth, IInv, LedgerTypeOK
<1>3. Overshoot'
  <2>1. Slack \in Nat
    BY SlackIsNat
  <2> QED
    BY <2>1, SpendLedgerAssumption DEF NewMonth, Overshoot, Slack
<1>4. ASSUME Pending # {} PROVE LastOneFits'
  <2>1. PICK s \in Pending : TRUE
    BY <1>4
  <2>2. Worst(s) \in Nat /\ Worst(s) <= Ceiling + Overrun
    BY SpendLedgerAssumption DEF IInv, LedgerTypeOK, Pending, Worst
  <2>3. Ceiling + Overrun <= Room(Cardinality(Pending))
    BY PendingSize, RoomMonotone, RoomIsOvershoot, RoomShrinks, SpendLedgerAssumption
  <2>4. spent' + Worst(s)' <= Room(Cardinality(Pending'))
    BY <1>1, <2>1, <2>2, <2>3, PendingSize, RoomShrinks, SpendLedgerAssumption
       DEF NewMonth, Pending
  <2> QED
    BY <1>1, <2>1, <2>4 DEF LastOneFits, Room, N
<1> QED
  BY <1>1, <1>2, <1>3, <1>4 DEF IInv

-----------------------------------------------------------------------------

\* IInv is an invariant of the ledger.
THEOREM Invariance == LedgerSpec => []IInv
<1>1. IInv /\ [LedgerNext]_ledgerVars => IInv'
  <2> SUFFICES ASSUME IInv, [LedgerNext]_ledgerVars PROVE IInv'
    OBVIOUS
  <2>1. CASE \E s \in Spenders, e \in 1 .. MaxCharge : Approve(s, e)
    BY <2>1, ApproveKeepsInv
  <2>2. CASE \E s \in Spenders, k \in 0 .. MaxCharge : Record(s, k)
    BY <2>2, RecordKeepsInv
  <2>3. CASE \E group \in SUBSET Spenders : Drop(group)
    BY <2>3, DropKeepsInv
  <2>4. CASE NewMonth
    BY <2>4, NewMonthKeepsInv
  <2>5. CASE UNCHANGED ledgerVars
    BY <2>5 DEF ledgerVars, IInv, LedgerTypeOK, Pending, LastOneFits, Worst, Overshoot, Slack, Room, N
  <2> QED
    BY <2>1, <2>2, <2>3, <2>4, <2>5 DEF LedgerNext
<1> QED
  BY <1>1, InitInv, PTL DEF LedgerSpec

\* The month's spend passes the ceiling by no more than Slack, for every set of
\* spenders, ceiling, charge bound and overrun (fetch.py's check-then-spend).
THEOREM OvershootBounded == LedgerSpec => []Overshoot
BY Invariance, InvBoundsSpend, PTL

\* Check-then-spend needs no reservation when one spender exists and the vendor
\* charges no more than was quoted: the ceiling is then exact.
THEOREM LoneSpenderCeiling ==
  ASSUME Cardinality(Spenders) = 1, Overrun = 0
  PROVE  LedgerSpec => []CeilingHolds
<1>1. Overshoot => CeilingHolds
  BY SpendLedgerAssumption DEF Overshoot, CeilingHolds, Slack
<1> QED
  BY <1>1, OvershootBounded, PTL

\* No approval is given while another is in flight.
OneInFlight == \A s, t \in Pending : s = t

\* An approval in flight still fits under the ceiling.
AllFit == spent <= Ceiling /\ \A s \in Pending : spent + approved[s] <= Ceiling

\* The ceiling is exact, for any number of spenders, as long as what is serialised is
\* the whole of check-then-spend, from the approval to the record.
THEOREM OneAtATimeCeiling ==
  ASSUME Overrun = 0
  PROVE  LedgerSpec /\ []OneInFlight => []CeilingHolds
<1>1. LedgerInit => AllFit
  BY SpendLedgerAssumption DEF LedgerInit, AllFit, Pending
<1>2. LedgerTypeOK /\ OneInFlight /\ OneInFlight' /\ AllFit /\ [LedgerNext]_ledgerVars => AllFit'
  <2> SUFFICES ASSUME LedgerTypeOK, OneInFlight, OneInFlight', AllFit, [LedgerNext]_ledgerVars
               PROVE  AllFit'
    OBVIOUS
  <2>t. spent \in Nat /\ \A s \in Spenders : approved[s] \in Nat
    BY SpendLedgerAssumption DEF LedgerTypeOK
  <2>1. ASSUME NEW s \in Spenders, NEW e \in 1 .. MaxCharge, Approve(s, e) PROVE AllFit'
    <3>1. approved'[s] = e /\ spent' = spent /\ spent + e <= Ceiling /\ s \in Pending'
      BY <2>1, SpendLedgerAssumption DEF Approve, LedgerTypeOK, Pending
    <3>2. \A t \in Pending' : t = s
      BY <3>1 DEF OneInFlight
    <3> QED
      BY <3>1, <3>2 DEF AllFit
  <2>2. ASSUME NEW s \in Spenders, NEW k \in 0 .. MaxCharge, Record(s, k) PROVE AllFit'
    <3>1. s \in Pending /\ k <= approved[s] /\ spent' = spent + k
      BY <2>t, <2>2 DEF Record
    <3>2. Pending' = {}
      BY <2>2 DEF Record, OneInFlight, Pending, LedgerTypeOK
    <3>3. spent' <= Ceiling
      BY <2>t, <3>1, SpendLedgerAssumption DEF AllFit, Pending
    <3> QED
      BY <3>2, <3>3 DEF AllFit
  <2>3. ASSUME NEW group \in SUBSET Spenders, Drop(group) PROVE AllFit'
    BY <2>3 DEF Drop, AllFit, Pending
  <2>4. CASE NewMonth
    BY <2>t, <2>4, SpendLedgerAssumption DEF NewMonth, AllFit, Pending
  <2>5. CASE UNCHANGED ledgerVars
    BY <2>5 DEF ledgerVars, AllFit, Pending
  <2> QED
    BY <2>1, <2>2, <2>3, <2>4, <2>5 DEF LedgerNext
<1>3. IInv => LedgerTypeOK
  BY DEF IInv
<1>4. AllFit => CeilingHolds
  BY DEF AllFit, CeilingHolds
<1> QED
  BY <1>1, <1>2, <1>3, <1>4, Invariance, PTL DEF LedgerSpec
=============================================================================
