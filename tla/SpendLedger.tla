---------------------------- MODULE SpendLedger ----------------------------
(***************************************************************************)
(* What zipf promises about the monthly ceiling, with the cache, the       *)
(* vendor and the database left out.  A spender asks for an estimate, is   *)
(* approved when the month's spend plus the estimate fits under the        *)
(* ceiling, and later either records a charge or gives up.  There is no    *)
(* reservation: `spent` is the sum of the rows already stored, so an       *)
(* approval in flight is invisible to the next one.  The ceiling is        *)
(* therefore soft, and Overshoot says by exactly how much.                 *)
(*                                                                         *)
(* MeteredFetch implements this specification.                             *)
(***************************************************************************)
EXTENDS Integers, FiniteSets

CONSTANTS
  Spenders,   \* the tasks, in any process, that can be inside fetch at once
  Ceiling,    \* Budget.ceiling_usd
  MaxCharge,  \* the largest charge a vendor puts on one call
  Overrun     \* how far a reported charge may exceed the estimate

ASSUME SpendLedgerAssumption ==
  /\ IsFiniteSet(Spenders) /\ Spenders # {}
  /\ Ceiling \in Nat /\ MaxCharge \in Nat /\ Overrun \in Nat

VARIABLES
  spent,      \* SUM(cost_usd) over this month's raw_response rows
  approved    \* the estimate each spender was let through with, 0 if none

ledgerVars == <<spent, approved>>

Pending == {s \in Spenders : approved[s] # 0}

LedgerInit ==
  /\ spent = 0
  /\ approved = [s \in Spenders |-> 0]

\* Mutant: what is spent fits, whatever is asked for.
ApproveUncounted(s, estimate) ==
  /\ approved[s] = 0
  /\ spent <= Ceiling
  /\ approved' = [approved EXCEPT ![s] = estimate]
  /\ UNCHANGED spent

\* Budget.assert_within let the call through.
Approve(s, estimate) ==
  /\ approved[s] = 0
  /\ spent + estimate <= Ceiling
  /\ approved' = [approved EXCEPT ![s] = estimate]
  /\ UNCHANGED spent

\* The vendor answered and _persist stored the row with what it charged.
Record(s, charge) ==
  /\ s \in Pending
  /\ charge <= approved[s] + Overrun
  /\ spent' = spent + charge
  /\ approved' = [approved EXCEPT ![s] = 0]

\* Approved calls that end without a row: refused, lost, cancelled, crashed.
Drop(group) ==
  /\ approved' = [s \in Spenders |-> IF s \in group THEN 0 ELSE approved[s]]
  /\ UNCHANGED spent

\* month_start_iso moves on: no stored row counts against the new month.
NewMonth ==
  /\ spent' = 0
  /\ UNCHANGED approved

LedgerNext ==
  \/ \E s \in Spenders, e \in 1 .. MaxCharge : Approve(s, e)
  \/ \E s \in Spenders, k \in 0 .. MaxCharge : Record(s, k)
  \/ \E group \in SUBSET Spenders : Drop(group)
  \/ NewMonth

LedgerSpec == LedgerInit /\ [][LedgerNext]_ledgerVars

-----------------------------------------------------------------------------

LedgerTypeOK ==
  /\ spent \in Nat
  /\ approved \in [Spenders -> 0 .. MaxCharge]

\* How far the month's spend can pass the ceiling: every spender but the last
\* to be approved can add a whole charge nobody counted, and the last one can
\* be charged more than it was quoted.
Slack == (Cardinality(Spenders) - 1) * MaxCharge + Overrun

\* The spend of a month never passes the ceiling by more than the slack of
\* check-then-spend without a reservation (budget.py assert_within against
\* fetch.py's checks outside _paid_lock).
Overshoot == spent <= Ceiling + Slack

\* The ceiling as an operator reads it: the month's spend stays under it.
\* With one spender, charged no more than it was quoted, this is Overshoot.
CeilingHolds == spent <= Ceiling
=============================================================================
