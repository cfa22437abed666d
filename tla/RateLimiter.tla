----------------------------- MODULE RateLimiter -----------------------------
(***************************************************************************)
(* ratelimit.py: a sliding window of send times for one capability in one  *)
(* process, shared by every task that is about to send.  A pass of         *)
(* acquire's loop has no await before its sleep, so it is one action.      *)
(***************************************************************************)
EXTENDS Integers, FiniteSets, Sequences, FiniteSetsExt

CONSTANTS
  Tasks,      \* asyncio tasks that call acquire
  PerMinute,  \* the capability's rate_limit_per_minute
  Window,     \* WINDOW_SECONDS, in ticks
  MaxWait,    \* MAX_WAIT_SECONDS, in ticks
  MaxTime,    \* bound of the model: no acquire starts after it
  MaxSends    \* bound of the model: acquires granted or under way

ASSUME RateLimiterAssumption ==
  /\ PerMinute \in Nat \ {0} /\ Window \in Nat \ {0}
  /\ MaxWait = 2 * Window

VARIABLES
  time,     \* time.monotonic
  sent,     \* every send time ever appended, oldest first
  dropped,  \* how many of them popleft has taken: the deque is the rest
  task      \* each task's acquire in progress

rateVars == <<time, sent, dropped, task>>

-----------------------------------------------------------------------------

IdleTask == [pc |-> "idle", waited |-> 0, until |-> 0, began |-> 0, sleeps |-> 0]

\* Mutant: a fixed bucket, emptied when a window begins.
LiveInBucket == {i \in dropped + 1 .. Len(sent) : sent[i] >= time - (time % Window)}

\* Mutant: a send exactly one window old still counts.
LiveClosed == {i \in dropped + 1 .. Len(sent) : time - sent[i] <= Window}

\* popleft until the oldest send left is younger than the window.
Live == {i \in dropped + 1 .. Len(sent) : time - sent[i] < Window}

Slid == IF Live = {} THEN Len(sent) ELSE Min(Live) - 1

HasSlot == Len(sent) - Slid < PerMinute

Delay == Window - (time - sent[Slid + 1])

\* About to make a pass of the loop: just called, or slept long enough.
Looping(t) == \/ task[t].pc = "asking"
              \/ task[t].pc = "asleep" /\ time >= task[t].until

-----------------------------------------------------------------------------

Ask(t) ==
  /\ task[t].pc = "idle" /\ time <= MaxTime
  /\ Len(sent) + Cardinality({u \in Tasks : task[u].pc # "idle"}) < MaxSends
  /\ task' = [task EXCEPT ![t] = [IdleTask EXCEPT !.pc = "asking", !.began = Len(sent)]]
  /\ UNCHANGED <<time, sent, dropped>>

Grant(t) ==
  /\ Looping(t) /\ HasSlot
  /\ dropped' = Slid
  /\ sent' = Append(sent, time)
  /\ task' = [task EXCEPT ![t] = IdleTask]
  /\ UNCHANGED time

Sleep(t) ==
  /\ Looping(t) /\ ~HasSlot /\ task[t].waited + Delay <= MaxWait
  /\ dropped' = Slid
  /\ task' = [task EXCEPT ![t].pc = "asleep", ![t].waited = @ + Delay,
                          ![t].until = time + Delay, ![t].sleeps = @ + 1]
  /\ UNCHANGED <<time, sent>>

\* RateLimitTimeoutError.
GiveUp(t) ==
  /\ Looping(t) /\ ~HasSlot /\ task[t].waited + Delay > MaxWait
  /\ dropped' = Slid
  /\ task' = [task EXCEPT ![t].pc = "timed_out"]
  /\ UNCHANGED <<time, sent>>

\* The error has reached the caller.
Raised(t) ==
  /\ task[t].pc = "timed_out"
  /\ task' = [task EXCEPT ![t] = IdleTask]
  /\ UNCHANGED <<time, sent, dropped>>

\* asyncio cancels the task in its sleep.
Cancel(t) ==
  /\ task[t].pc = "asleep"
  /\ task' = [task EXCEPT ![t] = IdleTask]
  /\ UNCHANGED <<time, sent, dropped>>

\* Time passes; a sleeper may be woken late.
Tick ==
  /\ time < MaxTime \/ \E t \in Tasks : task[t].pc = "asleep" /\ time < task[t].until
  /\ time' = time + 1
  /\ UNCHANGED <<sent, dropped, task>>

-----------------------------------------------------------------------------

Init ==
  /\ time = 0
  /\ sent = <<>>
  /\ dropped = 0
  /\ task = [t \in Tasks |-> IdleTask]

Pass(t) == Grant(t) \/ Sleep(t) \/ GiveUp(t) \/ Raised(t)

Next ==
  \/ \E t \in Tasks : Ask(t) \/ Pass(t) \/ Cancel(t)
  \/ Tick

Spec == Init /\ [][Next]_rateVars

-----------------------------------------------------------------------------

Task == [pc : {"idle", "asking", "asleep", "timed_out"}, waited : Nat, until : Nat,
         began : Nat, sleeps : Nat]

TypeOK ==
  /\ time \in Nat
  /\ sent \in Seq(Nat)
  /\ dropped \in 0 .. Len(sent)
  /\ task \in [Tasks -> Task]

\* "Sliding rather than a fixed bucket" (ratelimit.py:42): no stretch of time
\* shorter than the window holds more than PerMinute sends, wherever it begins.
WindowRespected ==
  \A i, j \in DOMAIN sent : j >= i + PerMinute => sent[j] - sent[i] >= Window

\* A task sleeps again, or gives up, only because others took a slot while it
\* slept: each of its sleeps but the one it is in cost it one overtaking at least.
\* So a task that is alone never sleeps twice and never times out.
OutrunToSleepAgain ==
  \A t \in Tasks :
    LET overtaken == Len(sent) - task[t].began IN
    /\ task[t].pc = "asleep" => overtaken >= task[t].sleeps - 1
    /\ task[t].pc = "timed_out" => overtaken >= 2
=============================================================================
