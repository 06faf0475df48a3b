----------------------------- MODULE FetchPacing -----------------------------
(***************************************************************************)
(* The clock of aegisaudit/fetcher.py: what the rate limiter spaces.  Each  *)
(* fetch sleeps 1/rate_per_sec (Interval) under _rate_lock, waits for the   *)
(* semaphore, sends its request, and one more for every redirect.  Servers  *)
(* answer after any delay; a timer fires late and a ready task waits unless *)
(* Prompt, an event loop with nothing better to do.                         *)
(***************************************************************************)
EXTENDS Naturals, Sequences, FiniteSets

CONSTANTS Call, SlotCount, Interval, HopLimit,
          Prompt,  \* time only passes while no task is ready to run
          Horizon  \* bound on the clock, for TLC

ASSUME PacingAssumption ==
  /\ IsFiniteSet(Call)
  /\ SlotCount \in Nat \ {0} /\ Interval \in Nat \ {0} /\ HopLimit \in Nat

VARIABLES
  now,       \* the clock
  stage,     \* where each fetch() is
  wake,      \* when the sleep of a task ends
  followed,  \* redirects a task has followed
  passes,    \* when tasks passed the limiter, in order
  starts     \* when requests were sent, in order

pacingVars == <<now, stage, wake, followed, passes, starts>>

InBlock == {t \in Call : stage[t] = "wire"}

PacingInit ==
  /\ now = 0
  /\ stage = [t \in Call |-> "rate"]
  /\ wake = [t \in Call |-> 0]
  /\ followed = [t \in Call |-> 0]
  /\ passes = <<>> /\ starts = <<>>

LockFree_Unlocked == TRUE

LockFree == \A t \in Call : stage[t] # "sleep"

Ready(t) ==
  \/ stage[t] = "rate" /\ LockFree
  \/ stage[t] = "sleep" /\ now >= wake[t]
  \/ stage[t] = "slot" /\ Cardinality(InBlock) < SlotCount

Tick ==
  /\ now < Horizon
  /\ Prompt => \A t \in Call : ~Ready(t)
  /\ now' = now + 1
  /\ UNCHANGED <<stage, wake, followed, passes, starts>>

Sleep(t) ==
  /\ stage[t] = "rate" /\ Ready(t)
  /\ stage' = [stage EXCEPT ![t] = "sleep"]
  /\ wake' = [wake EXCEPT ![t] = now + Interval]
  /\ UNCHANGED <<now, followed, passes, starts>>

Awake(t) ==
  /\ stage[t] = "sleep" /\ Ready(t)
  /\ stage' = [stage EXCEPT ![t] = "slot"]
  /\ passes' = Append(passes, now)
  /\ UNCHANGED <<now, wake, followed, starts>>

Send == starts' = Append(starts, now)

TakeSlot(t) ==
  /\ stage[t] = "slot" /\ Ready(t)
  /\ stage' = [stage EXCEPT ![t] = "wire"]
  /\ Send
  /\ UNCHANGED <<now, wake, followed, passes>>

SendAgain(t) ==
  /\ stage[t] = "wire" /\ followed[t] < HopLimit
  /\ followed' = [followed EXCEPT ![t] = @ + 1]
  /\ Send
  /\ UNCHANGED <<now, stage, wake, passes>>

GiveSlotBack(t) ==
  /\ stage[t] = "wire"
  /\ stage' = [stage EXCEPT ![t] = "done"]
  /\ UNCHANGED <<now, wake, followed, passes, starts>>

PacingNext ==
  \/ Tick
  \/ \E t \in Call :
       Sleep(t) \/ Awake(t) \/ TakeSlot(t) \/ SendAgain(t) \/ GiveSlotBack(t)

PacingSpec == PacingInit /\ [][PacingNext]_pacingVars

-----------------------------------------------------------------------------
Spaced(times) == \A i \in 2..Len(times) : times[i] >= times[i - 1] + Interval

(* The lock serialises the sleeps: tasks pass the limiter an interval apart, *)
(* however many of them wait.                                                *)
PassesSpaced == Spaced(passes)

Passed == {t \in Call : stage[t] \notin {"rate", "sleep"}}

(* Over the whole scan the targets are never ahead of rate_per_sec: by the   *)
(* time n of them have been let through, n intervals have gone by.           *)
NeverAheadOfRate == Cardinality(Passed) * Interval <= now

(* fetcher.py:44-47: "real spacing between request starts", so that the rate *)
(* limit no longer bursts up to the concurrency budget.                      *)
StartsSpaced == Spaced(starts)
=============================================================================
