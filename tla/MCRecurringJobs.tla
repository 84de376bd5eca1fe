-------------------------- MODULE MCRecurringJobs --------------------------
(* Instances of RecurringJobs for TLC. *)
EXTENDS RecurringJobs, TLC

\* Every schedule recurs each instant, or with gaps, or only while
\* the year field allows it.
EveryInstant == [s \in Schedule |-> 0..MaxClock + 1]
SecondHasGaps == [s \in Schedule |-> IF s = 2 THEN {1, 2, 5} ELSE 0..MaxClock + 1]
TwoKeys      == {[key |-> "a", capacity |-> 1], [key |-> "b", capacity |-> 1]}
Contradictory == {[key |-> "a", capacity |-> 1], [key |-> "a", capacity |-> 2]}

PassSymmetry == Permutations(Pass)

\* Four due schedules that take the governor rows in opposite orders: passes
\* that claim two of them each can deadlock.
CrossedInit ==
  /\ clock = 1
  /\ rows = Schedule /\ enabled = Schedule /\ resuming = {} /\ jobs = {}
  /\ resumed = {} /\ overtaken = {}
  /\ policy = [s \in Schedule |-> [key |-> IF s \in {1, 4} THEN "a" ELSE "b", capacity |-> 1]]
  /\ next = [s \in Schedule |-> 1]
  /\ window = [k \in Key |-> NoWindow]
  /\ pc = [p \in Pass |-> "idle"]
  /\ now = [p \in Pass |-> 0]
  /\ locked = [p \in Pass |-> {}]
  /\ todo = [p \in Pass |-> {}]
  /\ nextW = [p \in Pass |-> Empty]
  /\ windowW = [p \in Pass |-> Empty]
  /\ jobsW = [p \in Pass |-> {}]

CrossedSpec == CrossedInit /\ [][Next]_vars /\ Fairness
=============================================================================
