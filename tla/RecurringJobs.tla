--------------------------- MODULE RecurringJobs ---------------------------
(***************************************************************************)
(* The PostgreSQL recurring-job scheduler of crates/rustee-jobs-cron-sqlx: *)
(* registration, pause, resume, and scheduler passes that claim due rows   *)
(* with FOR UPDATE SKIP LOCKED, consume a fixed-window governor permit,    *)
(* stage one outbox job per row and advance the row, all in one            *)
(* transaction.  A pass reads the database clock once, at its start; its   *)
(* later statements interleave with other passes and with the clock.       *)
(***************************************************************************)
EXTENDS Integers, FiniteSets, FiniteSetsExt

CONSTANTS
  Schedule,   \* row ids, naturals: ties of next_run_at are broken by id
  Cron,       \* the occurrences of each schedule's expression, a set of times
  Policies,   \* governor policies [key, capacity] that definitions may name
  NoPolicy,   \* an ungoverned definition
  Window,     \* the governor window, in clock units
  Pass,       \* scheduler processes calling fire_due
  Limit,      \* RecurringJobFireLimit
  MaxResume,  \* bound: calls of resume under way at once
  MaxClock    \* bound: the last instant the database clock reaches

Key == {policy.key : policy \in Policies}

ASSUME RecurringAssumption ==
  /\ Schedule \subseteq Nat
  /\ Cron \in [Schedule -> SUBSET Nat]
  /\ \A policy \in Policies : policy.capacity \in Nat \ {0}
  /\ NoPolicy \notin Policies
  /\ Window \in Nat \ {0}
  /\ Limit \in Nat \ {0}
  /\ MaxResume \in Nat
  /\ MaxClock \in Nat

VARIABLES
  clock,     \* the database clock
  rows,      \* registered schedules
  policy,    \* the stored governor policy of each registered schedule
  next,      \* next_run_at
  enabled,   \* enabled rows
  window,    \* per governor key, the stored window row, or NoWindow
  resuming,  \* calls of resume: the schedule and the clock they have read
  jobs,      \* committed outbox jobs [schedule, n, at, now, policy]
  resumed,   \* history: schedules that were ever resumed
  overtaken, \* history: keys whose window row an older window replaced
  pc,        \* each pass: "idle", "select" or "fire"
  now,       \* the clock a pass read at its start
  locked,    \* the rows a pass has locked
  todo,      \* the locked rows it has not treated yet
  nextW,     \* its uncommitted next_run_at updates
  windowW,   \* its uncommitted governor updates; the domain is locked too
  jobsW      \* its uncommitted outbox rows

history == <<resumed, overtaken>>
tables == <<rows, policy, next, enabled, window, jobs, history>>
passes == <<pc, now, locked, todo, nextW, windowW, jobsW>>
vars == <<clock, rows, policy, next, enabled, window, resuming, jobs, resumed, overtaken,
          pc, now, locked, todo, nextW, windowW, jobsW>>

Empty == [x \in {} |-> 0]

WindowRow == [capacity : Nat, start : Nat, consumed : Nat]
NoWindow == [capacity |-> 0, start |-> 0, consumed |-> 0]
Job == [schedule : Schedule, n : Nat, at : Nat, now : Nat, policy : Policies \cup {NoPolicy}]

TypeOK ==
  /\ clock \in 0..MaxClock
  /\ rows \subseteq Schedule
  /\ policy \in [Schedule -> Policies \cup {NoPolicy}]
  /\ next \in [Schedule -> Nat]
  /\ enabled \subseteq rows
  /\ window \in [Key -> WindowRow]
  /\ resuming \subseteq Schedule \X (0..clock)
  /\ jobs \subseteq Job
  /\ resumed \subseteq rows /\ overtaken \subseteq Key
  /\ pc \in [Pass -> {"idle", "select", "fire"}]
  /\ now \in [Pass -> Nat]
  /\ \A p \in Pass : /\ todo[p] \subseteq locked[p]
                     /\ locked[p] \subseteq rows
                     /\ DOMAIN nextW[p] \subseteq locked[p]
                     /\ DOMAIN windowW[p] \subseteq Key
                     /\ jobsW[p] \subseteq Job

Init ==
  /\ clock = 0
  /\ rows = {} /\ enabled = {} /\ resuming = {} /\ jobs = {}
  /\ resumed = {} /\ overtaken = {}
  /\ policy = [s \in Schedule |-> NoPolicy]
  /\ next = [s \in Schedule |-> 0]
  /\ window = [k \in Key |-> NoWindow]
  /\ pc = [p \in Pass |-> "idle"]
  /\ now = [p \in Pass |-> 0]
  /\ locked = [p \in Pass |-> {}]
  /\ todo = [p \in Pass |-> {}]
  /\ nextW = [p \in Pass |-> Empty]
  /\ windowW = [p \in Pass |-> Empty]
  /\ jobsW = [p \in Pass |-> {}]

Tick ==
  /\ clock < MaxClock
  /\ clock' = clock + 1
  /\ UNCHANGED <<tables, resuming, passes>>

-----------------------------------------------------------------------------
(* Pure helpers.                                                           *)

\* next_after_unix_ms: the first occurrence strictly after t, if there is one.
HasNext(s, t) == \E o \in Cron[s] : o > t
NextAfter(s, t) == Min({o \in Cron[s] : o > t})

\* fixed_window_bounds
WindowStart(t) == (t \div Window) * Window
\* Mutant of NextWindow: a window length from now.
NextWindowFromNow(t) == t + Window

NextWindow(t) == WindowStart(t) + Window

\* Mutant of Allowed: one job too many.
AllowedOneMore(w, t) ==
  \/ w = NoWindow
  \/ w.start # WindowStart(t)
  \/ w.consumed <= w.capacity

\* The upsert of consume_window on a stored row w, in a pass that reads t:
\* allowed while another window is stored or this one has capacity left.
Allowed(w, t) ==
  \/ w = NoWindow
  \/ w.start # WindowStart(t)
  \/ w.consumed < w.capacity

SamePolicy(w, d) == w # NoWindow => w.capacity = d.capacity

Consumed(w, t, capacity) ==
  [capacity |-> capacity,
   start    |-> WindowStart(t),
   consumed |-> IF w # NoWindow /\ w.start = WindowStart(t) THEN w.consumed + 1 ELSE 1]

-----------------------------------------------------------------------------
(* Registration and its state changes.                                     *)

\* Mutant of PolicyAgrees: registration does not compare.
PolicyUnchecked(d) == d \in Policies \cup {NoPolicy}

\* enforce_registration_policy, under the key's advisory lock until commit.
PolicyAgrees(d) ==
  \A s \in rows : policy[s] # NoPolicy /\ d # NoPolicy /\ policy[s].key = d.key
                    => policy[s] = d

\* A present key changes nothing: AlreadyPresent or RegistrationConflict.  An
\* expression without a further occurrence is refused.
Register(s, d) ==
  /\ PolicyAgrees(d)
  /\ HasNext(s, clock)
  /\ s \notin rows
  /\ rows' = rows \cup {s}
  /\ enabled' = enabled \cup {s}
  /\ policy' = [policy EXCEPT ![s] = d]
  /\ next' = [next EXCEPT ![s] = NextAfter(s, clock)]
  /\ UNCHANGED <<clock, window, resuming, jobs, history, passes>>

\* Mutant of Unlocked: no row locks.
UnlockedAlways(s) == s \in Schedule

Unlocked(s) == \A p \in Pass : s \notin locked[p]

\* The UPDATE waits for a pass that has the row locked.
Pause(s) ==
  /\ s \in enabled
  /\ Unlocked(s)
  /\ enabled' = enabled \ {s}
  /\ UNCHANGED <<clock, rows, policy, next, window, resuming, jobs, history, passes>>

\* Resume reads the clock first and finds the paused row in its next statement.
BeginResume(s) ==
  /\ Cardinality(resuming) < MaxResume
  /\ resuming' = resuming \cup {<<s, clock>>}
  /\ UNCHANGED <<clock, tables, passes>>

\* A row that is absent or enabled by then, or has no further occurrence, is
\* left alone.
Resume(s, t) ==
  /\ <<s, t>> \in resuming
  /\ Unlocked(s)
  /\ resuming' = resuming \ {<<s, t>>}
  /\ IF s \in rows \ enabled /\ HasNext(s, t)
     THEN /\ enabled' = enabled \cup {s}
          /\ next' = [next EXCEPT ![s] = NextAfter(s, t)]
          /\ resumed' = resumed \cup {s}
     ELSE UNCHANGED <<enabled, next, resumed>>
  /\ UNCHANGED <<clock, rows, policy, window, jobs, overtaken, passes>>

-----------------------------------------------------------------------------
(* One pass of fire_due.                                                   *)

Begin(p) ==
  /\ pc[p] = "idle"
  /\ pc' = [pc EXCEPT ![p] = "select"]
  /\ now' = [now EXCEPT ![p] = clock]
  /\ UNCHANGED <<clock, tables, resuming, locked, todo, nextW, windowW, jobsW>>

\* ORDER BY next_run_at, id
Before(s, u) == next[s] < next[u] \/ (next[s] = next[u] /\ s < u)

\* Mutant of Claimable: a row due at this very instant is left out.
ClaimableStrictly(p) == {s \in enabled : next[s] < now[p] /\ Unlocked(s)}

\* The rows a pass may claim: due by its own clock and not locked.
Claimable(p) == {s \in enabled : next[s] <= now[p] /\ Unlocked(s)}

Select(p) ==
  /\ pc[p] = "select"
  /\ \E S \in SUBSET Claimable(p) :
       /\ Cardinality(S) = Min({Limit, Cardinality(Claimable(p))})
       /\ \A s \in S, u \in Claimable(p) \ S : Before(s, u)
       /\ locked' = [locked EXCEPT ![p] = S]
       /\ todo' = [todo EXCEPT ![p] = S]
  /\ pc' = [pc EXCEPT ![p] = "fire"]
  /\ UNCHANGED <<clock, tables, resuming, now, nextW, windowW, jobsW>>

Current(p) == CHOOSE s \in todo[p] : \A u \in todo[p] \ {s} : Before(s, u)

\* The governor row as the pass sees it.
Seen(p, k) == IF k \in DOMAIN windowW[p] THEN windowW[p][k] ELSE window[k]

\* The upsert waits for a pass that has the key's row locked.
Waits(p, q) ==
  /\ pc[p] = "fire" /\ todo[p] # {} /\ q # p
  /\ policy[Current(p)] # NoPolicy
  /\ policy[Current(p)].key \in DOMAIN windowW[q]

Runs(p) == pc[p] = "fire" /\ todo[p] # {} /\ \A q \in Pass : ~Waits(p, q)

Put(f, x, v) == [y \in DOMAIN f \cup {x} |-> IF y = x THEN v ELSE f[y]]

\* Jobs a schedule has staged so far.
Fired(s) == Cardinality({j \in jobs : j.schedule = s})

\* Mutant of StageAndAdvance: the row moves on from its own occurrence, so that
\* missed occurrences are replayed.
StageAndReplay(p, s) ==
  /\ HasNext(s, next[s])
  /\ jobsW' = [jobsW EXCEPT ![p] = @ \cup
        {[schedule |-> s, n |-> Fired(s) + 1, at |-> next[s], now |-> now[p], policy |-> policy[s]]}]
  /\ nextW' = [nextW EXCEPT ![p] = Put(@, s, NextAfter(s, next[s]))]
  /\ todo' = [todo EXCEPT ![p] = @ \ {s}]

\* Stage the fresh job of the current row and advance the row.
StageAndAdvance(p, s) ==
  /\ HasNext(s, now[p])
  /\ jobsW' = [jobsW EXCEPT ![p] = @ \cup
        {[schedule |-> s, n |-> Fired(s) + 1, at |-> next[s], now |-> now[p], policy |-> policy[s]]}]
  /\ nextW' = [nextW EXCEPT ![p] = Put(@, s, NextAfter(s, now[p]))]
  /\ todo' = [todo EXCEPT ![p] = @ \ {s}]

FireUngoverned(p) ==
  /\ Runs(p)
  /\ policy[Current(p)] = NoPolicy
  /\ StageAndAdvance(p, Current(p))
  /\ UNCHANGED <<clock, tables, resuming, pc, now, locked, windowW>>

FireGoverned(p) ==
  LET s == Current(p)
      d == policy[s] IN
  /\ Runs(p)
  /\ d # NoPolicy
  /\ SamePolicy(Seen(p, d.key), d)
  /\ Allowed(Seen(p, d.key), now[p])
  /\ windowW' = [windowW EXCEPT ![p] =
                   Put(@, d.key, Consumed(Seen(p, d.key), now[p], d.capacity))]
  /\ StageAndAdvance(p, s)
  /\ UNCHANGED <<clock, tables, resuming, pc, now, locked>>

\* An exhausted window: the upsert changes nothing but keeps the row locked,
\* and the schedule moves to the next window.
Defer(p) ==
  LET s == Current(p)
      d == policy[s] IN
  /\ Runs(p)
  /\ d # NoPolicy
  /\ SamePolicy(Seen(p, d.key), d)
  /\ ~Allowed(Seen(p, d.key), now[p])
  /\ windowW' = [windowW EXCEPT ![p] = Put(@, d.key, Seen(p, d.key))]
  /\ nextW' = [nextW EXCEPT ![p] = Put(@, s, NextWindow(now[p]))]
  /\ todo' = [todo EXCEPT ![p] = @ \ {s}]
  /\ UNCHANGED <<clock, tables, resuming, pc, now, locked, jobsW>>

EndPass(p) ==
  /\ pc' = [pc EXCEPT ![p] = "idle"]
  /\ now' = [now EXCEPT ![p] = 0]
  /\ locked' = [locked EXCEPT ![p] = {}]
  /\ todo' = [todo EXCEPT ![p] = {}]
  /\ nextW' = [nextW EXCEPT ![p] = Empty]
  /\ windowW' = [windowW EXCEPT ![p] = Empty]
  /\ jobsW' = [jobsW EXCEPT ![p] = {}]

Commit(p) ==
  /\ pc[p] = "fire"
  /\ todo[p] = {}
  /\ next' = [s \in Schedule |-> IF s \in DOMAIN nextW[p] THEN nextW[p][s] ELSE next[s]]
  /\ window' = [k \in Key |-> Seen(p, k)]
  /\ jobs' = jobs \cup jobsW[p]
  /\ overtaken' = overtaken \cup
        {k \in DOMAIN windowW[p] : windowW[p][k].start < window[k].start}
  /\ EndPass(p)
  /\ UNCHANGED <<clock, rows, policy, enabled, resuming, resumed>>

\* A row the pass cannot treat: its expression has no further occurrence
\* (StoredSchedule), or its governor row has another policy.
Unprocessable(p) ==
  LET s == Current(p)
      d == policy[s] IN
  /\ Runs(p)
  /\ \/ /\ ~HasNext(s, now[p])
        /\ d = NoPolicy \/ Allowed(Seen(p, d.key), now[p])
     \/ d # NoPolicy /\ ~SamePolicy(Seen(p, d.key), d)

\* Any error rolls the whole pass back: an unprocessable row, a deadlock that
\* PostgreSQL breaks, a database error, a crash, a cancelled future.
Abort(p) ==
  /\ pc[p] # "idle"
  /\ EndPass(p)
  /\ UNCHANGED <<clock, tables, resuming>>

Next ==
  \/ Tick
  \/ \E s \in Schedule, d \in Policies \cup {NoPolicy} : Register(s, d)
  \/ \E s \in Schedule : Pause(s) \/ BeginResume(s)
  \/ \E call \in resuming : Resume(call[1], call[2])
  \/ \E p \in Pass : Begin(p) \/ Select(p)
  \/ \E p \in Pass : FireUngoverned(p) \/ FireGoverned(p) \/ Defer(p)
  \/ \E p \in Pass : Commit(p) \/ Abort(p)

Spec == Init /\ [][Next]_vars

\* Passes that wait for one another: PostgreSQL aborts one of them.
Deadlocked(p) ==
  \E S \in SUBSET Pass : /\ p \in S
                         /\ \A q \in S : \E o \in S : Waits(q, o)

\* The supervisor calls fire_due again and again.  A pass that has begun takes
\* its next step, a wait for a governor row ends when its turn comes, and a pass
\* that cannot go on is rolled back.  A schedule that is claimed again and again
\* is not met by a failing statement each time.
Fairness ==
  /\ \A p \in Pass :
       /\ WF_vars(Begin(p)) /\ SF_vars(Select(p))
       /\ SF_vars(FireUngoverned(p) \/ FireGoverned(p) \/ Defer(p))
       /\ WF_vars(Commit(p))
       /\ WF_vars(Abort(p) /\ (Unprocessable(p) \/ Deadlocked(p)))
  /\ \A s \in Schedule :
       /\ SF_vars(\E p \in Pass : (FireUngoverned(p) \/ FireGoverned(p) \/ Defer(p)) /\ Current(p) = s)
       /\ SF_vars(\E p \in Pass : Commit(p) /\ s \in locked[p])

FairSpec == Spec /\ Fairness

-----------------------------------------------------------------------------
(* Properties.                                                             *)

\* Without a resume, a late schedule fires once: the row locks make concurrent
\* passes with old clocks agree on each occurrence (fire_due).  A resume reads
\* the clock before the row and may plan an occurrence that has fired.
RepeatedOnlyAfterResume ==
  \A i, j \in jobs : i # j /\ i.schedule = j.schedule /\ i.schedule \notin resumed
                      => i.now < j.at \/ j.now < i.at

\* A pass stages nothing for a schedule that is paused when it commits: pause
\* waits for the pass that has the row locked (pause, FOR UPDATE).
PausedDoesNotFire ==
  [][\A j \in jobs' \ jobs : j.schedule \in enabled]_vars

\* Schedules that share a governor key share its policy, and so does the stored
\* window: a pass never meets RateLimitPolicyConflict (register, consume_window).
OnePolicyPerKey ==
  \A s \in rows : policy[s] # NoPolicy =>
    /\ \A u \in rows : policy[u] # NoPolicy /\ policy[u].key = policy[s].key
                         => policy[u] = policy[s]
    /\ \A p \in Pass : SamePolicy(Seen(p, policy[s].key), policy[s])

\* Jobs staged under a governor policy by passes whose clock lies in t's window.
StagedIn(g, t) == {j \in jobs : j.policy = g /\ WindowStart(j.now) = WindowStart(t)}

\* As long as no pass with an older window replaces a newer window row, the
\* capacity holds across schedules and concurrent passes (consume_window).
ExceededOnlyIfOvertaken ==
  \A g \in Policies, t \in 0..MaxClock :
    g.key \notin overtaken => Cardinality(StagedIn(g, t)) <= g.capacity

\* A deferred schedule waits for the boundary and no longer: an enabled row's
\* next run is one of its occurrences or a window start (defer_schedule).
NextIsPlanned ==
  \A s \in enabled : next[s] \in Cron[s] \/ (policy[s] # NoPolicy /\ next[s] % Window = 0)

\* Every due occurrence is eventually staged or deferred, or its schedule is
\* paused: neither locked rows nor deadlocks nor failing passes block it.
DueIsServed ==
  \A s \in Schedule, t \in 0..MaxClock :
    (s \in enabled /\ next[s] = t /\ t <= clock) ~> (s \notin enabled \/ next[s] # t)

\* Every pass ends: passes that wait for each other's governor rows are not
\* stuck for ever, and hold their schedule rows only until one is rolled back.
PassEnds == \A p \in Pass : pc[p] = "fire" ~> pc[p] = "idle"

(* Every due occurrence is served, and every pass ends.                        *)
PassesServe ==
  /\ DueIsServed
  /\ PassEnds
=============================================================================
