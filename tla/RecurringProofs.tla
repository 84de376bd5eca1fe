-------------------------- MODULE RecurringProofs --------------------------
(* The recurring-job scheduler for any schedules, expressions, policies,    *)
(* windows, passes and clocks: what each locked row, governor row and job   *)
(* says of the others, and the safety properties that follow.               *)
EXTENDS RecurringJobs, FiniteSetTheorems, WellFoundedInduction, TLAPS

-----------------------------------------------------------------------------
(* The operators.                                                           *)

\* A non-empty set of naturals has a least element, and Min is one.
LEMMA NatMin ==
  ASSUME NEW S \in SUBSET Nat, S # {}
  PROVE  Min(S) \in S /\ \A y \in S : Min(S) <= y
<1> DEFINE R == {ss \in Nat \X Nat : ss[1] < ss[2]}
<1>1. IsWellFoundedOn(R, Nat)
  BY NatLessThanWellFounded, Zenon DEF OpToRel
<1>2. PICK x \in S : \A y \in S : <<y, x>> \notin R
  <2> HIDE DEF R
  <2> QED BY <1>1, WFMin, Zenon
<1>3. ASSUME NEW y \in S PROVE x <= y
  <2>1. y < x => <<y, x>> \in R
    BY Zenon
  <2> QED BY <1>2, <2>1
<1> QED BY <1>3, Zenon DEF Min

\* next_after_unix_ms gives an occurrence that lies after the clock.
LEMMA NextAfterIsLater ==
  ASSUME NEW s \in Schedule, NEW t, HasNext(s, t)
  PROVE  NextAfter(s, t) \in Nat /\ NextAfter(s, t) \in Cron[s] /\ NextAfter(s, t) > t
<1> DEFINE S == {o \in Cron[s] : o > t}
<1>1. S \in SUBSET Nat /\ S # {}
  BY RecurringAssumption, Zenon DEF HasNext
<1>2. Min(S) \in S
  BY <1>1, NatMin, Zenon
<1> QED BY <1>1, <1>2, Zenon DEF NextAfter

\* fixed_window_bounds: the window of t contains t and ends at a boundary.
LEMMA WindowBounds ==
  ASSUME NEW t \in Nat
  PROVE  /\ WindowStart(t) \in Nat
         /\ NextWindow(t) \in Nat
         /\ NextWindow(t) > t
         /\ NextWindow(t) % Window = 0
<1> DEFINE q == t \div Window
<1>1. q \in Nat /\ q * Window <= t /\ t < q * Window + Window
  BY RecurringAssumption, SMTT(30)
<1>2. (q * Window + Window) % Window = 0
  BY <1>1, RecurringAssumption, SMTT(30)
<1>3. q * Window \in Nat
  BY <1>1, RecurringAssumption, SMTT(30)
<1> QED BY <1>1, <1>2, <1>3, RecurringAssumption DEF WindowStart, NextWindow

-----------------------------------------------------------------------------
(* The inductive invariant.                                                 *)

\* What TypeOK leaves open: the shape of the uncommitted updates.
Typed ==
  /\ TypeOK
  /\ locked \in [Pass -> SUBSET Schedule] /\ todo \in [Pass -> SUBSET Schedule]
  /\ jobsW \in [Pass -> SUBSET Job]
  /\ IsFiniteSet(jobs) /\ \A p \in Pass : IsFiniteSet(jobsW[p])
  /\ DOMAIN nextW = Pass /\ DOMAIN windowW = Pass
  /\ \A p \in Pass : /\ \A s \in DOMAIN nextW[p] : nextW[p][s] \in Nat
                     /\ \A k \in DOMAIN windowW[p] : windowW[p][k] \in WindowRow

\* A row is locked by one pass, enabled and due by that pass's clock; what the
\* pass has treated moves past its clock.
LocksAgree ==
  \A p \in Pass :
    /\ pc[p] # "fire" => locked[p] = {} /\ DOMAIN windowW[p] = {}
    /\ todo[p] \subseteq locked[p] /\ locked[p] \subseteq enabled
    /\ DOMAIN nextW[p] = locked[p] \ todo[p]
    /\ \A q \in Pass : p # q => locked[p] \cap locked[q] = {}
    /\ \A s \in locked[p] : next[s] <= now[p]
    /\ \A s \in DOMAIN nextW[p] : now[p] < nextW[p][s]

\* A staged job is of a row its pass has treated, and the only one of that row;
\* the row of a committed job has moved past it unless a resume moved it back.
JobsAgree ==
  /\ \A p \in Pass : \A j \in jobsW[p] :
       /\ j.schedule \in DOMAIN nextW[p]
       /\ j.at = next[j.schedule] /\ j.now = now[p] /\ j.policy = policy[j.schedule]
       /\ \A i \in jobsW[p] : i.schedule = j.schedule => i = j
  /\ \A j \in jobs :
       /\ j.schedule \in rows
       /\ j.at <= j.now /\ j.policy = policy[j.schedule]
       /\ j.schedule \notin resumed => j.now < next[j.schedule]

Planned(s, t) == t \in Cron[s] \/ (policy[s] # NoPolicy /\ t % Window = 0)

PlansAgree ==
  /\ \A s \in enabled : Planned(s, next[s])
  /\ \A p \in Pass : \A s \in DOMAIN nextW[p] : Planned(s, nextW[p][s])

\* A governor row carries the capacity of a registered policy of its key.
Registered(w, k) ==
  \E s \in rows : policy[s] # NoPolicy /\ policy[s].key = k /\ policy[s].capacity = w.capacity

PoliciesAgree ==
  /\ \A s, u \in rows : policy[s] # NoPolicy /\ policy[u] # NoPolicy /\ policy[u].key = policy[s].key
                          => policy[u] = policy[s]
  /\ \A k \in Key : window[k] # NoWindow => Registered(window[k], k)
  /\ \A p \in Pass : \A k \in DOMAIN windowW[p] : Registered(windowW[p][k], k)

SchedulerInv == Typed /\ LocksAgree /\ JobsAgree /\ PlansAgree /\ PoliciesAgree /\ RepeatedOnlyAfterResume

\* The jobs of a set that were staged under key k by a pass in window st.
Charged(js, k, st) == {j \in js : j.policy # NoPolicy /\ j.policy.key = k /\ WindowStart(j.now) = st}

\* The jobs a pass has staged under key k.
ChargedBy(p, k) == {j \in jobsW[p] : j.policy # NoPolicy /\ j.policy.key = k}

\* The stored window of a key that was never overtaken accounts for every job.
WindowAccounts(k) ==
  /\ window[k].consumed <= window[k].capacity
  /\ \A j \in jobs : j.policy # NoPolicy /\ j.policy.key = k =>
       window[k] # NoWindow /\ WindowStart(j.now) <= window[k].start
  /\ \A st \in Nat : Cardinality(Charged(jobs, k, st)) <= window[k].capacity
  /\ Cardinality(Charged(jobs, k, window[k].start)) <= window[k].consumed

\* What a pass has done to the governor row of k, which it has locked.
PassAccounts(p, k) ==
  LET w == window[k]
      v == windowW[p][k] IN
  /\ v.consumed <= v.capacity
  /\ ChargedBy(p, k) = {} => v = w
  /\ ChargedBy(p, k) # {} =>
       /\ v.start = WindowStart(now[p])
       /\ v.consumed >= Cardinality(ChargedBy(p, k))
                           + (IF w # NoWindow /\ w.start = v.start THEN w.consumed ELSE 0)

GovernorInv ==
  /\ \A p, q \in Pass : p # q => DOMAIN windowW[p] \cap DOMAIN windowW[q] = {}
  /\ \A p \in Pass : \A j \in jobsW[p] : j.policy # NoPolicy => j.policy.key \in DOMAIN windowW[p]
  /\ \A k \in Key \ overtaken : WindowAccounts(k)
  /\ \A p \in Pass : \A k \in DOMAIN windowW[p] : k \notin overtaken => PassAccounts(p, k)

-----------------------------------------------------------------------------
(* The rows, the jobs and the plans.                                        *)

\* The empty database of the first start satisfies the invariant.
LEMMA SchedulerInit == Init => SchedulerInv
<1> SUFFICES ASSUME Init PROVE SchedulerInv
  BY Zenon
<1> USE DEF Init, Empty
<1>1. Typed
  BY RecurringAssumption, FS_EmptySet DEF Typed, TypeOK, NoWindow, WindowRow
<1>2. LocksAgree
  BY Zenon DEF LocksAgree
<1>3. JobsAgree /\ RepeatedOnlyAfterResume
  BY Zenon DEF JobsAgree, RepeatedOnlyAfterResume
<1>4. PlansAgree
  BY Zenon DEF PlansAgree
<1>5. PoliciesAgree
  BY Zenon DEF PoliciesAgree
<1> QED BY <1>1, <1>2, <1>3, <1>4, <1>5, Zenon DEF SchedulerInv

\* ORDER BY next_run_at, id has a first row.
LEMMA CurrentIsTodo ==
  ASSUME Typed, NEW p \in Pass, todo[p] # {}
  PROVE  Current(p) \in todo[p]
<1> DEFINE times == {next[s] : s \in todo[p]}
           first == {s \in todo[p] : next[s] = Min(times)}
<1>1. todo[p] \subseteq Nat /\ \A s \in todo[p] : next[s] \in Nat
  BY RecurringAssumption, Zenon DEF Typed, TypeOK
<1>2. times \in SUBSET Nat /\ times # {}
  BY <1>1, Zenon
<1>3. Min(times) \in times /\ \A t \in times : Min(times) <= t
  <2> HIDE DEF times
  <2> QED BY <1>2, NatMin, Zenon
<1>4. first \in SUBSET Nat /\ first # {}
  BY <1>1, <1>3, Zenon
<1>5. PICK s \in first : \A u \in first : s <= u
  <2> HIDE DEF first
  <2> QED BY <1>4, NatMin, Zenon
<1>6. ASSUME NEW u \in todo[p] \ {s}
      PROVE  Before(s, u)
  <2>1. next[s] <= next[u]
    BY <1>3, Zenon
  <2>2. next[s] = next[u] => s <= u
    BY <1>5, Zenon
  <2> QED BY <2>1, <2>2, <1>1 DEF Before
<1> QED BY <1>6, Zenon DEF Current

\* The row that a pass treats: the job it stages, if any, the time the row moves
\* to, and the governor rows as the pass leaves them.
Staged(p, s) ==
  {[schedule |-> s, n |-> Fired(s) + 1, at |-> next[s], now |-> now[p], policy |-> policy[s]]}

Treats(p, s, J, n, W) ==
  /\ nextW' = [nextW EXCEPT ![p] = Put(nextW[p], s, n)]
  /\ todo' = [todo EXCEPT ![p] = todo[p] \ {s}]
  /\ jobsW' = [jobsW EXCEPT ![p] = jobsW[p] \cup J]
  /\ DOMAIN windowW' = Pass /\ windowW'[p] = W
  /\ \A q \in Pass \ {p} : windowW'[q] = windowW[q]
  /\ UNCHANGED <<clock, tables, resuming, pc, now, locked>>

\* A treated row keeps the invariant.
LEMMA TreatKeeps ==
  ASSUME SchedulerInv,
         NEW p \in Pass, pc[p] = "fire", NEW s \in todo[p],
         NEW J, J = {} \/ J = Staged(p, s),
         NEW n \in Nat, now[p] < n, Planned(s, n),
         NEW W, DOMAIN W \subseteq Key, \A k \in DOMAIN W : W[k] \in WindowRow /\ Registered(W[k], k),
         Treats(p, s, J, n, W)
  PROVE  SchedulerInv'
<1> USE DEF SchedulerInv, Treats, tables, history
<1>1. s \in Schedule /\ s \in rows /\ s \in locked[p]
  BY Zenon DEF Typed, TypeOK, LocksAgree
<1>2. Fired(s) + 1 \in Nat
  <2>1. IsFiniteSet({j \in jobs : j.schedule = s})
    BY FS_Subset, Zenon DEF Typed
  <2> QED BY <2>1, FS_CardinalityType DEF Fired
<1>3. J \subseteq Job /\ IsFiniteSet(J)
  <2>1. next[s] \in Nat /\ now[p] \in Nat /\ policy[s] \in Policies \cup {NoPolicy}
    BY <1>1, Zenon DEF Typed, TypeOK
  <2>2. Staged(p, s) \subseteq Job
    BY <1>1, <1>2, <2>1 DEF Staged, Job
  <2>3. IsFiniteSet(Staged(p, s))
    BY FS_Singleton, Zenon DEF Staged
  <2> QED BY <2>2, <2>3, FS_EmptySet, Zenon
<1>4. DOMAIN Put(nextW[p], s, n) = DOMAIN nextW[p] \cup {s}
  BY Zenon DEF Put
<1>5. ASSUME NEW u \in DOMAIN Put(nextW[p], s, n)
      PROVE  Put(nextW[p], s, n)[u] = IF u = s THEN n ELSE nextW[p][u]
  BY <1>4, Zenon DEF Put
<1>6. nextW'[p] = Put(nextW[p], s, n) /\ todo'[p] = todo[p] \ {s} /\ windowW'[p] = W
      /\ jobsW'[p] = jobsW[p] \cup J
  BY Zenon DEF Typed
<1>7. ASSUME NEW q \in Pass, q # p
      PROVE  nextW'[q] = nextW[q] /\ todo'[q] = todo[q] /\ windowW'[q] = windowW[q] /\ jobsW'[q] = jobsW[q]
  BY <1>7, Zenon DEF Typed
<1> HIDE DEF Put
<1>8. Typed'
  <2>1. IsFiniteSet(jobsW'[p])
    BY <1>3, <1>6, FS_Union, Zenon DEF Typed
  <2>2. TypeOK'
    BY <1>1, <1>3, <1>4, <1>6, <1>7, Zenon DEF Typed, TypeOK
  <2> QED BY <1>3, <1>4, <1>5, <1>6, <1>7, <2>1, <2>2, Zenon DEF Typed
<1>9. LocksAgree'
  BY <1>1, <1>4, <1>5, <1>6, <1>7 DEF LocksAgree
<1>10. JobsAgree'
  <2>1. ASSUME NEW j \in J
        PROVE  j.schedule = s /\ j.at = next[s] /\ j.now = now[p] /\ j.policy = policy[s]
    BY DEF Staged
  <2>2. \A j \in jobsW[p] : j.schedule # s
    BY DEF JobsAgree, LocksAgree
  <2>3. \A i, j \in J : i = j
    BY Zenon DEF Staged
  <2> QED BY <1>4, <1>6, <1>7, <2>1, <2>2, <2>3 DEF JobsAgree
<1>11. PlansAgree'
  BY <1>4, <1>5, <1>6, <1>7 DEF PlansAgree, Planned
<1>12. PoliciesAgree'
  BY <1>6, <1>7 DEF PoliciesAgree, Registered
<1> QED BY <1>8, <1>9, <1>10, <1>11, <1>12, Zenon DEF RepeatedOnlyAfterResume

\* A governor row that a pass may see is typed and carries a registered policy.
LEMMA SeenIsRegistered ==
  ASSUME SchedulerInv, NEW p \in Pass, NEW k \in Key
  PROVE  /\ Seen(p, k) \in WindowRow
         /\ Seen(p, k) # NoWindow => Registered(Seen(p, k), k)
BY Zenon DEF SchedulerInv, Typed, TypeOK, PoliciesAgree, Seen

\* What consume_window leaves of the row: typed, and of the pass's policy.
LEMMA ConsumedIsRegistered ==
  ASSUME SchedulerInv, NEW p \in Pass, NEW s \in rows, policy[s] # NoPolicy
  PROVE  LET c == Consumed(Seen(p, policy[s].key), now[p], policy[s].capacity)
         IN  c \in WindowRow /\ c # NoWindow /\ Registered(c, policy[s].key)
<1> DEFINE d == policy[s]
           w == Seen(p, d.key)
<1>1. d \in Policies /\ d.key \in Key /\ d.capacity \in Nat \ {0} /\ now[p] \in Nat
  BY RecurringAssumption, Zenon DEF SchedulerInv, Typed, TypeOK, Key
<1>2. w \in WindowRow /\ WindowStart(now[p]) \in Nat
  BY <1>1, SeenIsRegistered, WindowBounds, Zenon
<1> HIDE DEF w
<1>3. Consumed(w, now[p], d.capacity) \in WindowRow
  BY <1>1, <1>2 DEF Consumed, WindowRow
<1>4. Consumed(w, now[p], d.capacity).capacity = d.capacity
  BY Zenon DEF Consumed
<1>5. Consumed(w, now[p], d.capacity) # NoWindow
  BY <1>1, <1>4 DEF NoWindow
<1>6. Registered(Consumed(w, now[p], d.capacity), d.key)
  BY <1>4, Zenon DEF Registered
<1> QED BY <1>3, <1>5, <1>6, Zenon DEF w

\* Puts one governor row into the pass's.
LEMMA PutGovernor ==
  ASSUME SchedulerInv, NEW p \in Pass, NEW k \in Key, NEW c \in WindowRow, Registered(c, k)
  PROVE  LET W == Put(windowW[p], k, c)
         IN  DOMAIN W \subseteq Key /\ \A l \in DOMAIN W : W[l] \in WindowRow /\ Registered(W[l], l)
<1> DEFINE W == Put(windowW[p], k, c)
<1>1. DOMAIN W = DOMAIN windowW[p] \cup {k}
  BY Zenon DEF Put
<1>2. \A l \in DOMAIN W : W[l] = IF l = k THEN c ELSE windowW[p][l]
  BY Zenon DEF Put
<1> HIDE DEF W
<1>3. DOMAIN W \subseteq Key /\ \A l \in DOMAIN W : W[l] \in WindowRow /\ Registered(W[l], l)
  BY <1>1, <1>2, Zenon DEF SchedulerInv, Typed, TypeOK, PoliciesAgree
<1> QED BY <1>3, Zenon DEF W

\* A pass that takes its next row (fire_due_inner) holds a locked, registered row.
LEMMA RunsCurrent ==
  ASSUME SchedulerInv, NEW p \in Pass, Runs(p)
  PROVE  /\ pc[p] = "fire" /\ Current(p) \in todo[p]
         /\ Current(p) \in rows /\ Current(p) \in Schedule /\ now[p] \in Nat
         /\ policy[Current(p)] # NoPolicy => policy[Current(p)].key \in Key
<1>1. pc[p] = "fire" /\ Current(p) \in todo[p]
  BY CurrentIsTodo, Zenon DEF Runs, SchedulerInv
<1>2. Current(p) \in rows /\ Current(p) \in Schedule /\ now[p] \in Nat
  BY <1>1, Zenon DEF SchedulerInv, Typed, TypeOK, LocksAgree
<1> QED BY <1>1, <1>2, Zenon DEF SchedulerInv, Typed, TypeOK, Key

\* fire_due_inner stages one job and plans the next occurrence.
LEMMA StageTreats ==
  ASSUME NEW p, NEW s, StageAndAdvance(p, s)
  PROVE  /\ HasNext(s, now[p])
         /\ jobsW' = [jobsW EXCEPT ![p] = jobsW[p] \cup Staged(p, s)]
         /\ nextW' = [nextW EXCEPT ![p] = Put(nextW[p], s, NextAfter(s, now[p]))]
         /\ todo' = [todo EXCEPT ![p] = todo[p] \ {s}]
BY Zenon DEF StageAndAdvance, Staged

\* fire_due_inner without a policy keeps the invariant.
LEMMA FireUngovernedKeeps ==
  ASSUME SchedulerInv, NEW p \in Pass, FireUngoverned(p)
  PROVE  SchedulerInv'
<1> DEFINE s == Current(p)
<1>1. s \in todo[p] /\ pc[p] = "fire" /\ s \in Schedule
  BY RunsCurrent, Zenon DEF FireUngoverned
<1>2. Treats(p, s, Staged(p, s), NextAfter(s, now[p]), windowW[p])
  BY StageTreats, Zenon DEF FireUngoverned, Treats, SchedulerInv, Typed
<1>3. /\ NextAfter(s, now[p]) \in Nat /\ now[p] < NextAfter(s, now[p])
      /\ Planned(s, NextAfter(s, now[p]))
  <2>1. now[p] \in Nat
    BY Zenon DEF SchedulerInv, Typed, TypeOK
  <2> QED BY <1>1, <2>1, NextAfterIsLater, StageTreats, Zenon DEF FireUngoverned, Planned
<1>4. DOMAIN windowW[p] \subseteq Key
      /\ \A k \in DOMAIN windowW[p] : windowW[p][k] \in WindowRow /\ Registered(windowW[p][k], k)
  BY Zenon DEF SchedulerInv, Typed, TypeOK, PoliciesAgree
<1> HIDE DEF s
<1> QED BY <1>1, <1>2, <1>3, <1>4, TreatKeeps, Zenon

\* fire_due_inner with capacity left keeps the invariant.
LEMMA FireGovernedKeeps ==
  ASSUME SchedulerInv, NEW p \in Pass, FireGoverned(p)
  PROVE  SchedulerInv'
<1> DEFINE s == Current(p)
           c == Consumed(Seen(p, policy[s].key), now[p], policy[s].capacity)
           W == Put(windowW[p], policy[s].key, c)
<1>1. s \in todo[p] /\ pc[p] = "fire" /\ s \in Schedule /\ s \in rows /\ policy[s] # NoPolicy
      /\ policy[s].key \in Key /\ now[p] \in Nat
  BY RunsCurrent, Zenon DEF FireGoverned
<1>2. Treats(p, s, Staged(p, s), NextAfter(s, now[p]), W)
  BY StageTreats, Zenon DEF FireGoverned, Treats, SchedulerInv, Typed
<1>3. /\ NextAfter(s, now[p]) \in Nat /\ now[p] < NextAfter(s, now[p])
      /\ Planned(s, NextAfter(s, now[p]))
  BY <1>1, NextAfterIsLater, StageTreats, Zenon DEF FireGoverned, Planned
<1>4. DOMAIN W \subseteq Key /\ \A k \in DOMAIN W : W[k] \in WindowRow /\ Registered(W[k], k)
  <2>1. c \in WindowRow /\ Registered(c, policy[s].key)
    BY <1>1, ConsumedIsRegistered, Zenon
  <2> HIDE DEF c
  <2> QED BY <1>1, <2>1, PutGovernor, Zenon
<1> HIDE DEF s, W
<1> QED BY <1>1, <1>2, <1>3, <1>4, TreatKeeps, Zenon

\* fire_due_inner without capacity (defer_schedule) keeps the invariant.
LEMMA DeferKeeps ==
  ASSUME SchedulerInv, NEW p \in Pass, Defer(p)
  PROVE  SchedulerInv'
<1> DEFINE s == Current(p)
           c == Seen(p, policy[s].key)
           W == Put(windowW[p], policy[s].key, c)
<1>1. s \in todo[p] /\ pc[p] = "fire" /\ s \in Schedule /\ s \in rows /\ policy[s] # NoPolicy
      /\ policy[s].key \in Key /\ now[p] \in Nat
  BY RunsCurrent, Zenon DEF Defer
<1>2. Treats(p, s, {}, NextWindow(now[p]), W)
  BY Zenon DEF Defer, Treats, SchedulerInv, Typed
<1>3. NextWindow(now[p]) \in Nat /\ now[p] < NextWindow(now[p]) /\ Planned(s, NextWindow(now[p]))
  BY <1>1, WindowBounds, Zenon DEF Planned
<1>4. DOMAIN W \subseteq Key /\ \A k \in DOMAIN W : W[k] \in WindowRow /\ Registered(W[k], k)
  <2>1. c \in WindowRow /\ Registered(c, policy[s].key)
    BY <1>1, SeenIsRegistered, Zenon DEF Defer, Allowed
  <2> HIDE DEF c
  <2> QED BY <1>1, <2>1, PutGovernor, Zenon
<1> HIDE DEF s, W
<1> QED BY <1>1, <1>2, <1>3, <1>4, TreatKeeps, Zenon

\* The clock, and the start of a resume.
LEMMA TickKeeps ==
  ASSUME SchedulerInv, Tick
  PROVE  SchedulerInv'
<1> USE DEF SchedulerInv, Tick, tables, history, passes
<1>1. Typed'
  BY RecurringAssumption DEF Typed, TypeOK
<1>2. LocksAgree' /\ JobsAgree'
  BY Zenon DEF LocksAgree, JobsAgree
<1>3. PlansAgree' /\ PoliciesAgree' /\ RepeatedOnlyAfterResume'
  BY DEF PlansAgree, Planned, PoliciesAgree, Registered, RepeatedOnlyAfterResume
<1> QED BY <1>1, <1>2, <1>3, Zenon

\* A resume call that has only read its clock changes no row.
LEMMA BeginResumeKeeps ==
  ASSUME SchedulerInv, NEW s \in Schedule, BeginResume(s)
  PROVE  SchedulerInv'
<1> USE DEF SchedulerInv, BeginResume, tables, history, passes
<1>1. Typed'
  BY RecurringAssumption DEF Typed, TypeOK
<1>2. LocksAgree' /\ JobsAgree'
  BY Zenon DEF LocksAgree, JobsAgree
<1>3. PlansAgree' /\ PoliciesAgree' /\ RepeatedOnlyAfterResume'
  BY DEF PlansAgree, Planned, PoliciesAgree, Registered, RepeatedOnlyAfterResume
<1> QED BY <1>1, <1>2, <1>3, Zenon

\* A new row has no job, no lock and no window of another policy.
LEMMA RegisterKeeps ==
  ASSUME SchedulerInv, NEW s \in Schedule, NEW d \in Policies \cup {NoPolicy}, Register(s, d)
  PROVE  SchedulerInv'
<1> USE DEF SchedulerInv, Register, history, passes
<1>1. NextAfter(s, clock) \in Nat /\ NextAfter(s, clock) \in Cron[s]
  BY NextAfterIsLater, Zenon
<1>2. \A u \in rows : u # s /\ policy'[u] = policy[u] /\ next'[u] = next[u]
  BY Zenon DEF Typed, TypeOK
<1>3. policy'[s] = d /\ next'[s] = NextAfter(s, clock)
  BY Zenon DEF Typed, TypeOK
<1>4. \A p \in Pass : locked[p] \subseteq rows /\ DOMAIN nextW[p] \subseteq rows
  BY Zenon DEF Typed, TypeOK, LocksAgree
<1>5. Typed'
  BY <1>1, Zenon DEF Typed, TypeOK
<1>6. LocksAgree'
  BY <1>2, <1>4, Zenon DEF LocksAgree
<1>7. JobsAgree' /\ RepeatedOnlyAfterResume'
  BY <1>2, <1>4 DEF JobsAgree, RepeatedOnlyAfterResume
<1>8. PlansAgree'
  BY <1>1, <1>2, <1>3, <1>4 DEF PlansAgree, Planned, Typed, TypeOK
<1>9. PoliciesAgree'
  <2>1. \A w, k : Registered(w, k) => Registered(w, k)'
    BY <1>2, Zenon DEF Registered
  <2>2. \A u, v \in rows' : policy'[u] # NoPolicy /\ policy'[v] # NoPolicy /\ policy'[v].key = policy'[u].key
                              => policy'[v] = policy'[u]
    BY <1>2, <1>3 DEF PoliciesAgree, PolicyAgrees
  <2> QED BY <2>1, <2>2, Zenon DEF PoliciesAgree
<1> QED BY <1>5, <1>6, <1>7, <1>8, <1>9, Zenon

\* Pause and resume meet no lock.
LEMMA PauseKeeps ==
  ASSUME SchedulerInv, NEW s \in Schedule, Pause(s)
  PROVE  SchedulerInv'
<1> USE DEF SchedulerInv, Pause, history, passes
<1>1. Typed'
  BY Zenon DEF Typed, TypeOK
<1>2. LocksAgree'
  BY Zenon DEF LocksAgree, Unlocked
<1>3. JobsAgree' /\ RepeatedOnlyAfterResume'
  BY Zenon DEF JobsAgree, RepeatedOnlyAfterResume
<1>4. PlansAgree' /\ PoliciesAgree'
  BY DEF PlansAgree, Planned, PoliciesAgree, Registered
<1> QED BY <1>1, <1>2, <1>3, <1>4, Zenon

\* resume plans an occurrence after the clock it read and keeps the invariant.
LEMMA ResumeKeeps ==
  ASSUME SchedulerInv, NEW call \in resuming, Resume(call[1], call[2])
  PROVE  SchedulerInv'
<1> DEFINE s == call[1]
           t == call[2]
<1> USE DEF SchedulerInv, history, passes
<1>1. s \in Schedule /\ resuming' \subseteq resuming
  BY Zenon DEF Typed, TypeOK, Resume
<1>2. CASE s \in rows \ enabled /\ HasNext(s, t)
  <2>1. /\ enabled' = enabled \cup {s} /\ resumed' = resumed \cup {s}
        /\ next' = [next EXCEPT ![s] = NextAfter(s, t)]
        /\ UNCHANGED <<clock, rows, policy, window, jobs, overtaken, passes>>
    BY <1>2, Zenon DEF Resume
  <2>2. NextAfter(s, t) \in Nat /\ NextAfter(s, t) \in Cron[s]
    BY <1>1, <1>2, NextAfterIsLater, Zenon
  <2>3. next'[s] = NextAfter(s, t) /\ \A u \in rows : u # s => next'[u] = next[u]
    BY <1>1, <2>1, Zenon DEF Typed, TypeOK
  <2>4. \A p \in Pass : s \notin locked[p] /\ s \notin DOMAIN nextW[p]
    BY Zenon DEF Resume, Unlocked, LocksAgree
  <2>5. \A p \in Pass : locked[p] \subseteq rows /\ DOMAIN nextW[p] \subseteq rows
    BY Zenon DEF Typed, TypeOK, LocksAgree
  <2> HIDE DEF s, t
  <2>6. Typed'
    BY <1>1, <1>2, <2>1, <2>2, Zenon DEF Typed, TypeOK
  <2>7. LocksAgree'
    BY <2>1, <2>3, <2>4, <2>5, Zenon DEF LocksAgree
  <2>8. JobsAgree' /\ RepeatedOnlyAfterResume'
    BY <2>1, <2>3, <2>4, <2>5 DEF JobsAgree, RepeatedOnlyAfterResume
  <2>9. PlansAgree'
    BY <2>1, <2>2, <2>3, <2>4, <2>5 DEF PlansAgree, Planned, Typed, TypeOK
  <2>10. PoliciesAgree'
    BY <2>1 DEF PoliciesAgree, Registered
  <2> QED BY <2>6, <2>7, <2>8, <2>9, <2>10, Zenon
<1>3. CASE ~(s \in rows \ enabled /\ HasNext(s, t))
  <2>1. UNCHANGED <<clock, rows, policy, next, enabled, window, jobs, resumed, overtaken, passes>>
    BY <1>3, Zenon DEF Resume
  <2>2. Typed'
    BY <1>1, <2>1, Zenon DEF Typed, TypeOK
  <2>3. LocksAgree' /\ JobsAgree' /\ RepeatedOnlyAfterResume'
    BY <2>1, Zenon DEF LocksAgree, JobsAgree, RepeatedOnlyAfterResume
  <2>4. PlansAgree' /\ PoliciesAgree'
    BY <2>1 DEF PlansAgree, Planned, PoliciesAgree, Registered
  <2> QED BY <2>2, <2>3, <2>4, Zenon
<1> QED BY <1>2, <1>3, Zenon

\* A pass that has not selected holds nothing.
LEMMA NothingHeld ==
  ASSUME SchedulerInv, NEW p \in Pass, pc[p] # "fire"
  PROVE  /\ locked[p] = {} /\ todo[p] = {} /\ DOMAIN nextW[p] = {}
         /\ DOMAIN windowW[p] = {} /\ jobsW[p] = {}
BY DEF SchedulerInv, LocksAgree, JobsAgree

\* The start of a pass (begin, clock read) keeps the invariant.
LEMMA BeginKeeps ==
  ASSUME SchedulerInv, NEW p \in Pass, Begin(p)
  PROVE  SchedulerInv'
<1> USE DEF SchedulerInv, Begin, tables, history
<1>1. /\ locked[p] = {} /\ todo[p] = {} /\ DOMAIN nextW[p] = {}
      /\ DOMAIN windowW[p] = {} /\ jobsW[p] = {}
  BY NothingHeld, Zenon
<1>2. pc'[p] = "select" /\ \A q \in Pass : q # p => pc'[q] = pc[q] /\ now'[q] = now[q]
  BY Zenon DEF Typed, TypeOK
<1>3. Typed'
  BY RecurringAssumption DEF Typed, TypeOK
<1>4. LocksAgree' /\ JobsAgree' /\ RepeatedOnlyAfterResume'
  BY <1>1, <1>2 DEF LocksAgree, JobsAgree, RepeatedOnlyAfterResume
<1>5. PlansAgree' /\ PoliciesAgree'
  BY DEF PlansAgree, Planned, PoliciesAgree, Registered
<1> QED BY <1>3, <1>4, <1>5, Zenon

\* SKIP LOCKED: the rows a pass locks are locked by no other.
LEMMA SelectKeeps ==
  ASSUME SchedulerInv, NEW p \in Pass, Select(p)
  PROVE  SchedulerInv'
<1> USE DEF SchedulerInv, tables, history
<1>1. /\ locked[p] = {} /\ todo[p] = {} /\ DOMAIN nextW[p] = {}
      /\ DOMAIN windowW[p] = {} /\ jobsW[p] = {}
  BY NothingHeld, Zenon DEF Select
<1>2. PICK S \in SUBSET Claimable(p) : /\ locked' = [locked EXCEPT ![p] = S]
                                       /\ todo' = [todo EXCEPT ![p] = S]
  BY Zenon DEF Select
<1>3. pc' = [pc EXCEPT ![p] = "fire"]
      /\ UNCHANGED <<clock, tables, resuming, now, nextW, windowW, jobsW>>
  BY Zenon DEF Select
<1>4. S \subseteq enabled /\ S \subseteq Schedule /\ S \subseteq rows
      /\ \A s \in S : next[s] <= now[p] /\ \A q \in Pass : s \notin locked[q]
  BY Zenon DEF Claimable, Unlocked, Typed, TypeOK
<1>5. pc'[p] = "fire" /\ locked'[p] = S /\ todo'[p] = S
      /\ \A q \in Pass : q # p => pc'[q] = pc[q] /\ locked'[q] = locked[q] /\ todo'[q] = todo[q]
  BY <1>2, <1>3, Zenon DEF Typed, TypeOK
<1>6. Typed'
  BY <1>1, <1>2, <1>3, <1>4, <1>5, Zenon DEF Typed, TypeOK
<1>7. LocksAgree'
  BY <1>1, <1>3, <1>4, <1>5, Zenon DEF LocksAgree
<1>8. JobsAgree' /\ RepeatedOnlyAfterResume'
  BY <1>3, Zenon DEF JobsAgree, RepeatedOnlyAfterResume
<1>9. PlansAgree' /\ PoliciesAgree'
  BY <1>3 DEF PlansAgree, Planned, PoliciesAgree, Registered
<1> QED BY <1>6, <1>7, <1>8, <1>9, Zenon

\* A pass that ends, either way, holds nothing; the others hold what they did.
LEMMA EndedPass ==
  ASSUME Typed, NEW p \in Pass, EndPass(p)
  PROVE  /\ pc'[p] = "idle" /\ now'[p] = 0 /\ locked'[p] = {} /\ todo'[p] = {}
         /\ DOMAIN nextW'[p] = {} /\ DOMAIN windowW'[p] = {} /\ jobsW'[p] = {}
         /\ \A q \in Pass : q # p =>
              /\ pc'[q] = pc[q] /\ now'[q] = now[q] /\ locked'[q] = locked[q] /\ todo'[q] = todo[q]
              /\ nextW'[q] = nextW[q] /\ windowW'[q] = windowW[q] /\ jobsW'[q] = jobsW[q]
         /\ pc' \in [Pass -> {"idle", "select", "fire"}] /\ now' \in [Pass -> Nat]
         /\ locked' \in [Pass -> SUBSET Schedule] /\ todo' \in [Pass -> SUBSET Schedule]
         /\ jobsW' \in [Pass -> SUBSET Job] /\ DOMAIN nextW' = Pass /\ DOMAIN windowW' = Pass
BY Zenon DEF EndPass, Empty, Typed, TypeOK

\* A rolled back pass gives back its locks and leaves the tables as they were.
LEMMA AbortKeeps ==
  ASSUME SchedulerInv, NEW p \in Pass, Abort(p)
  PROVE  SchedulerInv'
<1> USE DEF SchedulerInv, tables, history
<1>1. UNCHANGED <<clock, tables, resuming>>
  BY Zenon DEF Abort
<1>2. EndPass(p)
  BY Zenon DEF Abort
<1>3. Typed'
  <2>1. TypeOK'
    BY <1>1, <1>2, EndedPass, Zenon DEF Typed, TypeOK
  <2>2. \A q \in Pass : IsFiniteSet(jobsW'[q])
    BY <1>2, EndedPass, FS_EmptySet, Zenon DEF Typed
  <2> QED BY <1>1, <1>2, <2>1, <2>2, EndedPass, Zenon DEF Typed
<1>4. LocksAgree'
  BY <1>1, <1>2, EndedPass, ZenonT(30) DEF LocksAgree
<1>5. JobsAgree' /\ RepeatedOnlyAfterResume'
  BY <1>1, <1>2, EndedPass DEF JobsAgree, RepeatedOnlyAfterResume
<1>6. PlansAgree' /\ PoliciesAgree'
  BY <1>1, <1>2, EndedPass DEF PlansAgree, Planned, PoliciesAgree, Registered
<1> QED BY <1>3, <1>4, <1>5, <1>6, Zenon

\* A commit moves every row the pass had locked past the pass's clock.
LEMMA CommitKeeps ==
  ASSUME SchedulerInv, NEW p \in Pass, Commit(p)
  PROVE  SchedulerInv'
<1> USE DEF SchedulerInv
<1>1. /\ UNCHANGED <<clock, rows, policy, enabled, resuming, resumed>>
      /\ jobs' = jobs \cup jobsW[p] /\ EndPass(p) /\ overtaken' \subseteq overtaken \cup DOMAIN windowW[p]
  BY Zenon DEF Commit
<1>2. DOMAIN nextW[p] = locked[p]
  BY Zenon DEF Commit, LocksAgree
<1>3. \A s \in Schedule : next'[s] = IF s \in locked[p] THEN nextW[p][s] ELSE next[s]
  BY <1>2, Zenon DEF Commit
<1>4. \A s \in locked[p] : s \in Schedule /\ next[s] <= now[p] /\ now[p] < nextW[p][s]
                           /\ nextW[p][s] \in Nat /\ next[s] \in Nat
  BY <1>2, Zenon DEF LocksAgree, Typed, TypeOK
<1>5. \A k \in Key : window'[k] = Seen(p, k)
  BY Zenon DEF Commit
<1>6. ASSUME NEW j \in jobsW[p]
      PROVE  /\ j \in Job /\ j.schedule \in locked[p] /\ j.at = next[j.schedule] /\ j.now = now[p]
             /\ j.policy = policy[j.schedule]
             /\ \A i \in jobsW[p] : i.schedule = j.schedule => i = j
  BY <1>2, Zenon DEF JobsAgree, Typed
<1>7. Typed'
  <2>1. next' \in [Schedule -> Nat]
    BY <1>2, <1>4, Zenon DEF Commit, Typed, TypeOK
  <2>2. window' \in [Key -> WindowRow]
    BY SeenIsRegistered, Zenon DEF Commit
  <2>3. jobs' \subseteq Job
    BY <1>1, <1>6, Zenon DEF Typed, TypeOK
  <2>4. TypeOK'
    BY <1>1, <2>1, <2>2, <2>3, EndedPass, Zenon DEF Typed, TypeOK
  <2>5. IsFiniteSet(jobs')
    BY <1>1, FS_Union, Zenon DEF Typed
  <2>6. \A q \in Pass : IsFiniteSet(jobsW'[q])
    BY <1>1, EndedPass, FS_EmptySet, Zenon DEF Typed
  <2> QED BY <1>1, <2>4, <2>5, <2>6, EndedPass, Zenon DEF Typed
<1>8. \A q \in Pass : q # p => \A s \in locked[q] : next'[s] = next[s]
  BY <1>3, Zenon DEF LocksAgree, Typed
<1>9. LocksAgree'
  BY <1>1, <1>8, EndedPass DEF LocksAgree
<1>10. JobsAgree'
  <2>1. \A q \in Pass : \A j \in jobsW'[q] : q # p /\ j \in jobsW[q] /\ j.schedule \in locked[q]
    BY <1>1, EndedPass, Zenon DEF JobsAgree, LocksAgree
  <2>2. ASSUME NEW q \in Pass, NEW j \in jobsW'[q]
        PROVE  /\ j.schedule \in DOMAIN nextW'[q]
               /\ j.at = next'[j.schedule] /\ j.now = now'[q] /\ j.policy = policy'[j.schedule]
               /\ \A i \in jobsW'[q] : i.schedule = j.schedule => i = j
    BY <1>1, <1>8, <2>1, EndedPass DEF JobsAgree
  <2>3. ASSUME NEW j \in jobsW[p]
        PROVE  j.schedule \in rows' /\ j.at <= j.now /\ j.policy = policy'[j.schedule]
               /\ j.now < next'[j.schedule]
    BY <1>1, <1>3, <1>4, <1>6, Zenon DEF Typed, TypeOK
  <2>4. ASSUME NEW j \in jobs
        PROVE  j.schedule \in rows' /\ j.at <= j.now /\ j.policy = policy'[j.schedule]
               /\ (j.schedule \notin resumed' => j.now < next'[j.schedule])
    <3>1. j.now \in Nat /\ j.schedule \in Schedule
      BY Zenon DEF Typed, TypeOK, Job
    <3>2. now[p] \in Nat
      BY Zenon DEF Typed, TypeOK
    <3> QED BY <1>1, <1>3, <1>4, <3>1, <3>2 DEF JobsAgree
  <2> QED BY <1>1, <2>2, <2>3, <2>4, Zenon DEF JobsAgree
<1>11. RepeatedOnlyAfterResume'
  <2> SUFFICES ASSUME NEW i \in jobs', NEW j \in jobs', i # j, i.schedule = j.schedule,
                      i.schedule \notin resumed
               PROVE  i.now < j.at \/ j.now < i.at
    BY <1>1, Zenon DEF RepeatedOnlyAfterResume
  <2>1. CASE i \in jobs /\ j \in jobs
    BY <2>1, Zenon DEF RepeatedOnlyAfterResume
  <2>2. CASE i \in jobs /\ j \in jobsW[p]
    BY <2>2, <1>6 DEF JobsAgree
  <2>3. CASE i \in jobsW[p] /\ j \in jobs
    BY <2>3, <1>6 DEF JobsAgree
  <2>4. CASE i \in jobsW[p] /\ j \in jobsW[p]
    BY <2>4, <1>6, Zenon
  <2> QED BY <1>1, <2>1, <2>2, <2>3, <2>4, Zenon
<1>12. PlansAgree'
  <2>1. \A s \in enabled : s \in Schedule /\ Planned(s, next'[s])
    BY <1>2, <1>3, Zenon DEF PlansAgree, Typed, TypeOK
  <2> QED BY <1>1, <2>1, EndedPass DEF PlansAgree, Planned
<1>13. PoliciesAgree'
  <2>1. \A k \in Key : window'[k] # NoWindow => Registered(window'[k], k)
    BY <1>5, SeenIsRegistered, Zenon
  <2> QED BY <1>1, <2>1, EndedPass DEF PoliciesAgree, Registered
<1> QED BY <1>7, <1>9, <1>10, <1>11, <1>12, <1>13, Zenon

\* The rows, jobs, plans and policies agree in every reachable state.
THEOREM SchedulerInvHolds == Spec => []SchedulerInv
<1>1. SchedulerInv /\ [Next]_vars => SchedulerInv'
  <2> SUFFICES ASSUME SchedulerInv, [Next]_vars
               PROVE  SchedulerInv'
    BY ZenonT(30)
  <2>1. CASE UNCHANGED vars
    BY <2>1 DEF vars, SchedulerInv, Typed, TypeOK, LocksAgree, JobsAgree, PlansAgree, Planned,
                PoliciesAgree, Registered, RepeatedOnlyAfterResume
  <2> QED
    BY <2>1, TickKeeps, RegisterKeeps, PauseKeeps, BeginResumeKeeps, ResumeKeeps, BeginKeeps, SelectKeeps,
       FireUngovernedKeeps, FireGovernedKeeps, DeferKeeps, CommitKeeps, AbortKeeps, Zenon DEF Next
<1> QED BY <1>1, SchedulerInit, PTL DEF Spec

-----------------------------------------------------------------------------
(* The governor.                                                            *)

\* The number of charged jobs is a number.
LEMMA ChargedFinite ==
  ASSUME NEW js, IsFiniteSet(js), NEW k, NEW st
  PROVE  IsFiniteSet(Charged(js, k, st)) /\ Cardinality(Charged(js, k, st)) \in Nat
<1>1. IsFiniteSet(Charged(js, k, st))
  BY FS_Subset, Zenon DEF Charged
<1> QED BY <1>1, FS_CardinalityType, Zenon

\* A pass charges a key with finitely many jobs.
LEMMA ChargedByFinite ==
  ASSUME SchedulerInv, NEW p \in Pass, NEW k
  PROVE  IsFiniteSet(ChargedBy(p, k)) /\ Cardinality(ChargedBy(p, k)) \in Nat
<1>1. IsFiniteSet(ChargedBy(p, k))
  BY FS_Subset, Zenon DEF ChargedBy, SchedulerInv, Typed
<1> QED BY <1>1, FS_CardinalityType, Zenon

\* A registered governor row is of the one policy of its key.
LEMMA RegisteredIsPolicy ==
  ASSUME SchedulerInv, NEW s \in rows, policy[s] # NoPolicy, NEW w, Registered(w, policy[s].key)
  PROVE  w.capacity = policy[s].capacity
BY Zenon DEF SchedulerInv, PoliciesAgree, Registered

\* A registered policy has a key and a positive capacity.
LEMMA PolicyHasCapacity ==
  ASSUME SchedulerInv, NEW s \in rows, policy[s] # NoPolicy
  PROVE  policy[s] \in Policies /\ policy[s].key \in Key /\ policy[s].capacity \in Nat \ {0}
BY RecurringAssumption, Zenon DEF SchedulerInv, Typed, TypeOK, Key

\* A registered governor row exists and has a positive capacity.
LEMMA RegisteredIsRow ==
  ASSUME SchedulerInv, NEW w, NEW k, Registered(w, k)
  PROVE  w # NoWindow /\ w.capacity \in Nat \ {0}
<1>1. w.capacity \in Nat \ {0}
  BY PolicyHasCapacity, Zenon DEF Registered
<1> QED BY <1>1 DEF NoWindow

\* The first start has no governor row and no job.
LEMMA GovernorInit == Init => GovernorInv
<1> SUFFICES ASSUME Init PROVE GovernorInv
  BY Zenon
<1>1. ASSUME NEW k \in Key, NEW st PROVE Charged(jobs, k, st) = {}
  BY Zenon DEF Charged, Init
<1>2. ASSUME NEW k \in Key PROVE WindowAccounts(k)
  <2>1. window[k] = NoWindow /\ jobs = {}
    BY Zenon DEF Init
  <2>2. \A st : Cardinality(Charged(jobs, k, st)) = 0
    BY <1>1, FS_EmptySet, Zenon
  <2> QED BY <2>1, <2>2 DEF WindowAccounts, NoWindow
<1> QED BY <1>2, Zenon DEF GovernorInv, Init, Empty

\* What a pass or a stored row accounts for depends on little else.
LEMMA SameAccounts ==
  ASSUME NEW k, WindowAccounts(k), window'[k] = window[k],
         \A j : j.policy # NoPolicy /\ j.policy.key = k => (j \in jobs' <=> j \in jobs)
  PROVE  WindowAccounts(k)'
<1>1. ASSUME NEW st PROVE Charged(jobs', k, st) = Charged(jobs, k, st)
  BY Zenon DEF Charged
<1> QED BY <1>1, Zenon DEF WindowAccounts

\* A pass whose window, clock and charges stand keeps its accounts.
LEMMA SamePassAccounts ==
  ASSUME NEW p, NEW k, PassAccounts(p, k), window'[k] = window[k], windowW'[p][k] = windowW[p][k],
         now'[p] = now[p], ChargedBy(p, k)' = ChargedBy(p, k)
  PROVE  PassAccounts(p, k)'
BY Zenon DEF PassAccounts

\* The invariant reads the governor rows, the jobs and the clocks of the passes.
LEMMA GovernorUntouched ==
  ASSUME GovernorInv, UNCHANGED <<window, windowW, jobs, jobsW, overtaken, now>>
  PROVE  GovernorInv'
<1>1. \A p, k : ChargedBy(p, k)' = ChargedBy(p, k)
  BY Zenon DEF ChargedBy
<1> QED BY <1>1, SameAccounts, SamePassAccounts, Zenon DEF GovernorInv

\* A pass that starts charges nothing.
LEMMA GovernorBegin ==
  ASSUME SchedulerInv, GovernorInv, NEW p \in Pass, Begin(p)
  PROVE  GovernorInv'
<1>1. DOMAIN windowW[p] = {} /\ jobsW[p] = {}
  BY NothingHeld, Zenon DEF Begin
<1>2. UNCHANGED <<window, windowW, jobs, jobsW, overtaken>> /\ \A q \in Pass : q # p => now'[q] = now[q]
  BY Zenon DEF Begin, tables, history, SchedulerInv, Typed, TypeOK
<1>3. \A q, k : ChargedBy(q, k)' = ChargedBy(q, k)
  BY <1>2, Zenon DEF ChargedBy
<1> QED BY <1>1, <1>2, <1>3, SameAccounts, SamePassAccounts, Zenon DEF GovernorInv

\* A rolled back pass takes its charges with it.
LEMMA GovernorAbort ==
  ASSUME SchedulerInv, GovernorInv, NEW p \in Pass, Abort(p)
  PROVE  GovernorInv'
<1>1. UNCHANGED <<window, jobs, overtaken>> /\ EndPass(p) /\ Typed
  BY Zenon DEF Abort, tables, history, SchedulerInv
<1>2. ASSUME NEW q \in Pass, NEW k \in DOMAIN windowW'[q], k \notin overtaken
      PROVE  PassAccounts(q, k)'
  <2>1. q # p
    BY <1>1, EndedPass, Zenon
  <2>2. windowW'[q] = windowW[q] /\ jobsW'[q] = jobsW[q] /\ now'[q] = now[q]
    BY <1>1, <2>1, EndedPass, Zenon
  <2>3. ChargedBy(q, k)' = ChargedBy(q, k)
    BY <2>2, Zenon DEF ChargedBy
  <2> QED BY <1>1, <1>2, <2>2, <2>3, SamePassAccounts, Zenon DEF GovernorInv
<1>3. \A q \in Pass : \A j \in jobsW'[q] : j.policy # NoPolicy => j.policy.key \in DOMAIN windowW'[q]
  BY <1>1, EndedPass, Zenon DEF GovernorInv
<1>4. \A q, r \in Pass : q # r => DOMAIN windowW'[q] \cap DOMAIN windowW'[r] = {}
  BY <1>1, EndedPass, ZenonT(30) DEF GovernorInv
<1> QED BY <1>1, <1>2, <1>3, <1>4, SameAccounts, Zenon DEF GovernorInv

\* An ungoverned job charges no key.
LEMMA GovernorUngoverned ==
  ASSUME SchedulerInv, GovernorInv, NEW p \in Pass, FireUngoverned(p)
  PROVE  GovernorInv'
<1>1. UNCHANGED <<window, windowW, jobs, overtaken, now>>
      /\ jobsW' = [jobsW EXCEPT ![p] = jobsW[p] \cup Staged(p, Current(p))]
  BY StageTreats, Zenon DEF FireUngoverned, tables, history
<1>2. \A j \in Staged(p, Current(p)) : j.policy = NoPolicy
  BY DEF Staged, FireUngoverned
<1>3. ASSUME NEW q \in Pass, NEW k PROVE ChargedBy(q, k)' = ChargedBy(q, k)
  BY <1>1, <1>2, Zenon DEF ChargedBy, SchedulerInv, Typed
<1>4. \A q \in Pass : \A j \in jobsW'[q] : j.policy # NoPolicy => j.policy.key \in DOMAIN windowW'[q]
  BY <1>1, <1>2, Zenon DEF GovernorInv, SchedulerInv, Typed
<1> QED BY <1>1, <1>3, <1>4, SameAccounts, SamePassAccounts, Zenon DEF GovernorInv

\* A row of one key is put among the rows the pass has locked, and no other pass
\* has it; the other keys are as they were.
LEMMA GovernorTreat ==
  ASSUME SchedulerInv, GovernorInv,
         NEW p \in Pass, NEW s, NEW J, NEW n, NEW k \in Key, NEW c,
         Treats(p, s, J, n, Put(windowW[p], k, c)),
         \A q \in Pass \ {p} : k \notin DOMAIN windowW[q],
         \A j \in J : j.policy # NoPolicy /\ j.policy.key = k,
         k \notin overtaken => PassAccounts(p, k)'
  PROVE  GovernorInv'
<1> DEFINE W == Put(windowW[p], k, c)
<1>1. DOMAIN W = DOMAIN windowW[p] \cup {k} /\ \A l \in DOMAIN windowW[p] : l # k => W[l] = windowW[p][l]
  BY Zenon DEF Put
<1>2. UNCHANGED <<window, jobs, overtaken, now>> /\ windowW'[p] = W
      /\ \A q \in Pass : q # p => windowW'[q] = windowW[q]
  BY Zenon DEF Treats, tables, history
<1> HIDE DEF W
<1>3. jobsW'[p] = jobsW[p] \cup J /\ \A q \in Pass : q # p => jobsW'[q] = jobsW[q]
  BY Zenon DEF Treats, SchedulerInv, Typed
<1>4. ASSUME NEW q \in Pass, NEW l, q # p \/ l # k PROVE ChargedBy(q, l)' = ChargedBy(q, l)
  BY <1>3, <1>4, Zenon DEF ChargedBy
<1>5. ASSUME NEW q \in Pass, NEW l \in DOMAIN windowW'[q], l \notin overtaken
      PROVE  PassAccounts(q, l)'
  <2>1. CASE q = p /\ l = k
    BY <2>1, <1>5, Zenon
  <2>2. CASE q # p \/ l # k
    <3>1. l \in DOMAIN windowW[q] /\ windowW'[q][l] = windowW[q][l]
      BY <2>2, <1>1, <1>2, <1>5
    <3> QED BY <2>2, <1>2, <1>4, <1>5, <3>1, SamePassAccounts, Zenon DEF GovernorInv
  <2> QED BY <2>1, <2>2, Zenon
<1>6. \A q \in Pass : \A j \in jobsW'[q] : j.policy # NoPolicy => j.policy.key \in DOMAIN windowW'[q]
  BY <1>1, <1>2, <1>3 DEF GovernorInv
<1>7. \A q, r \in Pass : q # r => DOMAIN windowW'[q] \cap DOMAIN windowW'[r] = {}
  BY <1>1, <1>2 DEF GovernorInv
<1> QED BY <1>2, <1>5, <1>6, <1>7, SameAccounts, Zenon DEF GovernorInv

\* The upsert waits: whoever runs has the row of its key to itself.
LEMMA RunsAlone ==
  ASSUME NEW p \in Pass, Runs(p), policy[Current(p)] # NoPolicy
  PROVE  \A q \in Pass \ {p} : policy[Current(p)].key \notin DOMAIN windowW[q]
BY Zenon DEF Runs, Waits

\* The row a pass sees, and what it has charged to it so far.
LEMMA SeenAccounts ==
  ASSUME SchedulerInv, GovernorInv, NEW p \in Pass, NEW k \in Key \ overtaken
  PROVE  /\ Seen(p, k).consumed <= Seen(p, k).capacity
         /\ ChargedBy(p, k) = {} => Seen(p, k) = window[k]
         /\ ChargedBy(p, k) # {} =>
              /\ k \in DOMAIN windowW[p] /\ Seen(p, k) # NoWindow
              /\ Seen(p, k).start = WindowStart(now[p])
              /\ Seen(p, k).consumed >= Cardinality(ChargedBy(p, k))
                   + (IF window[k] # NoWindow /\ window[k].start = Seen(p, k).start
                      THEN window[k].consumed ELSE 0)
<1>1. CASE k \in DOMAIN windowW[p]
  <2>1. PassAccounts(p, k) /\ Seen(p, k) = windowW[p][k]
    BY <1>1, Zenon DEF GovernorInv, Seen
  <2>2. Seen(p, k) # NoWindow
    BY <1>1, <2>1, RegisteredIsRow, Zenon DEF SchedulerInv, PoliciesAgree
  <2> QED BY <1>1, <2>1, <2>2, Zenon DEF PassAccounts
<1>2. CASE k \notin DOMAIN windowW[p]
  <2>1. WindowAccounts(k) /\ Seen(p, k) = window[k]
    BY <1>2, Zenon DEF GovernorInv, Seen
  <2>2. ChargedBy(p, k) = {}
    BY <1>2 DEF GovernorInv, ChargedBy
  <2> QED BY <2>1, <2>2, Zenon DEF WindowAccounts
<1> QED BY <1>1, <1>2, Zenon

\* defer_schedule charges nothing: the window it read stays full.
LEMMA GovernorDefer ==
  ASSUME SchedulerInv, GovernorInv, NEW p \in Pass, Defer(p)
  PROVE  GovernorInv'
<1>0. PICK s, k, c, J, n : s = Current(p) /\ k = policy[s].key /\ c = Seen(p, k) /\ J = {}
                           /\ n = NextWindow(now[p])
  BY Zenon
<1>1. s \in todo[p] /\ policy[s] # NoPolicy /\ k \in Key
  BY <1>0, RunsCurrent, Zenon DEF Defer
<1>2. Treats(p, s, J, n, Put(windowW[p], k, c))
  BY <1>0, Zenon DEF Defer, Treats, SchedulerInv, Typed
<1>3. \A q \in Pass \ {p} : k \notin DOMAIN windowW[q]
  BY <1>0, RunsAlone, Zenon DEF Defer
<1>4. ASSUME k \notin overtaken PROVE PassAccounts(p, k)'
  <2>1. windowW'[p][k] = c /\ window' = window /\ now' = now
    BY <1>2, Zenon DEF Treats, Put, tables
  <2>2. ChargedBy(p, k)' = ChargedBy(p, k)
    BY <1>0, <1>2, Zenon DEF Treats, ChargedBy, SchedulerInv, Typed
  <2> QED BY <1>0, <1>1, <1>4, <2>1, <2>2, SeenAccounts DEF PassAccounts
<1>5. \A j \in J : j.policy # NoPolicy /\ j.policy.key = k
  BY <1>0, Zenon
<1> QED BY <1>1, <1>2, <1>3, <1>4, <1>5, GovernorTreat, Zenon

\* One more permit for one more job, in a window with room.
LEMMA GovernorGoverned ==
  ASSUME SchedulerInv, GovernorInv, NEW p \in Pass, FireGoverned(p)
  PROVE  GovernorInv'
<1>0. PICK s, k, v, c : /\ s = Current(p) /\ k = policy[s].key /\ v = Seen(p, k)
                        /\ c = Consumed(v, now[p], policy[s].capacity)
  BY Zenon
<1>1. s \in todo[p] /\ s \in rows /\ policy[s] # NoPolicy /\ k \in Key /\ now[p] \in Nat
  BY <1>0, RunsCurrent, Zenon DEF FireGoverned
<1>2. Treats(p, s, Staged(p, s), NextAfter(s, now[p]), Put(windowW[p], k, c))
  BY <1>0, StageTreats, Zenon DEF FireGoverned, Treats, SchedulerInv, Typed
<1>3. \A q \in Pass \ {p} : k \notin DOMAIN windowW[q]
  BY <1>0, RunsAlone, Zenon DEF FireGoverned
<1>4. \A j \in Staged(p, s) : j.policy # NoPolicy /\ j.policy.key = k
  BY <1>0, <1>1 DEF Staged
<1>5. ASSUME k \notin overtaken PROVE PassAccounts(p, k)'
  <2> DEFINE C == ChargedBy(p, k)
             w == window[k]
  <2>1. windowW'[p][k] = c /\ window' = window /\ now' = now
    BY <1>2, Zenon DEF Treats, Put, tables
  <2>2. PICK j : Staged(p, s) = {j}
    BY Zenon DEF Staged
  <2>3. ChargedBy(p, k)' = C \cup {j}
    BY <1>2, <1>4, <2>2, Zenon DEF Treats, ChargedBy, SchedulerInv, Typed
  <2>4. /\ IsFiniteSet(C) /\ Cardinality(C) \in Nat
        /\ C = {} => Cardinality(C) = 0
        /\ Cardinality(C \cup {j}) \in Nat /\ Cardinality(C \cup {j}) <= Cardinality(C) + 1
    <3>1. IsFiniteSet(C) /\ Cardinality(C) \in Nat
      BY ChargedByFinite, Zenon
    <3> HIDE DEF C
    <3>2. Cardinality(C \cup {j}) = IF j \in C THEN Cardinality(C) ELSE Cardinality(C) + 1
      BY <3>1, FS_AddElement, Zenon
    <3>3. C = {} => Cardinality(C) = 0
      BY FS_EmptySet, Zenon
    <3> QED BY <3>1, <3>2, <3>3
  <2>5. v.consumed \in Nat /\ v.capacity \in Nat /\ w.consumed \in Nat
    BY <1>0, <1>1, SeenIsRegistered, Zenon DEF WindowRow, SchedulerInv, Typed, TypeOK
  <2>6. policy[s].capacity \in Nat \ {0} /\ c.capacity = policy[s].capacity /\ c.start = WindowStart(now[p])
        /\ c.consumed = IF v # NoWindow /\ v.start = WindowStart(now[p]) THEN v.consumed + 1 ELSE 1
    BY <1>0, <1>1, PolicyHasCapacity, Zenon DEF Consumed
  <2>7. v # NoWindow => v.capacity = policy[s].capacity
    BY <1>0, Zenon DEF FireGoverned, SamePolicy
  <2>8. v = NoWindow \/ v.start # WindowStart(now[p]) \/ v.consumed < v.capacity
    BY <1>0, Zenon DEF FireGoverned, Allowed
  <2>9. c.consumed <= c.capacity
    BY <2>5, <2>6, <2>7, <2>8
  <2>10. c.consumed >= Cardinality(C \cup {j}) + (IF w # NoWindow /\ w.start = c.start THEN w.consumed ELSE 0)
    <3> HIDE DEF C, w
    <3>1. CASE C = {}
      <4>1. v = w
        BY <3>1, <1>0, <1>1, <1>5, SeenAccounts, Zenon DEF C, w
      <4> QED BY <3>1, <4>1, <2>4, <2>5, <2>6
    <3>2. CASE C # {}
      <4>1. /\ v # NoWindow /\ v.start = WindowStart(now[p])
            /\ v.consumed >= Cardinality(C) + (IF w # NoWindow /\ w.start = v.start THEN w.consumed ELSE 0)
        BY <3>2, <1>0, <1>1, <1>5, SeenAccounts, Zenon DEF C, w
      <4> QED BY <4>1, <2>4, <2>5, <2>6
    <3> QED BY <3>1, <3>2, Zenon
  <2> HIDE DEF C
  <2> QED BY <2>1, <2>3, <2>6, <2>9, <2>10, Zenon DEF PassAccounts
<1> QED BY <1>1, <1>2, <1>3, <1>4, <1>5, GovernorTreat, Zenon

\* A commit charges what the pass has staged to the window it leaves behind.
LEMMA GovernorCommit ==
  ASSUME SchedulerInv, GovernorInv, NEW p \in Pass, Commit(p)
  PROVE  GovernorInv'
<1>1. /\ Typed /\ EndPass(p) /\ jobs' = jobs \cup jobsW[p]
      /\ window' = [k \in Key |-> Seen(p, k)]
      /\ overtaken' = overtaken \cup {k \in DOMAIN windowW[p] : windowW[p][k].start < window[k].start}
  BY Zenon DEF Commit, SchedulerInv
<1>2. ASSUME NEW k \in Key \ overtaken' PROVE WindowAccounts(k)'
  <2> DEFINE C == ChargedBy(p, k)
  <2>1. k \notin overtaken /\ WindowAccounts(k)
    BY <1>1, Zenon DEF GovernorInv
  <2>2. CASE C = {}
    <3>1. window'[k] = window[k]
      BY <1>1, <2>1, <2>2, SeenAccounts, Zenon
    <3>2. \A j : j.policy # NoPolicy /\ j.policy.key = k => (j \in jobs' <=> j \in jobs)
      BY <1>1, <2>2, Zenon DEF ChargedBy
    <3> QED BY <2>1, <3>1, <3>2, SameAccounts, Zenon
  <2>3. CASE C # {}
    <3>0. PICK v, w : v = windowW[p][k] /\ w = window[k]
      BY Zenon
    <3>1. k \in DOMAIN windowW[p] /\ PassAccounts(p, k) /\ window'[k] = v
      BY <1>1, <2>1, <2>3, <3>0, SeenAccounts, ZenonT(30) DEF GovernorInv, Seen
    <3>2. v \in WindowRow /\ w \in WindowRow /\ v # NoWindow /\ now[p] \in Nat
      <4>1. window \in [Key -> WindowRow] /\ now \in [Pass -> Nat]
        BY <1>1, Zenon DEF Typed, TypeOK
      <4>2. windowW[p][k] \in WindowRow /\ Registered(windowW[p][k], k)
        BY <1>1, <3>1, Zenon DEF SchedulerInv, Typed, PoliciesAgree
      <4>3. windowW[p][k] # NoWindow
        BY <4>2, RegisteredIsRow, Zenon
      <4> QED BY <3>0, <4>1, <4>2, <4>3
    <3>3. w.start <= v.start
      BY <1>1, <1>2, <3>0, <3>1, <3>2 DEF WindowRow
    <3>4. w # NoWindow => w.capacity = v.capacity
      BY <3>0, <3>1 DEF SchedulerInv, PoliciesAgree, Registered
    <3>5. \A j \in jobsW[p] : j.now = now[p]
      BY Zenon DEF SchedulerInv, JobsAgree
    <3>6. v.start = WindowStart(now[p]) /\ v.consumed <= v.capacity
          /\ v.consumed >= Cardinality(C) + (IF w # NoWindow /\ w.start = v.start THEN w.consumed ELSE 0)
      BY <2>3, <3>0, <3>1, Zenon DEF PassAccounts
    <3>7. \A j \in jobs : j.policy # NoPolicy /\ j.policy.key = k =>
            w # NoWindow /\ WindowStart(j.now) <= w.start /\ WindowStart(j.now) \in Nat
      BY <2>1, <3>0, WindowBounds, Zenon DEF WindowAccounts, SchedulerInv, Typed, TypeOK, Job
    <3>8. ASSUME NEW st \in Nat, st # v.start
          PROVE  Cardinality(Charged(jobs', k, st)) <= v.capacity
      <4>1. Charged(jobs', k, st) = Charged(jobs, k, st)
        BY <1>1, <3>5, <3>6, <3>8, Zenon DEF Charged
      <4>2. CASE w = NoWindow
        <5>1. Charged(jobs, k, st) = {}
          BY <4>2, <3>7, Zenon DEF Charged
        <5> QED BY <4>1, <5>1, <3>2, FS_EmptySet DEF WindowRow
      <4>3. CASE w # NoWindow
        BY <4>1, <4>3, <2>1, <3>0, <3>4, Zenon DEF WindowAccounts
      <4> QED BY <4>2, <4>3, Zenon
    <3>9. Cardinality(Charged(jobs', k, v.start)) <= v.consumed
      <4> DEFINE A == Charged(jobs, k, v.start)
      <4>1. Charged(jobs', k, v.start) = A \cup C
        BY <1>1, <3>5, <3>6, Zenon DEF Charged, ChargedBy
      <4>2. IsFiniteSet(A) /\ Cardinality(A) \in Nat /\ IsFiniteSet(C) /\ Cardinality(C) \in Nat
        BY ChargedFinite, ChargedByFinite, Zenon DEF SchedulerInv, Typed
      <4>3. Cardinality(A \cup C) \in Nat /\ Cardinality(A \cup C) <= Cardinality(A) + Cardinality(C)
        <5>1. IsFiniteSet(A \cap C) /\ Cardinality(A \cap C) \in Nat
          BY <4>2, FS_Subset, FS_CardinalityType, Zenon
        <5>2. IsFiniteSet(A \cup C) /\ Cardinality(A \cup C) = Cardinality(A) + Cardinality(C) - Cardinality(A \cap C)
          BY <4>2, FS_Union, Zenon
        <5> HIDE DEF A, C
        <5> QED BY <4>2, <5>1, <5>2, FS_CardinalityType
      <4>4. CASE w # NoWindow /\ w.start = v.start
        <5>1. Cardinality(A) <= w.consumed
          BY <4>4, <2>1, <3>0, Zenon DEF WindowAccounts
        <5> HIDE DEF A, C
        <5> QED BY <4>1, <4>2, <4>3, <4>4, <5>1, <3>2, <3>6 DEF WindowRow
      <4>5. CASE ~(w # NoWindow /\ w.start = v.start)
        <5>1. A = {}
          BY <4>5, <3>2, <3>3, <3>7 DEF Charged, WindowRow
        <5>2. Cardinality(A) = 0
          BY <5>1, FS_EmptySet, Zenon
        <5> HIDE DEF A, C
        <5> QED BY <4>1, <4>2, <4>3, <4>5, <5>2, <3>2, <3>6 DEF WindowRow
      <4> QED BY <4>4, <4>5, Zenon
    <3>10. \A j \in jobs' : j.policy # NoPolicy /\ j.policy.key = k => WindowStart(j.now) <= v.start
      <4>1. WindowStart(now[p]) \in Nat
        BY <3>2, WindowBounds, Zenon
      <4> QED BY <1>1, <3>2, <3>3, <3>5, <3>6, <3>7, <4>1 DEF WindowRow
    <3>11. Cardinality(Charged(jobs', k, v.start)) <= v.capacity
      <4>1. Cardinality(Charged(jobs', k, v.start)) \in Nat
        BY <1>1, ChargedFinite, FS_Union, Zenon DEF Typed
      <4> QED BY <3>2, <3>6, <3>9, <4>1 DEF WindowRow
    <3> QED BY <3>1, <3>2, <3>6, <3>8, <3>9, <3>10, <3>11, Zenon DEF WindowAccounts
  <2> QED BY <2>2, <2>3, Zenon
<1>3. ASSUME NEW q \in Pass, NEW k \in DOMAIN windowW'[q], k \notin overtaken'
      PROVE  PassAccounts(q, k)'
  <2>1. q # p
    BY <1>1, EndedPass, Zenon
  <2>2. windowW'[q] = windowW[q] /\ jobsW'[q] = jobsW[q] /\ now'[q] = now[q]
    BY <1>1, <2>1, EndedPass, Zenon
  <2>3. k \in Key /\ k \notin DOMAIN windowW[p] /\ k \notin overtaken
    BY <1>1, <1>3, <2>1, <2>2, Zenon DEF GovernorInv, Typed, TypeOK
  <2>4. window'[k] = window[k]
    BY <1>1, <2>3, Zenon DEF Seen
  <2>5. ChargedBy(q, k)' = ChargedBy(q, k)
    BY <2>2, Zenon DEF ChargedBy
  <2> QED BY <1>3, <2>2, <2>3, <2>4, <2>5, SamePassAccounts, Zenon DEF GovernorInv
<1>4. \A q \in Pass : \A j \in jobsW'[q] : j.policy # NoPolicy => j.policy.key \in DOMAIN windowW'[q]
  BY <1>1, EndedPass, Zenon DEF GovernorInv
<1>5. \A q, r \in Pass : q # r => DOMAIN windowW'[q] \cap DOMAIN windowW'[r] = {}
  BY <1>1, EndedPass, Zenon DEF GovernorInv
<1> QED BY <1>2, <1>3, <1>4, <1>5, Zenon DEF GovernorInv

\* The governor rows account for every job of a key that was never overtaken.
THEOREM GovernorInvHolds == Spec => [](SchedulerInv /\ GovernorInv)
<1>1. SchedulerInv /\ GovernorInv /\ [Next]_vars => GovernorInv'
  <2> SUFFICES ASSUME SchedulerInv, GovernorInv, [Next]_vars
               PROVE  GovernorInv'
    BY Zenon
  <2> USE DEF tables, history, passes
  <2>1. CASE UNCHANGED vars
    BY <2>1, GovernorUntouched, Zenon DEF vars
  <2>2. CASE Tick
    BY <2>2, GovernorUntouched, Zenon DEF Tick
  <2>3. ASSUME NEW s \in Schedule, NEW d \in Policies \cup {NoPolicy}, Register(s, d)
        PROVE  GovernorInv'
    BY <2>3, GovernorUntouched, Zenon DEF Register
  <2>4. ASSUME NEW s \in Schedule, Pause(s) \/ BeginResume(s)
        PROVE  GovernorInv'
    BY <2>4, GovernorUntouched, Zenon DEF Pause, BeginResume
  <2>5. ASSUME NEW call \in resuming, Resume(call[1], call[2])
        PROVE  GovernorInv'
    BY <2>5, GovernorUntouched, Zenon DEF Resume
  <2>6. ASSUME NEW p \in Pass, Select(p)
        PROVE  GovernorInv'
    BY <2>6, GovernorUntouched, Zenon DEF Select
  <2> QED
    BY <2>1, <2>2, <2>3, <2>4, <2>5, <2>6, GovernorBegin, GovernorUngoverned, GovernorGoverned,
       GovernorDefer, GovernorCommit, GovernorAbort, Zenon DEF Next
<1> QED BY <1>1, GovernorInit, SchedulerInvHolds, PTL DEF Spec

-----------------------------------------------------------------------------
(* What follows for every number of schedules, keys and passes.             *)

\* However passes with old clocks interleave, a schedule that was never resumed
\* fires each occurrence once (fire_due, FOR UPDATE SKIP LOCKED).
THEOREM RepeatsNeedAResume == Spec => []RepeatedOnlyAfterResume
<1>1. SchedulerInv => RepeatedOnlyAfterResume
  BY Zenon DEF SchedulerInv
<1> QED BY <1>1, SchedulerInvHolds, PTL

\* A row's next run is one of its occurrences or a window boundary
\* (fire_due_inner, defer_schedule).
THEOREM RunsArePlanned == Spec => []NextIsPlanned
<1>1. SchedulerInv => NextIsPlanned
  BY Zenon DEF SchedulerInv, PlansAgree, Planned, NextIsPlanned
<1> QED BY <1>1, SchedulerInvHolds, PTL

\* One policy per governor key, in the rows and in the stored windows: no pass
\* ends in RateLimitPolicyConflict (enforce_registration_policy).
THEOREM PoliciesNeverConflict == Spec => []OnePolicyPerKey
<1>1. SchedulerInv => OnePolicyPerKey
  <2> SUFFICES ASSUME SchedulerInv, NEW s \in rows, policy[s] # NoPolicy, NEW p \in Pass
               PROVE  SamePolicy(Seen(p, policy[s].key), policy[s])
    BY Zenon DEF OnePolicyPerKey, SchedulerInv, PoliciesAgree
  <2> QED BY PolicyHasCapacity, SeenIsRegistered, RegisteredIsPolicy, Zenon DEF SamePolicy
<1> QED BY <1>1, SchedulerInvHolds, PTL

\* No job of a paused schedule is committed (pause waits for the row lock).
THEOREM PausedStaysSilent == Spec => PausedDoesNotFire
<1>1. SchedulerInv /\ [Next]_vars => [\A j \in jobs' \ jobs : j.schedule \in enabled]_vars
  <2> SUFFICES ASSUME SchedulerInv, Next, NEW j \in jobs' \ jobs
               PROVE  j.schedule \in enabled
    BY Zenon
  <2>1. PICK p \in Pass : jobs' = jobs \cup jobsW[p]
    BY Zenon DEF Next, Tick, Register, Pause, BeginResume, Resume, Begin, Select, FireUngoverned, FireGoverned,
           Defer, Commit, Abort, tables
  <2> QED BY <2>1, Zenon DEF SchedulerInv, JobsAgree, LocksAgree
<1> QED BY <1>1, SchedulerInvHolds, PTL DEF Spec, PausedDoesNotFire

\* A governor's capacity holds across schedules and passes in every window, as
\* long as no pass with an older window replaces a newer row (consume_window).
THEOREM CapacityHolds == Spec => []ExceededOnlyIfOvertaken
<1>1. SchedulerInv /\ GovernorInv => ExceededOnlyIfOvertaken
  <2> SUFFICES ASSUME SchedulerInv, GovernorInv, NEW g \in Policies, NEW t \in 0..MaxClock,
                      g.key \notin overtaken
               PROVE  Cardinality(StagedIn(g, t)) <= g.capacity
    BY Zenon DEF ExceededOnlyIfOvertaken
  <2>1. g.capacity \in Nat \ {0} /\ g.key \in Key /\ t \in Nat
    BY RecurringAssumption DEF Key
  <2>2. CASE StagedIn(g, t) = {}
    BY <2>1, <2>2, FS_EmptySet
  <2>3. CASE StagedIn(g, t) # {}
    <3>1. PICK j \in jobs : j.policy = g /\ g # NoPolicy
      BY <2>3, RecurringAssumption, Zenon DEF StagedIn
    <3>2. j.schedule \in rows /\ policy[j.schedule] = g
      BY <3>1, Zenon DEF SchedulerInv, JobsAgree
    <3>3. WindowAccounts(g.key) /\ window[g.key] # NoWindow
      BY <2>1, <3>1, Zenon DEF GovernorInv, WindowAccounts
    <3>4. window[g.key].capacity = g.capacity
      BY <2>1, <3>1, <3>2, <3>3, RegisteredIsPolicy DEF SchedulerInv, PoliciesAgree
    <3> DEFINE A == Charged(jobs, g.key, WindowStart(t))
    <3>5. StagedIn(g, t) \subseteq A
      BY <3>1, Zenon DEF StagedIn, Charged
    <3>6. IsFiniteSet(A) /\ Cardinality(A) \in Nat
      BY ChargedFinite, Zenon DEF SchedulerInv, Typed
    <3>7. Cardinality(A) <= g.capacity
      BY <2>1, <3>3, <3>4, WindowBounds, Zenon DEF WindowAccounts
    <3>8. Cardinality(StagedIn(g, t)) <= Cardinality(A) /\ IsFiniteSet(StagedIn(g, t))
      BY <3>5, <3>6, FS_Subset, Zenon
    <3>9. Cardinality(StagedIn(g, t)) \in Nat
      BY <3>8, FS_CardinalityType, Zenon
    <3> QED BY <2>1, <3>6, <3>7, <3>8, <3>9
  <2> QED BY <2>2, <2>3, Zenon
<1> QED BY <1>1, GovernorInvHolds, PTL
=============================================================================
