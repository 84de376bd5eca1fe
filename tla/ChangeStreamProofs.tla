------------------------ MODULE ChangeStreamProofs ------------------------
(* No change is skipped, and only an abandoned save moves the token back,   *)
(* for any workers, any stream and any lease.                               *)
EXTENDS ChangeStreams, TLAPS

Following(w) == reader[w].at \in {"reading", "handling", "saving"}

\* A worker is current while no other has had the lease since it took it, or
\* when it works without a lease.
Current(w) == Following(w) /\ (leasing => streamLease.owner = w)

\* The stored token is only as good as the ones that may replace it: each
\* worker has everything up to its position behind it, but for the change in
\* its hands, and so has each abandoned save.
TokensInv ==
  /\ StreamTypeOK
  /\ NothingIsSkipped
  /\ \A w \in StreamWorkers :
       /\ reader[w].at \in {"handling", "saving"} => reader[w].candidate = reader[w].position
       /\ IF reader[w].at = "handling"
          THEN 1 .. reader[w].position \subseteq handledChanges \cup {reader[w].position}
               /\ reader[w].position # 0
          ELSE 1 .. reader[w].position \subseteq handledChanges
  /\ \A save \in lateSaves : 1 .. save.token \subseteq handledChanges

\* A current worker is not behind the token, unless an abandoned save wrote
\* it, and without the lease there is one worker at most.
OrderInv ==
  /\ lately \/ \A w \in StreamWorkers : Current(w) => checkpoint <= reader[w].position
  /\ ~leasing => \A v, w \in StreamWorkers :
       reader[v].at # "stopped" /\ reader[w].at # "stopped" => v = w

StreamInv == TokensInv /\ OrderInv

\* Nothing is stored, read or handled.
LEMMA StreamInitInv == StreamInit => StreamInv
<1> SUFFICES ASSUME StreamInit PROVE StreamInv
  OBVIOUS
<1>1. StreamTypeOK
  <2>1. NoLease \in [owner : StreamWorkers \cup {"none"}, expires : 0 .. StreamClock + LeaseTicks]
    BY StreamsAssumption DEF NoLease
  <2>2. Stopped \in [at : {"stopped", "leased", "reading", "handling", "saving"},
                     position : 0 .. Changes, candidate : 0 .. Changes]
    BY StreamsAssumption DEF Stopped
  <2>3. reader \in [StreamWorkers -> [at : {"stopped", "leased", "reading", "handling", "saving"},
                                     position : 0 .. Changes, candidate : 0 .. Changes]]
    BY <2>2 DEF StreamInit
  <2>4. dbNow \in 0 .. StreamClock /\ checkpoint \in 0 .. Changes
    BY StreamsAssumption DEF StreamInit
  <2> QED
    BY <2>1, <2>3, <2>4, Zenon DEF StreamInit, StreamTypeOK
<1>2. \A w \in StreamWorkers : reader[w].at = "stopped" /\ reader[w].position = 0
  BY DEF StreamInit, Stopped
<1>3. TokensInv
  BY <1>1, <1>2 DEF StreamInit, TokensInv, NothingIsSkipped
<1>4. OrderInv
  BY <1>2, StreamsAssumption DEF StreamInit, OrderInv, Current, Following, NoLease
<1> QED
  BY <1>3, <1>4 DEF StreamInv

\* Taking, renewing and giving up the lease, and stopping.
LEMMA LeaseKeeps ==
  ASSUME StreamInv, NEW w \in StreamWorkers,
         TryAcquireLease(w) \/ StartAlone(w) \/ RenewLease(w) \/ ReleaseLease(w) \/ StreamCrash(w)
  PROVE  StreamInv'
<1>1. TokensInv'
  BY StreamsAssumption
     DEF StreamInv, TokensInv, StreamTypeOK, NothingIsSkipped, NoLease, Stopped, Extended,
         TryAcquireLease, StartAlone, RenewLease, ReleaseLease, StreamCrash
<1>2. ASSUME TryAcquireLease(w) \/ RenewLease(w) \/ ReleaseLease(w) \/ StreamCrash(w)
      PROVE  OrderInv'
  <2>1. ASSUME NEW v \in StreamWorkers, Current(v)' PROVE Current(v) /\ reader'[v] = reader[v]
    <3>1. reader'[v].at # "stopped" /\ reader'[v].at # "leased"
      BY <2>1 DEF Current, Following
    <3>2. reader'[v] = reader[v]
      BY <1>2, <3>1
         DEF StreamInv, TokensInv, StreamTypeOK, Stopped, TryAcquireLease, RenewLease, ReleaseLease, StreamCrash
    <3>3. leasing => streamLease'.owner = v
      BY <1>2, <2>1 DEF Current, TryAcquireLease, RenewLease, ReleaseLease, StreamCrash
    <3>4. leasing => streamLease.owner = v
      <4>1. CASE TryAcquireLease(w)
        BY <3>1, <3>2, <3>3, <4>1 DEF TryAcquireLease, Extended
      <4>2. CASE RenewLease(w)
        BY <3>3, <4>2 DEF RenewLease, Extended, HoldsLease
      <4>3. CASE ReleaseLease(w)
        BY <3>3, <4>3, StreamsAssumption DEF ReleaseLease, NoLease
      <4>4. CASE StreamCrash(w)
        BY <3>3, <4>4 DEF StreamCrash
      <4> QED
        BY <1>2, <4>1, <4>2, <4>3, <4>4
    <3> QED
      BY <2>1, <3>2, <3>4 DEF Current, Following
  <2>2. ~leasing' => \A v \in StreamWorkers : reader'[v].at # "stopped" => reader'[v] = reader[v]
    BY <1>2
       DEF StreamInv, TokensInv, StreamTypeOK, Stopped, TryAcquireLease, RenewLease, ReleaseLease, StreamCrash
  <2>3. UNCHANGED <<leasing, checkpoint, lately>>
    BY <1>2 DEF TryAcquireLease, RenewLease, ReleaseLease, StreamCrash
  <2> QED
    BY <2>1, <2>2, <2>3 DEF StreamInv, OrderInv
<1>3. ASSUME StartAlone(w) PROVE OrderInv'
  BY <1>3 DEF StreamInv, TokensInv, OrderInv, StreamTypeOK, Current, Following, StartAlone
<1>4. OrderInv'
  BY <1>2, <1>3
<1> QED
  BY <1>1, <1>4 DEF StreamInv

\* Loading the token, reading a change and handling it.
LEMMA ReadingKeeps ==
  ASSUME StreamInv, NEW w \in StreamWorkers,
         LoadCheckpoint(w) \/ NextChangeUntil(w) \/ HandleChange(w) \/ SaveRejected(w)
  PROVE  StreamInv'
<1>1. TokensInv'
  BY StreamsAssumption
     DEF StreamInv, TokensInv, StreamTypeOK, NothingIsSkipped,
         LoadCheckpoint, NextChangeUntil, HandleChange, SaveRejected
<1>2. OrderInv'
  BY StreamsAssumption
     DEF StreamInv, TokensInv, OrderInv, StreamTypeOK, Current, Following,
         LoadCheckpoint, NextChangeUntil, HandleChange, SaveRejected
<1> QED
  BY <1>1, <1>2 DEF StreamInv

\* A save stores the position of a worker that has handled everything up to
\* it; no other worker is current.
LEMMA SavingKeeps ==
  ASSUME StreamInv, NEW w \in StreamWorkers, SaveWhileLeased(w) \/ SaveAlone(w)
  PROVE  StreamInv'
<1>1. TokensInv'
  <2>1. reader[w].candidate \in 1 .. Changes /\ 1 .. reader[w].candidate \subseteq handledChanges
    BY StreamsAssumption
       DEF StreamInv, TokensInv, StreamTypeOK, EncodeResumeToken, SaveWhileLeased, SaveAlone
  <2>2. checkpoint' \in {checkpoint, reader[w].candidate} /\ lately' \in BOOLEAN
    BY DEF StreamInv, TokensInv, StreamTypeOK, SaveWhileLeased, SaveAlone
  <2>3. lateSaves' \subseteq lateSaves \cup {[owner |-> w, token |-> reader[w].candidate]}
    BY DEF SaveWhileLeased, SaveAlone
  <2>4. reader' \in {[reader EXCEPT ![w].at = "reading"], [reader EXCEPT ![w] = Stopped]}
    BY DEF SaveWhileLeased, SaveAlone
  <2>5. UNCHANGED <<leasing, dbNow, streamLease, handledChanges>>
    BY DEF SaveWhileLeased, SaveAlone
  <2>6. StreamTypeOK'
    BY <2>1, <2>2, <2>3, <2>4, <2>5, StreamsAssumption DEF StreamInv, TokensInv, StreamTypeOK, Stopped
  <2>7. NothingIsSkipped' /\ \A save \in lateSaves' : 1 .. save.token \subseteq handledChanges'
    BY <2>1, <2>2, <2>3, <2>5 DEF StreamInv, TokensInv, NothingIsSkipped
  <2>8. reader[w].at = "saving"
    BY DEF SaveWhileLeased, SaveAlone
  <2> QED
    BY <2>4, <2>5, <2>6, <2>7, <2>8 DEF StreamInv, TokensInv, StreamTypeOK, Stopped
<1>2. OrderInv'
  BY StreamsAssumption
     DEF StreamInv, TokensInv, OrderInv, StreamTypeOK, Stopped, Current, Following, HoldsLease,
         SaveWhileLeased, SaveAlone
<1> QED
  BY <1>1, <1>2 DEF StreamInv

\* The database on its own: its clock, and a save nobody waits for.
LEMMA DatabaseKeeps ==
  ASSUME StreamInv, LateSaveRuns \/ DatabaseTick \/ UNCHANGED streamVars
  PROVE  StreamInv'
<1>1. CASE LateSaveRuns
  <2>1. UNCHANGED <<leasing, dbNow, streamLease, reader, handledChanges>> /\ lateSaves' \subseteq lateSaves
    BY <1>1 DEF LateSaveRuns
  <2>2. \/ UNCHANGED <<checkpoint, lately>>
        \/ lately' = TRUE /\ \E save \in lateSaves : checkpoint' = save.token
    BY <1>1 DEF LateSaveRuns
  <2>3. TokensInv'
    <3>1. checkpoint' \in 0 .. Changes /\ NothingIsSkipped'
      BY <2>1, <2>2, StreamsAssumption DEF StreamInv, TokensInv, StreamTypeOK, NothingIsSkipped
    <3>2. lately' \in BOOLEAN
      BY <2>2, Zenon DEF StreamInv, TokensInv, StreamTypeOK
    <3> QED
      BY <2>1, <3>1, <3>2 DEF StreamInv, TokensInv, StreamTypeOK
  <2>4. OrderInv'
    BY <2>1, <2>2 DEF StreamInv, OrderInv, Current, Following
  <2> QED
    BY <2>3, <2>4 DEF StreamInv
<1>2. CASE DatabaseTick
  BY <1>2, StreamsAssumption
     DEF StreamInv, TokensInv, OrderInv, StreamTypeOK, NothingIsSkipped, Current, Following, DatabaseTick
<1>3. CASE UNCHANGED streamVars
  BY <1>3
     DEF StreamInv, TokensInv, OrderInv, StreamTypeOK, NothingIsSkipped, Current, Following, streamVars
<1> QED
  BY <1>1, <1>2, <1>3

\* The invariant holds of every reachable state.
LEMMA StreamInvariant == StreamSpec => []StreamInv
<1>1. StreamInv /\ [StreamNext]_streamVars => StreamInv'
  <2> SUFFICES ASSUME StreamInv, [StreamNext]_streamVars PROVE StreamInv'
    OBVIOUS
  <2>1. CASE \E w \in StreamWorkers :
               TryAcquireLease(w) \/ StartAlone(w) \/ RenewLease(w) \/ ReleaseLease(w) \/ StreamCrash(w)
    BY <2>1, LeaseKeeps
  <2>2. CASE \E w \in StreamWorkers :
               LoadCheckpoint(w) \/ NextChangeUntil(w) \/ HandleChange(w) \/ SaveRejected(w)
    BY <2>2, ReadingKeeps
  <2>3. CASE \E w \in StreamWorkers : SaveWhileLeased(w) \/ SaveAlone(w)
    BY <2>3, SavingKeeps
  <2>4. CASE LateSaveRuns \/ DatabaseTick \/ UNCHANGED streamVars
    BY <2>4, DatabaseKeeps
  <2> QED
    BY <2>1, <2>2, <2>3, <2>4 DEF StreamNext
<1> QED
  BY StreamInitInv, <1>1, PTL DEF StreamSpec

\* The stored token never passes over a change that no worker has handled,
\* whatever leases expire, workers crash and saves arrive late
\* (save_while_leased).
THEOREM CheckpointSkipsNothing == StreamSpec => []NothingIsSkipped
<1>1. StreamInv => NothingIsSkipped
  BY DEF StreamInv, TokensInv
<1> QED
  BY StreamInvariant, <1>1, PTL

\* A step that moves the stored token back has to do with an abandoned save:
\* a worker that lost the lease never overwrites the progress of another
\* (the condition of save_while_leased).
THEOREM CheckpointMovesBackOnlyLate == StreamSpec => OnlyLateSavesMoveBack
<1>1. StreamInv /\ [StreamNext]_streamVars
        => [checkpoint' < checkpoint => lately \/ lately']_streamVars
  <2> SUFFICES ASSUME StreamInv, StreamNext, checkpoint' < checkpoint, ~lately
               PROVE  lately'
    BY DEF streamVars
  <2>1. checkpoint' # checkpoint
    BY DEF StreamInv, TokensInv, StreamTypeOK
  <2>2. ASSUME NEW w \in StreamWorkers, SaveWhileLeased(w) \/ SaveAlone(w) PROVE FALSE
    BY <2>1, <2>2
       DEF StreamInv, TokensInv, OrderInv, StreamTypeOK, Current, Following, HoldsLease,
           SaveWhileLeased, SaveAlone
  <2>3. LateSaveRuns
    BY <2>1, <2>2
       DEF StreamNext, TryAcquireLease, StartAlone, RenewLease, LoadCheckpoint, NextChangeUntil,
           HandleChange, SaveRejected, ReleaseLease, StreamCrash, DatabaseTick
  <2> QED
    BY <2>1, <2>3 DEF LateSaveRuns
<1> QED
  BY StreamInvariant, <1>1, PTL DEF StreamSpec, OnlyLateSavesMoveBack

\* Both at once: the stored checkpoint skips nothing and moves back only with a
\* save that was given up (ChangeStreamWorker, the checkpoint stores).
THEOREM CheckpointStaysSafe == StreamSpec => CheckpointIsSafe
<1> QED BY CheckpointSkipsNothing, CheckpointMovesBackOnlyLate, PTL DEF CheckpointIsSafe
=============================================================================
