--------------------------- MODULE ChangeStreams ---------------------------
(***************************************************************************)
(* Workers that follow one MongoDB change stream and keep its resume token *)
(* in PostgreSQL.  A worker takes the writer lease, loads the token, reads *)
(* changes from there, handles each one and then saves the token, which    *)
(* the database accepts only while the lease is the worker's and has not   *)
(* expired on the database's clock.  A statement whose caller gave up may  *)
(* still run later.  With a single worker the lease is not used and the    *)
(* token is saved unconditionally.                                         *)
(***************************************************************************)
EXTENDS Naturals, FiniteSets

CONSTANTS
    StreamWorkers,      \* processes, each with its own lease owner name
    Changes,            \* number of changes in the stream
    OversizedTokens,    \* positions whose token exceeds MAX_CHANGE_STREAM_RESUME_TOKEN_BYTES
    LeaseTicks,         \* the lease duration, in ticks of the database clock
    StreamClock         \* bound of the database clock

ASSUME StreamsAssumption ==
    /\ Changes \in Nat
    /\ LeaseTicks \in Nat \ {0}
    /\ StreamClock \in Nat
    /\ "none" \notin StreamWorkers

VARIABLES
    leasing,            \* do the workers use the lease, or is there one worker only
    dbNow,
    streamLease,        \* the lease row [owner, expires]
    checkpoint,         \* the stored token: a position, 0 when there is none
    reader,             \* reader[w]: the worker
    lateSaves,          \* saves whose caller gave up and which the database may still run
    lately,             \* was the stored token written by an abandoned save
    handledChanges           \* positions handled durably by some worker

streamVars == <<leasing, dbNow, streamLease, checkpoint, reader, lateSaves, lately, handledChanges>>

NoLease == [owner |-> "none", expires |-> 0]

Stopped == [at |-> "stopped", position |-> 0, candidate |-> 0]

StreamInit ==
    /\ leasing \in BOOLEAN
    /\ dbNow = 0
    /\ streamLease = NoLease
    /\ checkpoint = 0
    /\ reader = [w \in StreamWorkers |-> Stopped]
    /\ lateSaves = {}
    /\ lately = FALSE
    /\ handledChanges = {}

HoldsLease(w) == streamLease.owner = w /\ streamLease.expires > dbNow

LeaseIsFree(w) ==
    streamLease = NoLease \/ streamLease.expires <= dbNow \/ streamLease.owner = w

Extended(w) == [owner |-> w, expires |-> dbNow + LeaseTicks]

\* Contended leaves everything as it is.  The answer may be lost.
TryAcquireLease(w) ==
    /\ leasing
    /\ reader[w].at = "stopped"
    /\ LeaseIsFree(w)
    /\ streamLease' = Extended(w)
    /\ reader' \in {reader, [reader EXCEPT ![w].at = "leased"]}
    /\ UNCHANGED <<leasing, dbNow, checkpoint, lateSaves, lately, handledChanges>>

\* Without the lease a supervisor runs one worker at a time.
StartAlone(w) ==
    /\ ~leasing
    /\ \A v \in StreamWorkers : reader[v].at = "stopped"
    /\ reader' = [reader EXCEPT ![w].at = "leased"]
    /\ UNCHANGED <<leasing, dbNow, streamLease, checkpoint, lateSaves, lately, handledChanges>>

RenewLease(w) ==
    /\ leasing
    /\ reader[w].at # "stopped"
    /\ IF HoldsLease(w)
       THEN streamLease' = Extended(w) /\ UNCHANGED reader
       ELSE reader' = [reader EXCEPT ![w] = Stopped] /\ UNCHANGED streamLease
    /\ UNCHANGED <<leasing, dbNow, checkpoint, lateSaves, lately, handledChanges>>

LoadCheckpoint(w) ==
    /\ reader[w].at = "leased"
    /\ reader' = [reader EXCEPT ![w].at = "reading", ![w].position = checkpoint]
    /\ UNCHANGED <<leasing, dbNow, streamLease, checkpoint, lateSaves, lately, handledChanges>>

\* A change with its token, or the shutdown, which ends this stream and offers
\* the token of the last change that was returned.
NextChangeUntil(w) ==
    /\ reader[w].at = "reading"
    /\ \/ /\ reader[w].position < Changes
          /\ reader' = [reader EXCEPT ![w].at = "handling",
                                      ![w].position = reader[w].position + 1,
                                      ![w].candidate = reader[w].position + 1]
       \/ reader' = [reader EXCEPT ![w].at = "saving", ![w].candidate = reader[w].position]
    /\ UNCHANGED <<leasing, dbNow, streamLease, checkpoint, lateSaves, lately, handledChanges>>

\* The application handles the change durably, and saves its token after that.
HandleChange(w) ==
    /\ reader[w].at = "handling"
    /\ handledChanges' = handledChanges \cup {reader[w].position}
    /\ reader' = [reader EXCEPT ![w].at = "saving"]
    /\ UNCHANGED <<leasing, dbNow, streamLease, checkpoint, lateSaves, lately>>

EncodeResumeToken(token) == token # 0 /\ token \notin OversizedTokens

\* Mutant of SaveWhileLeased: the lease is not part of the update.
SaveUnleased(w) ==
    /\ reader[w].at = "saving"
    /\ EncodeResumeToken(reader[w].candidate)
    /\ checkpoint' = reader[w].candidate
    /\ lately' = FALSE
    /\ reader' = [reader EXCEPT ![w].at = "reading"]
    /\ UNCHANGED <<leasing, dbNow, streamLease, lateSaves, handledChanges>>

SaveWhileLeased(w) ==
    /\ leasing
    /\ reader[w].at = "saving"
    /\ EncodeResumeToken(reader[w].candidate)
    /\ \/ /\ HoldsLease(w)
          /\ checkpoint' = reader[w].candidate
          /\ lately' = FALSE
          /\ reader' = [reader EXCEPT ![w].at = "reading"]
          /\ UNCHANGED lateSaves
       \/ /\ ~HoldsLease(w)
          /\ reader' = [reader EXCEPT ![w] = Stopped]
          /\ UNCHANGED <<checkpoint, lateSaves, lately>>
       \/ /\ lateSaves' = lateSaves \cup {[owner |-> w, token |-> reader[w].candidate]}
          /\ reader' = [reader EXCEPT ![w] = Stopped]
          /\ UNCHANGED <<checkpoint, lately>>
    /\ UNCHANGED <<leasing, dbNow, streamLease, handledChanges>>

SaveAlone(w) ==
    /\ ~leasing
    /\ reader[w].at = "saving"
    /\ EncodeResumeToken(reader[w].candidate)
    /\ checkpoint' = reader[w].candidate
    /\ lately' = FALSE
    /\ reader' = [reader EXCEPT ![w].at = "reading"]
    /\ UNCHANGED <<leasing, dbNow, streamLease, lateSaves, handledChanges>>

\* A token that cannot be stored: InvalidCheckpoint, and the worker reads on.
SaveRejected(w) ==
    /\ reader[w].at = "saving"
    /\ ~EncodeResumeToken(reader[w].candidate)
    /\ reader' = [reader EXCEPT ![w].at = "reading"]
    /\ UNCHANGED <<leasing, dbNow, streamLease, checkpoint, lateSaves, lately, handledChanges>>

\* The database runs an abandoned save; its condition is the same.
LateSaveRuns ==
    /\ \E save \in lateSaves :
          /\ lateSaves' = lateSaves \ {save}
          /\ IF HoldsLease(save.owner) THEN checkpoint' = save.token /\ lately' = TRUE
             ELSE UNCHANGED <<checkpoint, lately>>
    /\ UNCHANGED <<leasing, dbNow, streamLease, reader, handledChanges>>

ReleaseLease(w) ==
    /\ leasing
    /\ reader[w].at \in {"leased", "reading"}
    /\ streamLease' = IF streamLease.owner = w THEN NoLease ELSE streamLease
    /\ reader' = [reader EXCEPT ![w] = Stopped]
    /\ UNCHANGED <<leasing, dbNow, checkpoint, lateSaves, lately, handledChanges>>

StreamCrash(w) ==
    /\ reader[w].at # "stopped"
    /\ reader' = [reader EXCEPT ![w] = Stopped]
    /\ UNCHANGED <<leasing, dbNow, streamLease, checkpoint, lateSaves, lately, handledChanges>>

DatabaseTick ==
    /\ dbNow < StreamClock
    /\ dbNow' = dbNow + 1
    /\ UNCHANGED <<leasing, streamLease, checkpoint, reader, lateSaves, lately, handledChanges>>

StreamNext ==
    \/ \E w \in StreamWorkers :
          \/ TryAcquireLease(w) \/ StartAlone(w) \/ RenewLease(w) \/ LoadCheckpoint(w)
          \/ NextChangeUntil(w) \/ HandleChange(w)
          \/ SaveWhileLeased(w) \/ SaveAlone(w) \/ SaveRejected(w)
          \/ ReleaseLease(w) \/ StreamCrash(w)
    \/ LateSaveRuns \/ DatabaseTick

StreamSpec == StreamInit /\ [][StreamNext]_streamVars

----------------------------------------------------------------------------
StreamTypeOK ==
    /\ leasing \in BOOLEAN
    /\ dbNow \in 0 .. StreamClock
    /\ streamLease \in [owner : StreamWorkers \cup {"none"}, expires : 0 .. StreamClock + LeaseTicks]
    /\ checkpoint \in 0 .. Changes
    /\ reader \in [StreamWorkers -> [at : {"stopped", "leased", "reading", "handling", "saving"},
                                     position : 0 .. Changes, candidate : 0 .. Changes]]
    /\ lateSaves \subseteq [owner : StreamWorkers, token : 1 .. Changes]
    /\ lately \in BOOLEAN
    /\ handledChanges \subseteq 1 .. Changes

\* The stored token never passes over a change that no worker has handled, so
\* whoever resumes from it misses nothing, whichever workers lost their lease,
\* crashed or saved late.
NothingIsSkipped == 1 .. checkpoint \subseteq handledChanges

\* The stored token moves back only where an abandoned save is involved, one
\* that runs after its worker took the lease again, or one that overtook the
\* worker's reload: a worker that lost the lease to another never overwrites
\* the other's progress.
OnlyLateSavesMoveBack ==
    [][checkpoint' < checkpoint => lately \/ lately']_streamVars

(* The stored token never passes over a change that nobody handled, and moves  *)
(* back only where an abandoned save is involved.                              *)
CheckpointIsSafe ==
  /\ []NothingIsSkipped
  /\ OnlyLateSavesMoveBack
=============================================================================
