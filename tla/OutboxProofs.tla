---------------------------- MODULE OutboxProofs ----------------------------
(***************************************************************************)
(* Safety of the outbox for every set of messages, producers, relays and   *)
(* tokens, every priority assignment and every batch size.                 *)
(***************************************************************************)
EXTENDS Outbox, TLAPS

(* The inductive invariant, by parts.                                      *)

\* A key is inserted once: open transactions hold no committed row and no
\* row of one another.
OpenIsUncommitted ==
  \A p \in Producer :
    /\ txn[p] \cap rows = {}
    /\ \A q \in Producer \ {p} : txn[p] \cap txn[q] = {}

\* Only committed, unconfirmed rows carry a lease.
LeasedIsPending == \A m \in Msg : token[m] # None => m \in rows \ published

\* A relay has a batch, and its token, exactly while a pass is under way.
BatchHasToken ==
  \A r \in Relay :
    /\ pc[r] \in {"stopped", "idle"} => todo[r] = {} /\ held[r] = None
    /\ pc[r] \in {"publish", "acknowledge", "retry"} => held[r] \in Token
    /\ todo[r] \subseteq rows

\* The row being settled belongs to the batch; one being acknowledged was
\* accepted by the broker.
CurrentIsLeased ==
  \A r \in Relay :
    /\ pc[r] \in {"acknowledge", "retry"} => cur[r] \in todo[r]
    /\ pc[r] = "acknowledge" => cur[r] \in accepted

\* No two relays hold the same token.
TokensDiffer ==
  \A r, q \in Relay : held[r] = held[q] /\ held[r] # None => r = q

\* A row that met no fault is still leased to the relay that works on it.
LeaseIntact ==
  \A r \in Relay : \A m \in todo[r] \ disturbed :
    token[m] = held[r] /\ m \notin expired

\* A message that met no fault and that the broker has is confirmed, or about
\* to be.
AcceptedIsSettling ==
  \A m \in accepted \ disturbed :
    \/ m \in published
    \/ \E r \in Relay : pc[r] = "acknowledge" /\ cur[r] = m

Inductive ==
  /\ TypeOK
  /\ OpenIsUncommitted
  /\ LeasedIsPending
  /\ BatchHasToken
  /\ CurrentIsLeased
  /\ TokensDiffer
  /\ LeaseIntact
  /\ AcceptedIsSettling
  /\ OnlyCommittedIsSent
  /\ ConfirmedWasAccepted
  /\ RepeatedOnlyAfterFault

(* Every step preserves it: one lemma per action.                          *)

\* Staging a message inserts a key no transaction has (stage_after).
LEMMA StageStep ==
  ASSUME Inductive, NEW p \in Producer, NEW m \in Msg, NEW delayed \in BOOLEAN,
         Stage(p, m, delayed)
  PROVE  Inductive'
<1> USE OutboxAssumption DEF Inductive, rowVars, leaseVars, relayVars, brokerVars
<1>1. TypeOK'
  BY DEF TypeOK, Stage, Staged
<1>2. OpenIsUncommitted'
  BY DEF OpenIsUncommitted, Stage, Staged
<1>3. /\ LeasedIsPending'
      /\ BatchHasToken'
      /\ CurrentIsLeased'
      /\ TokensDiffer'
      /\ LeaseIntact'
      /\ AcceptedIsSettling'
      /\ OnlyCommittedIsSent'
      /\ ConfirmedWasAccepted'
      /\ RepeatedOnlyAfterFault'
  BY DEF Stage, LeasedIsPending, BatchHasToken, CurrentIsLeased,
         TokensDiffer, LeaseIntact, AcceptedIsSettling, OnlyCommittedIsSent,
         ConfirmedWasAccepted, RepeatedOnlyAfterFault
<1>4. QED
  BY <1>1, <1>2, <1>3

\* The application commits its staged rows.
LEMMA CommitStep ==
  ASSUME Inductive, NEW p \in Producer, Commit(p)
  PROVE  Inductive'
<1> USE OutboxAssumption DEF Inductive, rowVars, leaseVars, relayVars, brokerVars
<1>1. TypeOK'
  BY DEF TypeOK, Commit
<1>2. OpenIsUncommitted'
  BY DEF OpenIsUncommitted, Commit, TypeOK
<1>3. LeasedIsPending'
  BY DEF LeasedIsPending, Commit
<1>4. BatchHasToken'
  BY DEF BatchHasToken, Commit
<1>5. OnlyCommittedIsSent'
  BY DEF OnlyCommittedIsSent, Commit
<1>6. /\ CurrentIsLeased'
      /\ TokensDiffer'
      /\ LeaseIntact'
      /\ AcceptedIsSettling'
      /\ ConfirmedWasAccepted'
      /\ RepeatedOnlyAfterFault'
  BY DEF Commit, CurrentIsLeased, TokensDiffer, LeaseIntact,
         AcceptedIsSettling, ConfirmedWasAccepted, RepeatedOnlyAfterFault
<1>7. QED
  BY <1>1, <1>2, <1>3, <1>4, <1>5, <1>6

\* The application rolls its staged rows back.
LEMMA RollbackStep ==
  ASSUME Inductive, NEW p \in Producer, Rollback(p)
  PROVE  Inductive'
<1> USE OutboxAssumption DEF Inductive, rowVars, leaseVars, relayVars, brokerVars
<1>1. TypeOK'
  BY DEF TypeOK, Rollback
<1>2. OpenIsUncommitted'
  BY DEF OpenIsUncommitted, Rollback
<1>3. /\ LeasedIsPending'
      /\ BatchHasToken'
      /\ CurrentIsLeased'
      /\ TokensDiffer'
      /\ LeaseIntact'
      /\ AcceptedIsSettling'
      /\ OnlyCommittedIsSent'
      /\ ConfirmedWasAccepted'
      /\ RepeatedOnlyAfterFault'
  BY DEF Rollback, LeasedIsPending, BatchHasToken, CurrentIsLeased,
         TokensDiffer, LeaseIntact, AcceptedIsSettling, OnlyCommittedIsSent,
         ConfirmedWasAccepted, RepeatedOnlyAfterFault
<1>4. QED
  BY <1>1, <1>2, <1>3

\* The available_at of a row passes.
LEMMA DueStep ==
  ASSUME Inductive, NEW m \in Msg, Due(m)
  PROVE  Inductive'
<1> USE OutboxAssumption DEF Inductive, rowVars, leaseVars, relayVars, brokerVars
<1>1. TypeOK'
  BY DEF TypeOK, Due
<1>2. /\ OpenIsUncommitted'
      /\ LeasedIsPending'
      /\ BatchHasToken'
      /\ CurrentIsLeased'
      /\ TokensDiffer'
      /\ LeaseIntact'
      /\ AcceptedIsSettling'
      /\ OnlyCommittedIsSent'
      /\ ConfirmedWasAccepted'
      /\ RepeatedOnlyAfterFault'
  BY DEF Due, OpenIsUncommitted, LeasedIsPending, BatchHasToken,
         CurrentIsLeased, TokensDiffer, LeaseIntact, AcceptedIsSettling,
         OnlyCommittedIsSent, ConfirmedWasAccepted, RepeatedOnlyAfterFault
<1>3. QED
  BY <1>1, <1>2

\* The leased_until of a row passes; under a working relay that is a fault.
LEMMA LeaseExpiresStep ==
  ASSUME Inductive, NEW m \in Msg, LeaseExpires(m)
  PROVE  Inductive'
<1> USE OutboxAssumption DEF Inductive, rowVars, leaseVars, relayVars, brokerVars
<1>1. TypeOK'
  BY DEF TypeOK, LeaseExpires
<1>2. LeaseIntact'
  BY DEF LeaseIntact, LeaseExpires, LeasedBy
<1>3. AcceptedIsSettling'
  BY DEF AcceptedIsSettling, LeaseExpires
<1>4. RepeatedOnlyAfterFault'
  BY DEF RepeatedOnlyAfterFault, LeaseExpires
<1>5. /\ OpenIsUncommitted'
      /\ LeasedIsPending'
      /\ BatchHasToken'
      /\ CurrentIsLeased'
      /\ TokensDiffer'
      /\ OnlyCommittedIsSent'
      /\ ConfirmedWasAccepted'
  BY DEF LeaseExpires, OpenIsUncommitted, LeasedIsPending, BatchHasToken,
         CurrentIsLeased, TokensDiffer, OnlyCommittedIsSent,
         ConfirmedWasAccepted
<1>6. QED
  BY <1>1, <1>2, <1>3, <1>4, <1>5

\* A relay loop is started (run_until).
LEMMA StartStep ==
  ASSUME Inductive, NEW r \in Relay, Start(r)
  PROVE  Inductive'
<1> USE OutboxAssumption DEF Inductive, rowVars, leaseVars, relayVars, brokerVars
<1>1. TypeOK'
  BY DEF TypeOK, Start
<1>2. BatchHasToken'
  BY DEF BatchHasToken, Start
<1>3. CurrentIsLeased'
  BY DEF CurrentIsLeased, Start
<1>4. AcceptedIsSettling'
  BY DEF AcceptedIsSettling, Start
<1>5. /\ OpenIsUncommitted'
      /\ LeasedIsPending'
      /\ TokensDiffer'
      /\ LeaseIntact'
      /\ OnlyCommittedIsSent'
      /\ ConfirmedWasAccepted'
      /\ RepeatedOnlyAfterFault'
  BY DEF Start, OpenIsUncommitted, LeasedIsPending, TokensDiffer,
         LeaseIntact, OnlyCommittedIsSent, ConfirmedWasAccepted,
         RepeatedOnlyAfterFault
<1>6. QED
  BY <1>1, <1>2, <1>3, <1>4, <1>5

\* The shutdown future of a relay resolves.
LEMMA SignalShutdownStep ==
  ASSUME Inductive, NEW r \in Relay, SignalShutdown(r)
  PROVE  Inductive'
<1> USE OutboxAssumption DEF Inductive, rowVars, leaseVars, relayVars, brokerVars
<1>1. TypeOK'
  BY DEF TypeOK, SignalShutdown
<1>2. /\ OpenIsUncommitted'
      /\ LeasedIsPending'
      /\ BatchHasToken'
      /\ CurrentIsLeased'
      /\ TokensDiffer'
      /\ LeaseIntact'
      /\ AcceptedIsSettling'
      /\ OnlyCommittedIsSent'
      /\ ConfirmedWasAccepted'
      /\ RepeatedOnlyAfterFault'
  BY DEF SignalShutdown, OpenIsUncommitted, LeasedIsPending, BatchHasToken,
         CurrentIsLeased, TokensDiffer, LeaseIntact, AcceptedIsSettling,
         OnlyCommittedIsSent, ConfirmedWasAccepted, RepeatedOnlyAfterFault
<1>3. QED
  BY <1>1, <1>2

\* An idle relay stops (run_until).
LEMMA StopStep ==
  ASSUME Inductive, NEW r \in Relay, Stop(r)
  PROVE  Inductive'
<1> USE OutboxAssumption DEF Inductive, rowVars, leaseVars, relayVars, brokerVars
<1>1. TypeOK'
  BY DEF TypeOK, Stop, EndLoop
<1>2. BatchHasToken'
  BY DEF BatchHasToken, Stop, EndLoop
<1>3. CurrentIsLeased'
  BY DEF CurrentIsLeased, Stop, EndLoop
<1>4. TokensDiffer'
  BY DEF TokensDiffer, Stop, EndLoop
<1>5. LeaseIntact'
  BY DEF LeaseIntact, Stop, EndLoop, TypeOK
<1>6. AcceptedIsSettling'
  BY DEF AcceptedIsSettling, Stop, EndLoop
<1>7. /\ OpenIsUncommitted'
      /\ LeasedIsPending'
      /\ OnlyCommittedIsSent'
      /\ ConfirmedWasAccepted'
      /\ RepeatedOnlyAfterFault'
  BY DEF Stop, EndLoop, OpenIsUncommitted, LeasedIsPending,
         OnlyCommittedIsSent, ConfirmedWasAccepted, RepeatedOnlyAfterFault
<1>8. QED
  BY <1>1, <1>2, <1>3, <1>4, <1>5, <1>6, <1>7

\* A relay leases a batch under a fresh token (lease).
LEMMA LeaseStep ==
  ASSUME Inductive, NEW r \in Relay, Lease(r)
  PROVE  Inductive'
<1> USE OutboxAssumption DEF Inductive, rowVars, leaseVars, relayVars, brokerVars
<1>1. TypeOK'
  BY DEF TypeOK, Lease, Claims, Claim, Eligible
<1>2. LeasedIsPending'
  BY DEF LeasedIsPending, Lease, Claims, Claim, Eligible
<1>3. BatchHasToken'
  BY DEF BatchHasToken, Lease, Claims, Eligible, TypeOK
<1>4. CurrentIsLeased'
  BY DEF CurrentIsLeased, Lease
<1>5. TokensDiffer'
  BY DEF TokensDiffer, Lease, Fresh
<1>6. LeaseIntact'
  BY DEF LeaseIntact, TypeOK, BatchHasToken, Lease, Claims, Claim, Eligible
<1>7. AcceptedIsSettling'
  BY DEF AcceptedIsSettling, Lease
<1>8. /\ OpenIsUncommitted'
      /\ OnlyCommittedIsSent'
      /\ ConfirmedWasAccepted'
      /\ RepeatedOnlyAfterFault'
  BY DEF Lease, OpenIsUncommitted, OnlyCommittedIsSent,
         ConfirmedWasAccepted, RepeatedOnlyAfterFault
<1>9. QED
  BY <1>1, <1>2, <1>3, <1>4, <1>5, <1>6, <1>7, <1>8

\* The lease statement fails, or its answer is lost (lease).
LEMMA LeaseErrorStep ==
  ASSUME Inductive, NEW r \in Relay, LeaseError(r)
  PROVE  Inductive'
<1> USE OutboxAssumption DEF Inductive, rowVars, leaseVars, relayVars, brokerVars
<1>1. TypeOK'
  BY DEF TypeOK, LeaseError, EndLoop, Claim
<1>2. LeasedIsPending'
  BY DEF LeasedIsPending, LeaseError, Claims, Claim, Eligible
<1>3. BatchHasToken'
  BY DEF BatchHasToken, LeaseError, EndLoop
<1>4. CurrentIsLeased'
  BY DEF CurrentIsLeased, LeaseError, EndLoop
<1>5. TokensDiffer'
  BY DEF TokensDiffer, LeaseError, EndLoop
<1>6. LeaseIntact'
  BY DEF LeaseIntact, TypeOK, BatchHasToken, LeaseError, EndLoop, Claims,
         Claim, Eligible
<1>7. AcceptedIsSettling'
  BY DEF AcceptedIsSettling, LeaseError, EndLoop
<1>8. /\ OpenIsUncommitted'
      /\ OnlyCommittedIsSent'
      /\ ConfirmedWasAccepted'
      /\ RepeatedOnlyAfterFault'
  BY DEF LeaseError, EndLoop, OpenIsUncommitted, OnlyCommittedIsSent,
         ConfirmedWasAccepted, RepeatedOnlyAfterFault
<1>9. QED
  BY <1>1, <1>2, <1>3, <1>4, <1>5, <1>6, <1>7, <1>8

\* The broker accepts the next row of a batch (relay_once_inner).  That a
\* row without a fault is accepted once rests on TokensDiffer and LeaseIntact.
LEMMA PublishOkStep ==
  ASSUME Inductive, NEW r \in Relay, NEW m \in Msg, PublishOk(r, m)
  PROVE  Inductive'
<1> USE OutboxAssumption DEF Inductive, rowVars, leaseVars, relayVars, brokerVars
<1>1. TypeOK'
  BY DEF TypeOK, PublishOk, Accept
<1>2. BatchHasToken'
  BY DEF BatchHasToken, PublishOk
<1>3. CurrentIsLeased'
  BY DEF CurrentIsLeased, PublishOk, Accept, First, TypeOK
<1>4. AcceptedIsSettling'
  BY DEF AcceptedIsSettling, PublishOk, Accept, TypeOK
<1>5. OnlyCommittedIsSent'
  BY DEF OnlyCommittedIsSent, BatchHasToken, PublishOk, Accept, First
<1>6. ConfirmedWasAccepted'
  BY DEF ConfirmedWasAccepted, PublishOk, Accept
<1>7. RepeatedOnlyAfterFault'
  BY DEF RepeatedOnlyAfterFault, LeasedIsPending, BatchHasToken,
         CurrentIsLeased, TokensDiffer, LeaseIntact, AcceptedIsSettling,
         PublishOk, Accept, First
<1>8. /\ OpenIsUncommitted'
      /\ LeasedIsPending'
      /\ TokensDiffer'
      /\ LeaseIntact'
  BY DEF PublishOk, OpenIsUncommitted, LeasedIsPending, TokensDiffer,
         LeaseIntact
<1>9. QED
  BY <1>1, <1>2, <1>3, <1>4, <1>5, <1>6, <1>7, <1>8

\* The publisher reports an error for the next row (relay_once_inner).
LEMMA PublishErrorStep ==
  ASSUME Inductive, NEW r \in Relay, NEW m \in Msg, PublishError(r, m)
  PROVE  Inductive'
<1> USE OutboxAssumption DEF Inductive, rowVars, leaseVars, relayVars, brokerVars
<1>1. TypeOK'
  BY DEF TypeOK, PublishError, Accept
<1>2. BatchHasToken'
  BY DEF BatchHasToken, PublishError
<1>3. CurrentIsLeased'
  BY DEF CurrentIsLeased, PublishError, Accept, First, TypeOK
<1>4. LeaseIntact'
  BY DEF LeaseIntact, PublishError
<1>5. AcceptedIsSettling'
  BY DEF AcceptedIsSettling, PublishError, Accept
<1>6. OnlyCommittedIsSent'
  BY DEF OnlyCommittedIsSent, BatchHasToken, PublishError, Accept, First
<1>7. ConfirmedWasAccepted'
  BY DEF ConfirmedWasAccepted, PublishError, Accept
<1>8. RepeatedOnlyAfterFault'
  BY DEF RepeatedOnlyAfterFault, PublishError, Accept
<1>9. /\ OpenIsUncommitted'
      /\ LeasedIsPending'
      /\ TokensDiffer'
  BY DEF PublishError, OpenIsUncommitted, LeasedIsPending, TokensDiffer
<1>10. QED
  BY <1>1, <1>2, <1>3, <1>4, <1>5, <1>6, <1>7, <1>8, <1>9

\* The published row is confirmed, or the lease was lost (acknowledge).
LEMMA AcknowledgeStep ==
  ASSUME Inductive, NEW r \in Relay, Acknowledge(r)
  PROVE  Inductive'
<1> USE OutboxAssumption DEF Inductive, rowVars, leaseVars, relayVars, brokerVars
<1>1. TypeOK'
  BY DEF TypeOK, CurrentIsLeased, Acknowledge, SetPublished
<1>2. LeasedIsPending'
  BY DEF LeasedIsPending, Acknowledge, SetPublished, TypeOK
<1>3. BatchHasToken'
  BY DEF BatchHasToken, Acknowledge, TypeOK
<1>4. CurrentIsLeased'
  BY DEF CurrentIsLeased, Acknowledge, TypeOK
<1>5. TokensDiffer'
  BY DEF TokensDiffer, Acknowledge, TypeOK
<1>6. LeaseIntact'
  BY DEF LeaseIntact, TypeOK, TokensDiffer, Acknowledge, Owns, SetPublished
<1>7. AcceptedIsSettling'
  BY DEF AcceptedIsSettling, TypeOK, CurrentIsLeased, LeaseIntact,
         Acknowledge, Owns, SetPublished
<1>8. ConfirmedWasAccepted'
  BY DEF ConfirmedWasAccepted, CurrentIsLeased, Acknowledge, SetPublished
<1>9. /\ OpenIsUncommitted'
      /\ OnlyCommittedIsSent'
      /\ RepeatedOnlyAfterFault'
  BY DEF Acknowledge, OpenIsUncommitted, OnlyCommittedIsSent,
         RepeatedOnlyAfterFault
<1>10. QED
  BY <1>1, <1>2, <1>3, <1>4, <1>5, <1>6, <1>7, <1>8, <1>9

\* The confirmation fails, or its answer is lost (acknowledge).
LEMMA AcknowledgeErrorStep ==
  ASSUME Inductive, NEW r \in Relay, AcknowledgeError(r)
  PROVE  Inductive'
<1> USE OutboxAssumption DEF Inductive, rowVars, leaseVars, relayVars, brokerVars
<1>1. TypeOK'
  BY DEF TypeOK, CurrentIsLeased, AcknowledgeError, EndLoop, SetPublished
<1>2. LeasedIsPending'
  BY DEF LeasedIsPending, AcknowledgeError, SetPublished, TypeOK
<1>3. BatchHasToken'
  BY DEF BatchHasToken, AcknowledgeError, EndLoop, TypeOK
<1>4. CurrentIsLeased'
  BY DEF CurrentIsLeased, AcknowledgeError, EndLoop, TypeOK
<1>5. TokensDiffer'
  BY DEF TokensDiffer, AcknowledgeError, EndLoop
<1>6. LeaseIntact'
  BY DEF LeaseIntact, AcknowledgeError, EndLoop, SetPublished, TypeOK
<1>7. AcceptedIsSettling'
  BY DEF AcceptedIsSettling, AcknowledgeError, EndLoop, SetPublished
<1>8. ConfirmedWasAccepted'
  BY DEF ConfirmedWasAccepted, CurrentIsLeased, AcknowledgeError,
         SetPublished
<1>9. RepeatedOnlyAfterFault'
  BY DEF RepeatedOnlyAfterFault, AcknowledgeError
<1>10. /\ OpenIsUncommitted'
       /\ OnlyCommittedIsSent'
  BY DEF AcknowledgeError, EndLoop, OpenIsUncommitted, OnlyCommittedIsSent
<1>11. QED
  BY <1>1, <1>2, <1>3, <1>4, <1>5, <1>6, <1>7, <1>8, <1>9, <1>10

\* The failed row is released and the loop ends (retry).
LEMMA RetryStep ==
  ASSUME Inductive, NEW r \in Relay, Retry(r)
  PROVE  Inductive'
<1> USE OutboxAssumption DEF Inductive, rowVars, leaseVars, relayVars, brokerVars
<1>1. TypeOK'
  BY DEF TypeOK, CurrentIsLeased, Retry, EndLoop, Release
<1>2. LeasedIsPending'
  BY DEF LeasedIsPending, Retry, Release, TypeOK
<1>3. BatchHasToken'
  BY DEF BatchHasToken, Retry, EndLoop, TypeOK
<1>4. CurrentIsLeased'
  BY DEF CurrentIsLeased, Retry, EndLoop, TypeOK
<1>5. TokensDiffer'
  BY DEF TokensDiffer, Retry, EndLoop
<1>6. LeaseIntact'
  BY DEF LeaseIntact, TypeOK, TokensDiffer, Retry, EndLoop, Owns, Release
<1>7. AcceptedIsSettling'
  BY DEF AcceptedIsSettling, Retry, EndLoop
<1>8. /\ OpenIsUncommitted'
      /\ OnlyCommittedIsSent'
      /\ ConfirmedWasAccepted'
      /\ RepeatedOnlyAfterFault'
  BY DEF Retry, EndLoop, OpenIsUncommitted, OnlyCommittedIsSent,
         ConfirmedWasAccepted, RepeatedOnlyAfterFault
<1>9. QED
  BY <1>1, <1>2, <1>3, <1>4, <1>5, <1>6, <1>7, <1>8

\* The relay process dies.
LEMMA CrashStep ==
  ASSUME Inductive, NEW r \in Relay, Crash(r)
  PROVE  Inductive'
<1> USE OutboxAssumption DEF Inductive, rowVars, leaseVars, relayVars, brokerVars
<1>1. TypeOK'
  BY DEF TypeOK, CurrentIsLeased, Crash, EndLoop
<1>2. BatchHasToken'
  BY DEF BatchHasToken, Crash, EndLoop, TypeOK
<1>3. CurrentIsLeased'
  BY DEF CurrentIsLeased, Crash, EndLoop, TypeOK
<1>4. TokensDiffer'
  BY DEF TokensDiffer, Crash, EndLoop
<1>5. LeaseIntact'
  BY DEF LeaseIntact, Crash, EndLoop, TypeOK
<1>6. AcceptedIsSettling'
  BY DEF AcceptedIsSettling, Crash, EndLoop
<1>7. RepeatedOnlyAfterFault'
  BY DEF RepeatedOnlyAfterFault, Crash
<1>8. /\ OpenIsUncommitted'
      /\ LeasedIsPending'
      /\ OnlyCommittedIsSent'
      /\ ConfirmedWasAccepted'
  BY DEF Crash, EndLoop, OpenIsUncommitted, LeasedIsPending,
         OnlyCommittedIsSent, ConfirmedWasAccepted
<1>9. QED
  BY <1>1, <1>2, <1>3, <1>4, <1>5, <1>6, <1>7, <1>8

-----------------------------------------------------------------------------
(* The theorems.                                                           *)

\* The empty outbox satisfies the inductive invariant.
LEMMA InitInductive == Init => Inductive
BY OutboxAssumption
   DEF Init, Inductive, TypeOK, OpenIsUncommitted, LeasedIsPending,
       BatchHasToken, CurrentIsLeased, TokensDiffer, LeaseIntact,
       AcceptedIsSettling, OnlyCommittedIsSent, ConfirmedWasAccepted,
       RepeatedOnlyAfterFault

\* A step that leaves every column and every loop alone.
LEMMA StutterInductive ==
  ASSUME Inductive, UNCHANGED vars
  PROVE  Inductive'
BY DEF Inductive, vars, TypeOK, OpenIsUncommitted, LeasedIsPending,
       BatchHasToken, CurrentIsLeased, TokensDiffer, LeaseIntact,
       AcceptedIsSettling, OnlyCommittedIsSent, ConfirmedWasAccepted,
       RepeatedOnlyAfterFault

\* Every step of producers, relays and the clock preserves the invariant.
LEMMA NextInductive ==
  ASSUME Inductive, Next
  PROVE  Inductive'
BY StageStep, CommitStep, RollbackStep, DueStep, LeaseExpiresStep, StartStep,
   SignalShutdownStep, StopStep, LeaseStep, LeaseErrorStep, PublishOkStep,
   PublishErrorStep, AcknowledgeStep, AcknowledgeErrorStep, RetryStep, CrashStep
   DEF Next

\* The invariant holds in every reachable state.
THEOREM InductiveHolds == Spec => []Inductive
<1>1. Inductive /\ [Next]_vars => Inductive'
  BY NextInductive, StutterInductive
<1>2. QED
  BY <1>1, InitInductive, PTL DEF Spec

\* Every column and every relay variable keeps its type.
THEOREM TypeCorrect == Spec => []TypeOK
<1>1. Inductive => TypeOK
  BY DEF Inductive
<1>2. QED
  BY <1>1, InductiveHolds, PTL

\* The broker only ever sees messages of committed transactions, and a row is
\* confirmed only after the broker accepted it (stage, lease, acknowledge).
THEOREM SentAndConfirmed == Spec => [](OnlyCommittedIsSent /\ ConfirmedWasAccepted)
<1>1. Inductive => OnlyCommittedIsSent /\ ConfirmedWasAccepted
  BY DEF Inductive
<1>2. QED
  BY <1>1, InductiveHolds, PTL

\* A message is accepted twice only after a fault its row met: however many
\* relays compete, shut down and restart, the lease alone never duplicates.
THEOREM NoDuplicateWithoutFault == Spec => []RepeatedOnlyAfterFault
<1>1. Inductive => RepeatedOnlyAfterFault
  BY DEF Inductive
<1>2. QED
  BY <1>1, InductiveHolds, PTL

\* At most one relay can still settle a row (the WHERE of acknowledge, retry).
THEOREM SingleOwner == Spec => []OneOwner
<1>1. Inductive => OneOwner
  <2> SUFFICES ASSUME Inductive, NEW r \in Relay, NEW q \in Relay, NEW m \in Msg,
                      m \in todo[r], Owns(r, m), m \in todo[q], Owns(q, m)
               PROVE  r = q
    BY DEF OneOwner
  <2>1. held[r] = held[q]
    BY DEF Owns
  <2>2. held[r] # None
    <3>1. pc[r] \in {"publish", "acknowledge", "retry"}
      BY DEF Inductive, TypeOK, BatchHasToken
    <3>2. QED
      BY <3>1, OutboxAssumption DEF Inductive, BatchHasToken
  <2>3. QED
    BY <2>1, <2>2 DEF Inductive, TokensDiffer
<1>2. QED
  BY <1>1, InductiveHolds, PTL

-----------------------------------------------------------------------------
(* What a step may never do.                                               *)

\* What a step does to published_at and last_failure_kind: nothing, or it
\* confirms one row, or it marks one unconfirmed row as failed.
SettlesOneRow ==
  \/ UNCHANGED <<failed, published>>
  \/ \E m \in Msg : published' = published \cup {m} /\ failed' = failed \ {m}
  \/ \E m \in Msg \ published : failed' = failed \cup {m} /\ UNCHANGED published

\* Only acknowledge and retry write the two columns, each for the row of the
\* lease it holds.
LEMMA SettleStep ==
  ASSUME Inductive, Next
  PROVE  SettlesOneRow
<1> USE OutboxAssumption DEF SettlesOneRow, rowVars, leaseVars
<1>1. ASSUME NEW p \in Producer, NEW m \in Msg, NEW delayed \in BOOLEAN,
             Stage(p, m, delayed)
      PROVE  SettlesOneRow
  BY <1>1 DEF Stage
<1>2. ASSUME NEW p \in Producer, Commit(p) \/ Rollback(p)
      PROVE  SettlesOneRow
  BY <1>2 DEF Commit, Rollback
<1>3. ASSUME NEW m \in Msg, Due(m) \/ LeaseExpires(m)
      PROVE  SettlesOneRow
  BY <1>3 DEF Due, LeaseExpires
<1>4. ASSUME NEW r \in Relay, \/ Start(r) \/ SignalShutdown(r) \/ Stop(r)
                              \/ Lease(r) \/ LeaseError(r) \/ Crash(r)
      PROVE  SettlesOneRow
  BY <1>4 DEF Start, SignalShutdown, Stop, Lease, LeaseError, Crash
<1>5. ASSUME NEW r \in Relay, NEW m \in Msg, PublishOk(r, m) \/ PublishError(r, m)
      PROVE  SettlesOneRow
  BY <1>5 DEF PublishOk, PublishError
<1>6. ASSUME NEW r \in Relay, Acknowledge(r) \/ AcknowledgeError(r)
      PROVE  SettlesOneRow
  BY <1>6 DEF Acknowledge, AcknowledgeError, SetPublished, Inductive, TypeOK,
              CurrentIsLeased
<1>7. ASSUME NEW r \in Relay, Retry(r)
      PROVE  SettlesOneRow
  BY <1>7 DEF Retry, Release, Owns, Inductive, TypeOK, CurrentIsLeased
<1>8. QED
  BY <1>1, <1>2, <1>3, <1>4, <1>5, <1>6, <1>7 DEF Next

\* A confirmed row shows no failure.
ConfirmedNotFailed == published \cap failed = {}

\* A confirmed row stays confirmed, unleased and without failure, whatever a
\* late relay still does with its batch (acknowledge, retry).
THEOREM ConfirmedStaysFinal == Spec => ConfirmedIsFinal
<1> DEFINE Final == \A m \in published : /\ m \in published'
                                         /\ token'[m] = None
                                         /\ m \notin failed'
<1>1. Init => ConfirmedNotFailed
  BY DEF Init, ConfirmedNotFailed
<1>2. Inductive /\ ConfirmedNotFailed /\ [Next]_vars => ConfirmedNotFailed'
  BY SettleStep DEF ConfirmedNotFailed, SettlesOneRow, vars
<1>3. Inductive /\ Inductive' /\ ConfirmedNotFailed /\ ConfirmedNotFailed' /\ [Next]_vars
        => [Final]_vars
  <2> SUFFICES ASSUME Inductive, Inductive', ConfirmedNotFailed', Next,
                      NEW m \in published
               PROVE  m \in published' /\ token'[m] = None /\ m \notin failed'
    OBVIOUS
  <2>1. m \in published'
    BY SettleStep DEF SettlesOneRow
  <2>2. m \in Msg
    BY DEF Inductive, TypeOK
  <2>3. QED
    BY <2>1, <2>2 DEF Inductive, LeasedIsPending, ConfirmedNotFailed
<1>4. QED
  BY <1>1, <1>2, <1>3, InductiveHolds, PTL DEF Spec, ConfirmedIsFinal

\* The statement a lease may end by: it has run out, or its holder settles
\* the row it published last.
MayLose(m) ==
  \/ m \in expired
  \/ \E r \in Relay : /\ held[r] = token[m]
                      /\ cur[r] = m
                      /\ pc[r] \in {"acknowledge", "retry"}

\* Only an expired lease is taken over by another relay's lease statement.
LEMMA ClaimTakesExpired ==
  ASSUME Inductive, NEW r \in Relay, Lease(r) \/ LeaseError(r),
         NEW m \in Msg, token[m] # None, token'[m] # token[m]
  PROVE  MayLose(m)
BY DEF Lease, LeaseError, Claims, Claim, Eligible, MayLose, Inductive, TypeOK

\* Acknowledge and retry clear the token of their own row only.
LEMMA SettleClearsOwn ==
  ASSUME Inductive, NEW r \in Relay,
         Acknowledge(r) \/ AcknowledgeError(r) \/ Retry(r),
         NEW m \in Msg, token[m] # None, token'[m] # token[m]
  PROVE  MayLose(m)
BY DEF Acknowledge, AcknowledgeError, Retry, SetPublished, Release, Owns,
       leaseVars, MayLose, Inductive, TypeOK

\* No other step writes lease_token.
LEMMA OthersKeepTokens ==
  ASSUME \/ \E p \in Producer, m \in Msg, delayed \in BOOLEAN : Stage(p, m, delayed)
         \/ \E p \in Producer : Commit(p) \/ Rollback(p)
         \/ \E m \in Msg : Due(m) \/ LeaseExpires(m)
         \/ \E r \in Relay : Start(r) \/ SignalShutdown(r) \/ Stop(r) \/ Crash(r)
         \/ \E r \in Relay, m \in Msg : PublishOk(r, m) \/ PublishError(r, m)
  PROVE  token' = token
BY DEF Stage, Commit, Rollback, Due, LeaseExpires, Start, SignalShutdown, Stop,
       Crash, PublishOk, PublishError, rowVars, leaseVars

\* A running lease is never taken from its relay.
THEOREM LeaseRespected == Spec => LeaseIsRespected
<1>1. Inductive /\ [Next]_vars =>
        [\A m \in Msg : token[m] # None /\ token'[m] # token[m] => MayLose(m)]_vars
  <2> SUFFICES ASSUME Inductive, Next,
                      NEW m \in Msg, token[m] # None, token'[m] # token[m]
               PROVE  MayLose(m)
    OBVIOUS
  <2>1. CASE \E r \in Relay : Lease(r) \/ LeaseError(r)
    BY <2>1, ClaimTakesExpired
  <2>2. CASE \E r \in Relay : Acknowledge(r) \/ AcknowledgeError(r) \/ Retry(r)
    BY <2>2, SettleClearsOwn
  <2>3. QED
    BY <2>1, <2>2, OthersKeepTokens DEF Next
<1>2. QED
  BY <1>1, InductiveHolds, PTL DEF Spec, LeaseIsRespected, MayLose

-----------------------------------------------------------------------------
(* The outbox implements at-least-once delivery.                           *)

\* The commit of a transaction adds new messages.
LEMMA CommitAdds ==
  ASSUME Inductive, NEW p \in Producer, Commit(p)
  PROVE  \E S \in SUBSET Msg : Promise!CommitSome(S)
<1>1. txn[p] \in SUBSET Msg
  BY DEF Inductive, TypeOK
<1>2. Promise!CommitSome(txn[p])
  BY DEF Commit, Promise!CommitSome, Inductive, OpenIsUncommitted, leaseVars, brokerVars
<1>3. QED
  BY <1>1, <1>2

\* The broker accepts a committed message, or hears nothing.
LEMMA PublishSends ==
  ASSUME Inductive, NEW r \in Relay, NEW m \in Msg,
         PublishOk(r, m) \/ PublishError(r, m)
  PROVE  Promise!Send(m) \/ UNCHANGED Promise!avars
BY DEF PublishOk, PublishError, Accept, First, Promise!Send, Promise!avars,
       Inductive, BatchHasToken, rowVars, brokerVars

\* A confirmation retires an accepted message, or changes nothing.
LEMMA AcknowledgeRetires ==
  ASSUME Inductive, NEW r \in Relay, Acknowledge(r) \/ AcknowledgeError(r)
  PROVE  Promise!Retire(cur[r]) \/ UNCHANGED Promise!avars
BY DEF Acknowledge, AcknowledgeError, SetPublished, Owns, Promise!Retire, Promise!avars,
       Inductive, CurrentIsLeased, leaseVars, brokerVars

\* Every other step is invisible to the promise.
LEMMA OthersStutter ==
  ASSUME \/ \E p \in Producer, m \in Msg, delayed \in BOOLEAN : Stage(p, m, delayed)
         \/ \E p \in Producer : Rollback(p)
         \/ \E m \in Msg : Due(m) \/ LeaseExpires(m)
         \/ \E r \in Relay : \/ Start(r) \/ SignalShutdown(r) \/ Stop(r)
                             \/ Lease(r) \/ LeaseError(r) \/ Retry(r) \/ Crash(r)
  PROVE  UNCHANGED Promise!avars
BY DEF Stage, Rollback, Due, LeaseExpires, Start, SignalShutdown, Stop, Lease,
       LeaseError, Retry, Crash, Promise!avars, rowVars, leaseVars, brokerVars

\* Every behaviour of the outbox is one of AtLeastOnce: messages become known
\* by a commit only, are sent after it and retired after that.
THEOREM OutboxRefinesPromise == Spec => ImplementsAtLeastOnce
<1>1. Init => Promise!AInit
  BY DEF Init, Promise!AInit
<1>2. Inductive /\ [Next]_vars => [Promise!ANext]_(Promise!avars)
  <2> SUFFICES ASSUME Inductive, [Next]_vars
               PROVE  Promise!ANext \/ UNCHANGED Promise!avars
    OBVIOUS
  <2>1. CASE \E p \in Producer : Commit(p)
    BY <2>1, CommitAdds DEF Promise!ANext
  <2>2. CASE \E r \in Relay, m \in Msg : PublishOk(r, m) \/ PublishError(r, m)
    BY <2>2, PublishSends DEF Promise!ANext
  <2>3. CASE \E r \in Relay : Acknowledge(r) \/ AcknowledgeError(r)
    <3>1. PICK r \in Relay : Acknowledge(r) \/ AcknowledgeError(r)
      BY <2>3
    <3>2. cur[r] \in Msg
      BY <3>1 DEF Acknowledge, AcknowledgeError, Inductive, TypeOK, CurrentIsLeased
    <3>3. QED
      BY <3>1, <3>2, AcknowledgeRetires DEF Promise!ANext
  <2>4. CASE UNCHANGED vars
    BY <2>4 DEF vars, Promise!avars
  <2>5. QED
    BY <2>1, <2>2, <2>3, <2>4, OthersStutter DEF Next
<1>3. QED
  BY <1>1, <1>2, InductiveHolds, PTL DEF Spec, ImplementsAtLeastOnce, Promise!ASpec
=============================================================================
