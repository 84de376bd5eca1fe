------------------------------- MODULE Inbox -------------------------------
(***************************************************************************)
(* Consumers that keep PostgresInbox receipts (rustee-outbox-sqlx,         *)
(* inbox.rs), behind a sender that promises no more than AtLeastOnce, which*)
(* is what the outbox implements.  The broker keeps a delivery until it is *)
(* settled and may hand it to several workers at once (a redelivery, an    *)
(* expired visibility, a repeated publication).  A handler registers the   *)
(* receipt in the transaction of its database effect.                      *)
(***************************************************************************)
EXTENDS AtLeastOnce, Naturals

CONSTANTS
  Consumer,   \* consumer identities, the scopes of the receipt ledger
  Worker,     \* handler executions
  ConsumerOf, \* the consumer identity a worker uses
  None

ASSUME InboxAssumption ==
  /\ ConsumerOf \in [Worker -> Consumer]
  /\ None \notin Msg

VARIABLES
  queue,     \* deliveries the broker still has to settle, per consumer
  receipts,  \* committed rows of rustee_inbox
  effects,   \* how often the effect of a delivery was committed
  wpc,       \* each worker: "idle", "begun", "first", "settle"
  wmsg       \* the message it handles

workerVars == <<wpc, wmsg>>
inboxVars == <<queue, receipts, effects, wpc, wmsg>>
ivars == <<committed, sent, retired, queue, receipts, effects, wpc, wmsg>>

Delivery == Consumer \X Msg

InboxTypeOK ==
  /\ committed \subseteq Msg /\ sent \subseteq Msg /\ retired \subseteq Msg
  /\ queue \subseteq Delivery
  /\ receipts \subseteq Delivery
  /\ effects \in [Delivery -> Nat]
  /\ wpc \in [Worker -> {"idle", "begun", "first", "settle"}]
  /\ wmsg \in [Worker -> Msg \cup {None}]
  /\ \A w \in Worker : wpc[w] # "idle" => wmsg[w] \in Msg

InboxInit ==
  /\ AInit
  /\ queue = {} /\ receipts = {}
  /\ effects = [d \in Delivery |-> 0]
  /\ wpc = [w \in Worker |-> "idle"]
  /\ wmsg = [w \in Worker |-> None]

\* The receipt key of what a worker handles.
Handled(w) == <<ConsumerOf[w], wmsg[w]>>

\* Every publication fans out to every consumer, again and again.
Publish(m) ==
  /\ Send(m)
  /\ queue' = queue \cup (Consumer \X {m})
  /\ UNCHANGED <<receipts, effects, workerVars>>

SenderStep ==
  /\ \/ \E S \in SUBSET Msg : CommitSome(S)
     \/ \E m \in Msg : Retire(m)
  /\ UNCHANGED inboxVars

Receive(w, m) ==
  /\ wpc[w] = "idle"
  /\ <<ConsumerOf[w], m>> \in queue
  /\ wpc' = [wpc EXCEPT ![w] = "begun"]
  /\ wmsg' = [wmsg EXCEPT ![w] = m]
  /\ UNCHANGED <<avars, queue, receipts, effects>>

\* Mutant of Register: the receipt is committed before the effect.
RegisterAlone(w) ==
  /\ wpc[w] = "begun"
  /\ receipts' = receipts \cup {Handled(w)}
  /\ wpc' = [wpc EXCEPT ![w] = IF Handled(w) \in receipts THEN "settle" ELSE "first"]
  /\ UNCHANGED <<avars, queue, effects, wmsg>>

\* INSERT ... ON CONFLICT DO NOTHING waits for another open transaction that
\* has inserted the key, then is the first delivery or a duplicate.
Register(w) ==
  /\ wpc[w] = "begun"
  /\ \A v \in Worker \ {w} : wpc[v] = "first" => Handled(v) # Handled(w)
  /\ wpc' = [wpc EXCEPT ![w] = IF Handled(w) \in receipts THEN "settle" ELSE "first"]
  /\ UNCHANGED <<avars, queue, receipts, effects, wmsg>>

\* The receipt and the effect commit together; the answer may be lost, and
\* then the handler fails and the delivery stays.
CommitEffect(w) ==
  /\ wpc[w] = "first"
  /\ receipts' = receipts \cup {Handled(w)}
  /\ effects' = [effects EXCEPT ![Handled(w)] = @ + 1]
  /\ \E then \in {"settle", "idle"} : wpc' = [wpc EXCEPT ![w] = then]
  /\ UNCHANGED <<avars, queue, wmsg>>

\* Handler failure, rollback, crash or a lost settlement.
Abandon(w) ==
  /\ wpc[w] # "idle"
  /\ wpc' = [wpc EXCEPT ![w] = "idle"]
  /\ UNCHANGED <<avars, queue, receipts, effects, wmsg>>

Settle(w) ==
  /\ wpc[w] = "settle"
  /\ queue' = queue \ {Handled(w)}
  /\ wpc' = [wpc EXCEPT ![w] = "idle"]
  /\ UNCHANGED <<avars, receipts, effects, wmsg>>

InboxNext ==
  \/ SenderStep
  \/ \E m \in Msg : Publish(m)
  \/ \E w \in Worker, m \in Msg : Receive(w, m)
  \/ \E w \in Worker : Register(w) \/ CommitEffect(w) \/ Abandon(w) \/ Settle(w)

InboxSpec == InboxInit /\ [][InboxNext]_ivars

\* The sender's promise, and workers that go on: a handler that is tried again
\* and again does not fail each time.
InboxFairness ==
  /\ \A m \in Msg : WF_ivars(Publish(m))
  /\ \A w \in Worker, m \in Msg :
       /\ SF_ivars(Receive(w, m))
       /\ SF_ivars(Register(w) /\ wmsg[w] = m)
       /\ SF_ivars(CommitEffect(w) /\ wmsg[w] = m)

InboxFairSpec == InboxSpec /\ InboxFairness

-----------------------------------------------------------------------------

\* The effect of a message is committed at most once per consumer, although
\* publication repeats, deliveries overlap, and answers are lost (register).
EffectAtMostOnce == \A d \in Delivery : effects[d] <= 1

\* A delivery leaves the broker only once its effect is committed: settling a
\* duplicate never loses a message whose first handler failed.
SettledHasEffect ==
  \A c \in Consumer, m \in sent : <<c, m>> \notin queue => effects[<<c, m>>] = 1

\* Consumers with different identities do not share receipts: each of them
\* eventually commits the effect of every committed message.
EffectForEveryConsumer ==
  \A c \in Consumer, m \in Msg : m \in committed ~> effects[<<c, m>>] = 1

(* The effect of a message is committed at most once per consumer, and has been *)
(* committed when a delivery of it leaves the broker.                          *)
EffectExactlyOnce ==
  /\ EffectAtMostOnce
  /\ SettledHasEffect
=============================================================================
