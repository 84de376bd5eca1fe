---------------------------- MODULE InboxProofs ----------------------------
(* One effect per consumer and message, and none lost, for any messages,    *)
(* consumers and workers.                                                   *)
EXTENDS Inbox, TLAPS

\* Neither property is inductive alone.  Receipts and effects go together; a
\* transaction that inserted a receipt holds its key alone and is the first to
\* do so; what is about to be settled has its receipt.
InboxInv ==
  /\ InboxTypeOK
  /\ \A d \in Delivery : effects[d] = IF d \in receipts THEN 1 ELSE 0
  /\ \A w \in Worker : wpc[w] = "first" => Handled(w) \notin receipts
  /\ \A v, w \in Worker :
       v # w /\ wpc[v] = "first" /\ wpc[w] = "first" => Handled(v) # Handled(w)
  /\ \A w \in Worker : wpc[w] = "settle" => Handled(w) \in receipts
  /\ SettledHasEffect

\* A worker that is at a delivery is at one of its own consumer.
LEMMA HandledDelivery ==
  ASSUME InboxTypeOK, NEW w \in Worker, wpc[w] # "idle"
  PROVE  Handled(w) \in Delivery
BY InboxAssumption DEF InboxTypeOK, Handled, Delivery

\* An empty ledger and an empty queue.
LEMMA InboxInitInv == InboxInit => InboxInv
BY InboxAssumption
   DEF InboxInit, AInit, InboxInv, InboxTypeOK, SettledHasEffect, Delivery, Handled

\* The sender changes neither the ledger nor the workers.
LEMMA SenderKeeps == InboxInv /\ SenderStep => InboxInv'
BY DEF InboxInv, InboxTypeOK, SenderStep, CommitSome, Retire, inboxVars, SettledHasEffect,
       Handled, Delivery

\* A publication only adds deliveries.
LEMMA PublishKeeps ==
  ASSUME InboxInv, NEW m \in Msg, Publish(m)
  PROVE  InboxInv'
<1>1. InboxTypeOK'
  BY DEF InboxInv, InboxTypeOK, Publish, Send, workerVars, Delivery
<1>2. SettledHasEffect'
  BY DEF InboxInv, SettledHasEffect, Publish, Send
<1> QED
  BY <1>1, <1>2 DEF InboxInv, Publish, workerVars, Handled

\* A worker that begins holds no key.
LEMMA ReceiveKeeps ==
  ASSUME InboxInv, NEW w \in Worker, NEW m \in Msg, Receive(w, m)
  PROVE  InboxInv'
<1>1. InboxTypeOK'
  BY DEF InboxInv, InboxTypeOK, Receive, avars
<1>2. SettledHasEffect'
  BY DEF InboxInv, SettledHasEffect, Receive, avars
<1>3. \A v \in Worker : v # w => wpc'[v] = wpc[v] /\ Handled(v)' = Handled(v)
  BY DEF InboxInv, InboxTypeOK, Receive, Handled
<1>4. wpc'[w] = "begun"
  BY DEF InboxInv, InboxTypeOK, Receive
<1> QED
  BY <1>1, <1>2, <1>3, <1>4 DEF InboxInv, Receive

\* The inserted key is no other open transaction's, or it is already committed.
LEMMA RegisterKeeps ==
  ASSUME InboxInv, NEW w \in Worker, Register(w)
  PROVE  InboxInv'
<1>1. InboxTypeOK'
  BY DEF InboxInv, InboxTypeOK, Register, avars
<1>2. SettledHasEffect'
  BY DEF InboxInv, SettledHasEffect, Register, avars
<1>3. \A v \in Worker : Handled(v)' = Handled(v) /\ (v # w => wpc'[v] = wpc[v])
  BY DEF InboxInv, InboxTypeOK, Register, Handled
<1>4. wpc'[w] = IF Handled(w) \in receipts THEN "settle" ELSE "first"
  BY DEF InboxInv, InboxTypeOK, Register
<1> QED
  BY <1>1, <1>2, <1>3, <1>4 DEF InboxInv, Register

\* Receipt and effect are committed together, and for the first time.
LEMMA CommitEffectKeeps ==
  ASSUME InboxInv, NEW w \in Worker, CommitEffect(w)
  PROVE  InboxInv'
<1>d. Handled(w) \in Delivery /\ Handled(w) \notin receipts
  BY HandledDelivery DEF InboxInv, CommitEffect
<1>1. InboxTypeOK'
  BY <1>d DEF InboxInv, InboxTypeOK, CommitEffect, avars
<1>2. \A d \in Delivery : effects'[d] = IF d \in receipts' THEN 1 ELSE 0
  BY <1>d DEF InboxInv, InboxTypeOK, CommitEffect
<1>3. \A v \in Worker : Handled(v)' = Handled(v) /\ (v # w => wpc'[v] = wpc[v])
  BY DEF InboxInv, InboxTypeOK, CommitEffect, Handled
<1>4. wpc'[w] \in {"settle", "idle"} /\ wpc[w] = "first"
  BY DEF InboxInv, InboxTypeOK, CommitEffect
<1>5. receipts' = receipts \cup {Handled(w)}
  BY DEF CommitEffect
<1>6. SettledHasEffect'
  <2> SUFFICES ASSUME NEW c \in Consumer, NEW m \in sent, <<c, m>> \notin queue
               PROVE  effects'[<<c, m>>] = 1
    BY DEF SettledHasEffect, CommitEffect, avars
  <2>1. <<c, m>> \in Delivery /\ effects[<<c, m>>] = 1
    BY DEF InboxInv, InboxTypeOK, SettledHasEffect, Delivery
  <2> QED
    BY <2>1, <1>2, <1>5 DEF InboxInv
<1> QED
  BY <1>1, <1>2, <1>3, <1>4, <1>5, <1>6 DEF InboxInv

\* A rollback gives the key back.
LEMMA AbandonKeeps ==
  ASSUME InboxInv, NEW w \in Worker, Abandon(w)
  PROVE  InboxInv'
<1>1. InboxTypeOK'
  BY DEF InboxInv, InboxTypeOK, Abandon, avars
<1>2. SettledHasEffect'
  BY DEF InboxInv, SettledHasEffect, Abandon, avars
<1>3. \A v \in Worker : Handled(v)' = Handled(v) /\ (v # w => wpc'[v] = wpc[v])
  BY DEF InboxInv, InboxTypeOK, Abandon, Handled
<1>4. wpc'[w] = "idle"
  BY DEF InboxInv, InboxTypeOK, Abandon
<1> QED
  BY <1>1, <1>2, <1>3, <1>4 DEF InboxInv, Abandon

\* What leaves the broker has its receipt, and so its effect.
LEMMA SettleKeeps ==
  ASSUME InboxInv, NEW w \in Worker, Settle(w)
  PROVE  InboxInv'
<1>1. InboxTypeOK'
  BY DEF InboxInv, InboxTypeOK, Settle, avars
<1>2. Handled(w) \in Delivery /\ effects[Handled(w)] = 1
  BY HandledDelivery DEF InboxInv, Settle
<1>3. SettledHasEffect'
  BY <1>2 DEF InboxInv, SettledHasEffect, Settle, avars
<1>4. \A v \in Worker : Handled(v)' = Handled(v) /\ (v # w => wpc'[v] = wpc[v])
  BY DEF InboxInv, InboxTypeOK, Settle, Handled
<1>5. wpc'[w] = "idle"
  BY DEF InboxInv, InboxTypeOK, Settle
<1> QED
  BY <1>1, <1>3, <1>4, <1>5 DEF InboxInv, Settle

\* The inductive invariant holds whatever the sender, the broker and the
\* handlers do (PostgresInbox::register in a handler's transaction).
THEOREM InboxInvHolds == InboxSpec => []InboxInv
<1>1. InboxInv /\ [InboxNext]_ivars => InboxInv'
  <2> SUFFICES ASSUME InboxInv, [InboxNext]_ivars
               PROVE  InboxInv'
    OBVIOUS
  <2>1. CASE InboxNext
    BY <2>1, SenderKeeps, PublishKeeps, ReceiveKeeps, RegisterKeeps, CommitEffectKeeps,
       AbandonKeeps, SettleKeeps DEF InboxNext
  <2>2. CASE UNCHANGED ivars
    BY <2>2 DEF ivars, InboxInv, InboxTypeOK, SettledHasEffect, Handled, Delivery
  <2> QED
    BY <2>1, <2>2
<1> QED
  BY InboxInitInv, <1>1, PTL DEF InboxSpec

\* The effect of a message is committed at most once per consumer, for any
\* messages, consumers and workers (PostgresInbox::register).
THEOREM InboxEffectAtMostOnce == InboxSpec => []EffectAtMostOnce
<1>1. InboxInv => EffectAtMostOnce
  BY DEF InboxInv, EffectAtMostOnce
<1> QED
  BY <1>1, InboxInvHolds, PTL

\* A delivery that left the broker has its effect committed.
THEOREM InboxSettledHasEffect == InboxSpec => []SettledHasEffect
<1>1. InboxInv => SettledHasEffect
  BY DEF InboxInv
<1> QED
  BY <1>1, InboxInvHolds, PTL

\* Both at once: at-least-once delivery becomes an effect that is committed
\* exactly once by the time the broker forgets the message (PostgresInbox::register).
THEOREM InboxEffectExactlyOnce == InboxSpec => []EffectExactlyOnce
<1>1. InboxInv => EffectExactlyOnce
  BY DEF InboxInv, EffectExactlyOnce, EffectAtMostOnce, SettledHasEffect
<1> QED BY <1>1, InboxInvHolds, PTL
=============================================================================
