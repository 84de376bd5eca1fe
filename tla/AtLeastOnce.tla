---------------------------- MODULE AtLeastOnce ----------------------------
(***************************************************************************)
(* What the transactional outbox promises (ADR 0028, the crate's           *)
(* documentation): a message whose business transaction committed is       *)
(* handed to the broker, possibly several times, and is retired only       *)
(* after that.  Nothing else is handed over.                               *)
(***************************************************************************)
CONSTANT Msg

VARIABLES
  committed,  \* messages of committed transactions
  sent,       \* messages the broker has accepted
  retired     \* messages the sender is finished with

avars == <<committed, sent, retired>>

AInit == committed = {} /\ sent = {} /\ retired = {}

CommitSome(S) ==
  /\ S # {}
  /\ S \cap committed = {}
  /\ committed' = committed \cup S
  /\ UNCHANGED <<sent, retired>>

Send(m) ==
  /\ m \in committed
  /\ sent' = sent \cup {m}
  /\ UNCHANGED <<committed, retired>>

Retire(m) ==
  /\ m \in sent \ retired
  /\ retired' = retired \cup {m}
  /\ UNCHANGED <<committed, sent>>

ANext ==
  \/ \E S \in SUBSET Msg : CommitSome(S)
  \/ \E m \in Msg : Send(m) \/ Retire(m)

ASpec == AInit /\ [][ANext]_avars

AFairSpec ==
  ASpec /\ \A m \in Msg : WF_avars(Send(m)) /\ WF_avars(Retire(m))
=============================================================================
