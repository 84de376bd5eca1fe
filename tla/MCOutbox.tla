------------------------------ MODULE MCOutbox ------------------------------
(* Instances of Outbox for TLC. *)
EXTENDS Outbox, TLC

CONSTANTS m1, m2, m3

\* The first message outranks the others, which compete by age.
MCPriority == [m \in Msg |-> IF m = m1 THEN 9 ELSE 0]

Symmetry == Permutations(Relay) \cup Permutations(Token)
=============================================================================
