------------------------------ MODULE JobRetry ------------------------------
(***************************************************************************)
(* RetryPolicy of crates/rustee-jobs (delivery/retry.rs): which action     *)
(* follows a failed delivery, and after which delay.  Durations are in a   *)
(* unit the caller chooses; they saturate at MaxDuration, the multiplier   *)
(* at the u32 bound MaxU32, the attempt number at the u16 bound MaxU16.    *)
(***************************************************************************)
EXTENDS Naturals

CONSTANTS MaxU16, MaxU32, MaxDuration

ASSUME RetryAssumption ==
  /\ MaxU32 \in Nat /\ MaxU32 >= 4
  /\ MaxDuration \in Nat

Lesser(a, b) == IF a < b THEN a ELSE b

\* 2_u32.saturating_pow(n)
SaturatingPower[n \in Nat] ==
  IF n = 0 THEN 1 ELSE Lesser(2 * SaturatingPower[n - 1], MaxU32)

IsValid(policy) ==
  /\ policy.max # 0
  /\ policy.initial # 0
  /\ policy.initial <= policy.cap

Delay(policy, attempt) ==
  Lesser(Lesser(policy.initial * SaturatingPower[attempt - 1], MaxDuration), policy.cap)

DeadLetter == [kind |-> "dead_letter"]

AfterFailure(policy, attempt) ==
  IF ~IsValid(policy) \/ attempt = 0 \/ attempt >= policy.max
  THEN DeadLetter
  ELSE [kind  |-> "retry",
        next  |-> Lesser(attempt + 1, MaxU16),
        delay |-> Delay(policy, attempt)]
=============================================================================
