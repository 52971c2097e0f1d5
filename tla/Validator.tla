----------------------------- MODULE Validator -----------------------------
(***************************************************************************)
(* The validator (validator/src/validate.ts) and the pricing it uses       *)
(* (cal-gas/src): what events a submission gives rise to, as a function of *)
(* the CAL, a snapshot of the State and the execution trace.  It has no    *)
(* state.  The node folds the events afterwards, one at a time.            *)
(*                                                                         *)
(* A trace carries verdicts only: whether the action is registered and the *)
(* pinned schema is the State's (registered), whether operator signature,  *)
(* operator key and scopes are in order (authorized), how many valid owner *)
(* signatures came along (signers), the DSL's verdicts (pre, invariants,   *)
(* emergency), whether every step succeeded with its post-conditions       *)
(* (stepsOk), the Deltas the steps produced (effects) and the gas units    *)
(* of CAL and Deltas without the owner signatures (units).                 *)
(***************************************************************************)
EXTENDS Delta

CONSTANTS
  Cal,               \* the payload of each CAL, by its hash
  Whitelist,         \* BOUNDED_MODE_WHITELIST
  OwnerActions,      \* OWNER_REQUIRED_ACTIONS
  DefaultFee,        \* DEFAULT_FLAT_VALIDATION_FEE
  DefaultGasPrice,   \* DEFAULT_GAS_PRICE
  LimitMultiplier,   \* GAS_LIMIT_FEE_MULTIPLIER
  OwnerAuthBase,     \* OWNER_AUTH_BASE
  VerifyWeight       \* ED25519_VERIFY_WEIGHT

(* The two parameters that price a CAL are leaves of the State. *)
ASSUME PricingAssumption ==
  /\ {"flat_validation_fee", "gas_price"} \subseteq Params
  /\ {DefaultFee, DefaultGasPrice, LimitMultiplier, OwnerAuthBase, VerifyWeight} \subseteq Nat

ParamOr(snap, key, default) ==
  IF snap.leaf[<<"param", key>>] = Absent THEN default ELSE snap.leaf[<<"param", key>>]

Fee(snap) == ParamOr(snap, "flat_validation_fee", DefaultFee)
GasPrice(snap) == ParamOr(snap, "gas_price", DefaultGasPrice)

(* maxExpectedDynamicGas: declared by the CAL, else a multiple of the fee of now. *)
MaxGas(c, snap) ==
  IF Cal[c].gasLimit = Absent THEN Fee(snap) * LimitMultiplier ELSE Cal[c].gasLimit

Least(m, n) == IF m < n THEN m ELSE n

(* Owner authorization: needed by some actions, by all of them in Bounded Mode. *)
OwnerRequired(c, snap) == Cal[c].action \in OwnerActions \/ snap.bounded

HasV2Record(a, snap) == snap.leaf[<<"owners", a>>] # Absent

(* The owner gate: multisigQuorum over a v2 record, one signature for a v1 one. *)
OwnersAgree(a, snap, trace) ==
  LET owners    == snap.leaf[<<"owners", a>>]
      threshold == snap.leaf[<<"threshold", a>>]
  IN  IF HasV2Record(a, snap)
        THEN /\ owners > 0
             /\ trace.signers <= owners
             /\ threshold = Absent \/ trace.signers >= threshold
        ELSE trace.signers > 0

OwnerAuthUnits(k) == IF k = 0 THEN 0 ELSE OwnerAuthBase + k * VerifyWeight

OwnerAuth(c, snap, trace) ==
  IF ~OwnerRequired(c, snap) THEN 0
  ELSE OwnerAuthUnits(IF HasV2Record(Cal[c].agent, snap) THEN trace.signers ELSE 1)

RawGas(c, snap, trace) ==
  (trace.units + OwnerAuth(c, snap, trace)) * GasPrice(snap)

-----------------------------------------------------------------------------
(* Outcomes. *)

(* Section 9.4: which pre-VALIDATED failures are charged the flat fee.       *)
SpamReasons == {"CAPABILITY_DENIED", "PRECOND_FALSE"}
FreeReasons == {"UNKNOWN_ACTION", "BOUNDED_BLOCKED", "EXPIRED", "NONCE_MISMATCH",
                "PRECOND_ERROR", "INSUFFICIENT_ESCROW"}

(* An event: amount is the escrow, charge or refund it carries. *)
Event(type, c, amount, reason) ==
  [type |-> type, cal |-> c, amount |-> amount, gas |-> 0, effects |-> <<>>, reason |-> reason]

ExecutedEvent(c, effects, consumed) ==
  [Event("executed", c, 0, "-") EXCEPT !.gas = consumed, !.effects = effects]

(* settle FAILED_PRECOND: the fee, or what the agent has of it. *)
SpamCharge(c, snap) == Least(Fee(snap), snap.balances[Cal[c].agent])

(* Defect: every failure before VALIDATED is charged. *)
PreFailure_AlwaysCharged(c, snap, reason) == <<Event("failed", c, SpamCharge(c, snap), reason)>>

PreFailure(c, snap, reason) ==
  <<Event("failed", c, IF reason \in SpamReasons THEN SpamCharge(c, snap) ELSE 0, reason)>>

(* The gates before VALIDATED, in the order phaseA evaluates them. *)
Gate(holds, reason) == [holds |-> holds, reason |-> reason]

(* Defect: the nonce gate accepts the nonce that was used last. *)
Gates_NonceReused(c, snap, trace, now) ==
  LET a == Cal[c].agent IN
  << Gate(trace.registered, "UNKNOWN_ACTION"),
     Gate(snap.bounded => Cal[c].action \in Whitelist, "BOUNDED_BLOCKED"),
     Gate(now <= Cal[c].expiration, "EXPIRED"),
     Gate(Cal[c].nonce <= snap.nonces[a] + 1, "NONCE_MISMATCH"),
     Gate(trace.authorized, "CAPABILITY_DENIED"),
     Gate(OwnerRequired(c, snap) => OwnersAgree(a, snap, trace), "CAPABILITY_DENIED"),
     Gate(trace.pre # "FALSE", "PRECOND_FALSE"),
     Gate(trace.pre # "ERROR", "PRECOND_ERROR"),
     Gate(snap.balances[a] >= Fee(snap) + MaxGas(c, snap), "INSUFFICIENT_ESCROW") >>

(* Defect: the deposit is taken without the section 9.3 gate. *)
Gates_NoEscrowGate(c, snap, trace, now) ==
  LET a == Cal[c].agent IN
  << Gate(trace.registered, "UNKNOWN_ACTION"),
     Gate(snap.bounded => Cal[c].action \in Whitelist, "BOUNDED_BLOCKED"),
     Gate(now <= Cal[c].expiration, "EXPIRED"),
     Gate(Cal[c].nonce = snap.nonces[a] + 1, "NONCE_MISMATCH"),
     Gate(trace.authorized, "CAPABILITY_DENIED"),
     Gate(OwnerRequired(c, snap) => OwnersAgree(a, snap, trace), "CAPABILITY_DENIED"),
     Gate(trace.pre # "FALSE", "PRECOND_FALSE"),
     Gate(trace.pre # "ERROR", "PRECOND_ERROR") >>

Gates(c, snap, trace, now) ==
  LET a == Cal[c].agent IN
  << Gate(trace.registered, "UNKNOWN_ACTION"),
     Gate(snap.bounded => Cal[c].action \in Whitelist, "BOUNDED_BLOCKED"),
     Gate(now <= Cal[c].expiration, "EXPIRED"),
     Gate(Cal[c].nonce = snap.nonces[a] + 1, "NONCE_MISMATCH"),
     Gate(trace.authorized, "CAPABILITY_DENIED"),
     Gate(OwnerRequired(c, snap) => OwnersAgree(a, snap, trace), "CAPABILITY_DENIED"),
     Gate(trace.pre # "FALSE", "PRECOND_FALSE"),
     Gate(trace.pre # "ERROR", "PRECOND_ERROR"),
     Gate(snap.balances[a] >= Fee(snap) + MaxGas(c, snap), "INSUFFICIENT_ESCROW") >>

(* The first gate that does not hold decides; past them all, the deposit. *)
Passes(c, snap, trace, now) ==
  \A i \in DOMAIN Gates(c, snap, trace, now) : Gates(c, snap, trace, now)[i].holds

PhaseA(c, snap, trace, now) ==
  LET gates  == Gates(c, snap, trace, now)
      failed == {i \in DOMAIN gates : ~gates[i].holds}
  IN  IF Passes(c, snap, trace, now)
        THEN <<Event("validated", c, Fee(snap) + MaxGas(c, snap), "-")>>
        ELSE PreFailure(c, snap, gates[Min(failed)].reason)

(* expirePost and execFail: the budget of now, less what was consumed, comes back. *)
PostFailure(c, snap, trace, reason) ==
  LET consumed == IF reason = "EXPIRED_POST" THEN 0
                  ELSE Least(RawGas(c, snap, trace), MaxGas(c, snap))
  IN  <<Event("failed", c, MaxGas(c, snap) - consumed, reason)>>

(* Defect: the expiration is not looked at again after VALIDATED. *)
PhaseB_NoRecheck(c, snap, trace, now) ==
  LET raw      == RawGas(c, snap, trace)
      executed == <<ExecutedEvent(c, trace.effects, raw)>>
      holds    == trace.invariants /\ (snap.bounded => trace.emergency)
  IN  CASE ~trace.stepsOk -> PostFailure(c, snap, trace, "STEP_ERROR")
        [] trace.stepsOk /\ raw > MaxGas(c, snap) -> PostFailure(c, snap, trace, "OUT_OF_GAS")
        [] trace.stepsOk /\ raw <= MaxGas(c, snap) /\ ~holds ->
             executed \o PostFailure(c, snap, trace, "INVARIANT_FALSE")
        [] OTHER -> executed \o << Event("settled", c, 0, "-"),
                                   Event("finalized", c, MaxGas(c, snap) - raw, "FINALIZED") >>

(* After VALIDATED: expiration, steps, budget, invariants, in this order. *)
PhaseB(c, snap, trace, now) ==
  LET raw      == RawGas(c, snap, trace)
      executed == <<ExecutedEvent(c, trace.effects, raw)>>
      holds    == trace.invariants /\ (snap.bounded => trace.emergency)
  IN  IF now > Cal[c].expiration THEN PostFailure(c, snap, trace, "EXPIRED_POST")
      ELSE IF ~trace.stepsOk THEN PostFailure(c, snap, trace, "STEP_ERROR")
      ELSE IF raw > MaxGas(c, snap) THEN PostFailure(c, snap, trace, "OUT_OF_GAS")
      ELSE IF ~holds THEN executed \o PostFailure(c, snap, trace, "INVARIANT_FALSE")
      ELSE executed \o << Event("settled", c, 0, "-"),
                          Event("finalized", c, MaxGas(c, snap) - raw, "FINALIZED") >>

(* validate, over one and the same snapshot. *)
Validate(c, snap, trace, now) ==
  PhaseA(c, snap, trace, now)
    \o IF Passes(c, snap, trace, now) THEN PhaseB(c, snap, trace, now) ELSE <<>>
=============================================================================
