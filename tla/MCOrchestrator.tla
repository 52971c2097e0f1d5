--------------------------- MODULE MCOrchestrator ---------------------------
(* An agent with two CALs, the second one only good after the first, and an  *)
(* agent with one.  Effects raise and lower a capture-guard counter (Bounded *)
(* Mode) and, for the runs that say so, change the validation fee.           *)
EXTENDS Orchestrator

CONSTANTS a1, a2, c1, c2, c3

Payload(agent, nonce, expiration, gasLimit, action) ==
  [agent |-> agent, nonce |-> nonce, expiration |-> expiration,
   gasLimit |-> gasLimit, action |-> action]

MCCal == c1 :> Payload(a1, 1, 0, Absent, "treasury.transfer")
      @@ c2 :> Payload(a1, 2, 1, 1, "failure_mode.exit_bounded")
      @@ c3 :> Payload(a2, 1, 0, Absent, "governance.vote")

MCInitBalances == a1 :> 4 @@ a2 :> 4

MCInitLeaf ==
  [k \in Leaves |->
     CASE k = <<"param", "capture_guard_threshold">> -> 1
       [] k = <<"param", "flat_validation_fee">> -> 1
       [] k = <<"param", "gas_price">> -> 1
       [] k \in {"owners", "threshold"} \X {a1} -> 1
       [] OTHER -> Absent]

RaiseGuard == [leaf |-> <<"guard", "any">>, op |-> "add", value |-> 1]
LowerGuard == [leaf |-> <<"guard", "any">>, op |-> "sub", value |-> 1]
SetFee(n)  == [leaf |-> <<"param", "flat_validation_fee">>, op |-> "set", value |-> n]

Trace(effects) ==
  [registered |-> TRUE, authorized |-> TRUE, signers |-> 1, pre |-> "TRUE",
   invariants |-> TRUE, emergency |-> TRUE, stepsOk |-> TRUE,
   effects |-> effects, units |-> 0]

Good == Trace(<<>>)

MCTraces ==
  { Good, Trace(<<RaiseGuard>>), Trace(<<LowerGuard>>),
    [Good EXCEPT !.registered = FALSE],
    [Good EXCEPT !.authorized = FALSE],
    [Good EXCEPT !.signers = 0],
    [Good EXCEPT !.pre = "FALSE"],
    [Good EXCEPT !.pre = "ERROR"],
    [Good EXCEPT !.stepsOk = FALSE],
    [Good EXCEPT !.units = 3],
    [Good EXCEPT !.invariants = FALSE],
    [Good EXCEPT !.emergency = FALSE] }

FeeTraces == {Good, Trace(<<SetFee(0)>>), Trace(<<SetFee(2)>>)}
=============================================================================
