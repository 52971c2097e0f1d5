---------------------------- MODULE Orchestrator ----------------------------
(***************************************************************************)
(* The node, applyTick of orchestrator/src/node.ts: it folds one block of  *)
(* submissions over the reducer's State.  A submission asks the validator  *)
(* for events and folds them one by one; one step of this module is one    *)
(* event folded, because the STATE_ROOT of every such State is recorded.   *)
(*                                                                         *)
(* incr is the accumulator the caller holds.  applyTick works on a copy:   *)
(* the caller sees the new State when the block ends, and none of it when  *)
(* a folded event is rejected, which throws.                               *)
(*                                                                         *)
(* Which CAL is submitted, in which mode, and what the executor's trace    *)
(* says is up to the callers.  A submission whose cal.created is rejected  *)
(* (AGENT_BUSY, DUPLICATE_CAL) changes nothing, so it is no step here.     *)
(***************************************************************************)
EXTENDS Validator, FiniteSets

CONSTANTS
  Cals,          \* CAL hashes
  InitBalances,  \* the genesis State
  InitLeaf,
  Traces,        \* execution traces a submission may carry
  Ticks,         \* ticks a block may have
  MaxAdmitted    \* bound: CALs admitted over the whole run

(* The agent of a CAL is an address of the State, and what a CAL, a trace    *)
(* and the genesis State hold are amounts and effects.                       *)
ASSUME NodeAssumption ==
  /\ \A c \in Cals : /\ Cal[c].agent \in Agents
                     /\ Cal[c].gasLimit \in Nat \cup {Absent}
  /\ InitBalances \in [Agents -> 0..MaxUint]
  /\ InitLeaf \in LeafStates
  /\ \A trace \in Traces : /\ trace.signers \in Nat
                            /\ trace.units \in Nat
                            /\ trace.effects \in Seq(Deltas)

VARIABLES
  stage, escrowed, gas, staged, nonces, balances, accounts, fees,
  leaf, bounded, tick,  \* the State, see CalReducer
  receipts,  \* receipts[a]: the terminal events in the log, of agent a's CALs
  pc,        \* where applyTick is, "out" between blocks
  sub,       \* the submission whose ingress events are being folded
  queue,     \* the validator's events that are still to be folded
  incr,      \* the IncrementalState: State and log as of the last block
  error      \* how the last block ended

AgentOf == [c \in Cals |-> Cal[c].agent]

R == INSTANCE CalReducer WITH
  Amounts <- Nat, EffectLists <- Seq(Deltas), FeedValues <- {}, MaxNonce <- MaxAdmitted

state == <<stage, escrowed, gas, staged, nonces, balances, accounts, fees, leaf, bounded, tick>>
nvars == <<state, receipts, pc, sub, queue, incr, error>>

(* The State and the log, as a record: what an IncrementalState carries. *)
Current ==
  [stage |-> stage, escrowed |-> escrowed, gas |-> gas, staged |-> staged,
   nonces |-> nonces, balances |-> balances, accounts |-> accounts, fees |-> fees,
   leaf |-> leaf, bounded |-> bounded, tick |-> tick, receipts |-> receipts]

(* What the validator reads of it. *)
Snapshot == [leaf |-> leaf, nonces |-> nonces, balances |-> balances, bounded |-> bounded]

NoSubmission == [cal |-> Absent, mode |-> "none"]

NodeInit ==
  /\ R!Init
  /\ receipts = [a \in Agents |-> <<>>]
  /\ pc = "out"
  /\ sub = NoSubmission
  /\ queue = <<>>
  /\ incr = Current
  /\ error = "none"

-----------------------------------------------------------------------------
(* TICK_REGRESSION: the block is refused before anything is folded. *)
RefuseBlock(t) ==
  /\ pc = "out"
  /\ t < tick
  /\ error' = "TICK_REGRESSION"
  /\ UNCHANGED <<state, receipts, pc, sub, queue, incr>>

BeginBlock(t) ==
  /\ pc = "out"
  /\ \/ R!TickAdvanced(t)
     \/ t = tick /\ UNCHANGED state
  /\ pc' = "ready"
  /\ error' = "none"
  /\ UNCHANGED <<receipts, sub, queue, incr>>

(* Ingress: cal.created, then cal.signed. *)
Submit(c, mode) ==
  /\ pc = "ready"
  /\ SumFunction(nonces) < MaxAdmitted
  /\ R!Created(c)
  /\ sub' = [cal |-> c, mode |-> mode]
  /\ pc' = "created"
  /\ UNCHANGED <<receipts, queue, incr, error>>

Sign ==
  /\ pc = "created"
  /\ R!Signed(sub.cal)
  /\ pc' = "signed"
  /\ UNCHANGED <<receipts, sub, queue, incr, error>>

(* The node pins the tick of the trace to its own. *)
CallValidator(trace) ==
  /\ pc = "signed"
  /\ queue' = IF sub.mode = "atomic"
                THEN Validate(sub.cal, Snapshot, trace, tick)
                ELSE PhaseA(sub.cal, Snapshot, trace, tick)
  /\ sub' = NoSubmission
  /\ pc' = "folding"
  /\ UNCHANGED <<state, receipts, incr, error>>

(* No ingress, and no look at the stage the CAL is in: the fold will tell. *)
Resume(c, trace) ==
  /\ pc = "ready"
  /\ queue' = PhaseB(c, Snapshot, trace, tick)
  /\ pc' = "folding"
  /\ UNCHANGED <<state, receipts, sub, incr, error>>

(* apply: would the reducer accept the event in this State? *)
Accepts(e) ==
  CASE e.type = "validated" -> R!CanValidate(e.cal, e.amount)
    [] e.type = "executed"  -> R!CanExecute(e.cal, e.gas)
    [] e.type = "settled"   -> R!CanSettle(e.cal)
    [] e.type = "finalized" -> R!CanFinalize(e.cal, e.amount)
    [] e.type = "failed"    -> R!CanFailBefore(e.cal, e.amount) \/ R!CanFailAfter(e.cal, e.amount)

Apply(e) ==
  \/ e.type = "validated" /\ R!Validated(e.cal, e.amount)
  \/ e.type = "executed"  /\ R!Executed(e.cal, e.effects, e.gas)
  \/ e.type = "settled"   /\ R!Settled(e.cal)
  \/ e.type = "finalized" /\ R!Finalized(e.cal, e.amount)
  \/ e.type = "failed"    /\ R!FailedBefore(e.cal, e.amount)
  \/ e.type = "failed"    /\ R!FailedAfter(e.cal, e.amount)

(* Of a terminal event the log keeps here how section 9.4 charges it, and    *)
(* whether it came after the expiration tick of its CAL.                     *)
Outcome(reason) ==
  CASE reason \in FreeReasons -> "free"
    [] reason \in SpamReasons -> "spam"
    [] reason \in {"EXPIRED_POST", "FINALIZED"} -> reason
    [] OTHER -> "failed"

Receipt(e) ==
  [cal |-> e.cal, outcome |-> Outcome(e.reason), late |-> tick > Cal[e.cal].expiration]

Fold ==
  LET e == Head(queue) IN
  /\ pc = "folding"
  /\ Apply(e)
  /\ receipts' = IF e.type \in {"finalized", "failed"}
                   THEN [receipts EXCEPT ![Cal[e.cal].agent] = Append(@, Receipt(e))]
                   ELSE receipts
  /\ queue' = Tail(queue)
  /\ pc' = IF Len(queue) = 1 THEN "ready" ELSE "folding"
  /\ UNCHANGED <<sub, incr, error>>

(* Defect: what was folded before the event that is rejected stays. *)
Throw_KeepsState ==
  /\ pc = "folding"
  /\ ~Accepts(Head(queue))
  /\ error' = "APPLY_FAILED"
  /\ queue' = <<>>
  /\ pc' = "out"
  /\ UNCHANGED <<state, receipts, sub, incr>>

(* APPLY_FAILED: the copy is dropped, with every submission of the block. *)
Throw ==
  /\ pc = "folding"
  /\ ~Accepts(Head(queue))
  /\ stage' = incr.stage
  /\ escrowed' = incr.escrowed
  /\ gas' = incr.gas
  /\ staged' = incr.staged
  /\ nonces' = incr.nonces
  /\ balances' = incr.balances
  /\ accounts' = incr.accounts
  /\ fees' = incr.fees
  /\ leaf' = incr.leaf
  /\ bounded' = incr.bounded
  /\ tick' = incr.tick
  /\ receipts' = incr.receipts
  /\ error' = "APPLY_FAILED"
  /\ queue' = <<>>
  /\ pc' = "out"
  /\ UNCHANGED <<sub, incr>>

EndBlock ==
  /\ pc = "ready"
  /\ incr' = Current
  /\ pc' = "out"
  /\ UNCHANGED <<state, receipts, sub, queue, error>>

-----------------------------------------------------------------------------
NodeNext ==
  \/ \E t \in Ticks : RefuseBlock(t) \/ BeginBlock(t)
  \/ \E c \in Cals, mode \in {"atomic", "validate-only"} : Submit(c, mode)
  \/ Sign
  \/ \E trace \in Traces : CallValidator(trace)
  \/ \E c \in Cals, trace \in Traces : Resume(c, trace)
  \/ Fold
  \/ Throw
  \/ EndBlock

NodeSpec == NodeInit /\ [][NodeNext]_nvars

-----------------------------------------------------------------------------

(* Between blocks the State is the one the caller holds, also after a block  *)
(* that threw half way; and every CAL in flight rests at VALIDATED, where    *)
(* "resume" can pick it up.  A CAL resting anywhere else would hold its      *)
(* agent's only slot for ever, since no submission mode can move it.         *)
AtRest ==
  pc = "out" =>
    /\ Current = incr
    /\ \A c \in Cals : R!InFlight(c) => stage[c] = "VALIDATED"

(* The receipt log is the replay protection: the i-th CAL of an agent to     *)
(* leave the node passed the nonce gate only if i is its own nonce.  So no   *)
(* CAL is executed twice and nothing overtakes it, although the gate is      *)
(* passed in one block, the nonce burned in a later one, and CALs that fail  *)
(* before the gate burn nonces too.                                          *)
ExecutedAtItsNonce ==
  \A a \in Agents : \A i \in DOMAIN receipts[a] :
    receipts[a][i].outcome \notin {"free", "spam"} => Cal[receipts[a][i].cal].nonce = i

(* Section 3.4: a CAL is not finalized after its expiration tick, however    *)
(* many blocks it rested at VALIDATED.                                       *)
FinalizedInTime ==
  \A a \in Agents : \A i \in DOMAIN receipts[a] :
    LET r == receipts[a][i] IN
    r.outcome = "FINALIZED" => ~r.late

(* The validator decides on one snapshot, the reducer on the State of each   *)
(* event.  They agree: an event that is folded is accepted, unless the       *)
(* effects do not commit or "resume" names a CAL that is not at VALIDATED.   *)
(* Holds while the flat fee stays what it was at cal.validated.              *)
ValidatorReducerAgree ==
  pc = "folding" =>
    LET e == Head(queue) IN
    \/ Accepts(e)
    \/ ~R!InFlight(e.cal)
    \/ /\ e.type = "finalized"
       /\ R!Commit(leaf, staged[e.cal]) = Failed

(* The fee a CAL deposited at cal.validated, from its deposit. *)
DepositedFee(c) ==
  IF Cal[c].gasLimit = Absent
    THEN escrowed[c] \div (LimitMultiplier + 1)
    ELSE escrowed[c] - Cal[c].gasLimit

(* What the treasury gains when a CAL leaves with the given outcome. *)
ChargeFor(c, outcome) ==
  CASE outcome = "free" -> {0}
    [] outcome = "spam" -> {Least(Fee(Snapshot), balances[Cal[c].agent])}
    [] outcome = "EXPIRED_POST" -> {DepositedFee(c)}
    [] OTHER -> DepositedFee(c)..escrowed[c]

(* Section 9.4: what an agent pays is decided by how its CAL ends, over all  *)
(* the events of its life: nothing, the spam charge, the fee it deposited,   *)
(* or that fee and its gas.                                                  *)
ChargeFollowsOutcome ==
  [][\A a \in Agents :
       Len(receipts'[a]) > Len(receipts[a]) =>
         LET r == Last(receipts'[a]) IN fees' - fees \in ChargeFor(r.cal, r.outcome)]_nvars

-----------------------------------------------------------------------------
(* Claims of the documents that the code does not keep. *)

(* resumeFromValidated "resumes a VALIDATED CAL to a terminal event": the    *)
(* first event of a resume that expires or fails is never rejected.          *)
ResumeReachesTerminal ==
  pc = "folding" =>
    LET e == Head(queue) IN
    stage[e.cal] = "VALIDATED" /\ e.type = "failed" => Accepts(e)
=============================================================================
