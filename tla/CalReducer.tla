----------------------------- MODULE CalReducer -----------------------------
(***************************************************************************)
(* The reducer, cal-reducer/src/apply.ts: one action per event type.  The  *)
(* reducer trusts nobody about the order of events: it is replayed over    *)
(* any log, so here every event may come at any time, with any amount of   *)
(* Amounts and any effects of EffectLists.                                 *)
(*                                                                         *)
(* An event the reducer rejects leaves the State as it was.  Its guard is  *)
(* an operator of its own (CanCreate, ...) because the node must know when *)
(* an event it folds is rejected.                                          *)
(*                                                                         *)
(* A CAL hash binds the agent the CAL names, hence the constant AgentOf.   *)
(* An entry of state.cal.in_flight is spread over stage, escrowed, gas and *)
(* staged; a CAL that has no entry has stage "NONE".                       *)
(***************************************************************************)
EXTENDS Delta, FiniteSets

CONSTANTS
  Cals,          \* CAL hashes
  AgentOf,       \* the agent each CAL names
  InitBalances,  \* state.ptra.balances at genesis
  InitLeaf,      \* the other leaves of the State at genesis
  Amounts,       \* amounts an event may carry
  FeedValues,    \* values an oracle.feed_submitted event may carry
  EffectLists,   \* lists of Deltas a cal.executed event may carry
  Ticks,         \* ticks a tick.advanced event may carry
  MaxNonce       \* bound: CALs admitted for one agent

ASSUME ReducerAssumption ==
  /\ AgentOf \in [Cals -> Agents]
  /\ InitBalances \in [Agents -> Nat]
  /\ InitLeaf \in LeafStates
  /\ Amounts \subseteq Nat
  /\ FeedValues \subseteq Nat
  /\ EffectLists \subseteq Seq(Deltas)
  /\ Ticks \subseteq Nat

(* A hash and an address have a fixed length: there are finitely many. *)
ASSUME FiniteAssumption == IsFiniteSet(Cals) /\ IsFiniteSet(Agents)

VARIABLES
  stage,     \* cal.in_flight[c].stage
  escrowed,  \* cal.in_flight[c].escrowed_ptra
  gas,       \* cal.in_flight[c].gas_consumed_ptra
  staged,    \* cal.in_flight[c].staged
  nonces,    \* cal.nonces
  balances,  \* ptra.balances, 0 for an address without an entry
  accounts,  \* the addresses that have an entry in ptra.balances
  fees,      \* treasury.collected_fees_window
  leaf,      \* every other leaf (see Delta)
  bounded,   \* failure_mode.is_bounded_mode
  tick       \* tick.current

flightVars == <<stage, escrowed, gas, staged>>
moneyVars  == <<balances, accounts, fees>>
vars == <<flightVars, nonces, moneyVars, leaf, bounded, tick>>

Stages == {"CREATED", "SIGNED", "VALIDATED", "EXECUTED", "SETTLED"}
PreValidated == {"CREATED", "SIGNED"}
PostValidated == Stages \ PreValidated

InFlight(c) == stage[c] # "NONE"

Init ==
  /\ stage = [c \in Cals |-> "NONE"]
  /\ escrowed = [c \in Cals |-> 0]
  /\ gas = [c \in Cals |-> 0]
  /\ staged = [c \in Cals |-> <<>>]
  /\ nonces = [a \in Agents |-> 0]
  /\ balances = InitBalances
  /\ accounts = {a \in Agents : InitBalances[a] > 0}
  /\ fees = 0
  /\ leaf = InitLeaf
  /\ bounded = FALSE
  /\ tick = 0

-----------------------------------------------------------------------------
(* Event handlers. *)

(* Defect: the AGENT_BUSY scan is missing. *)
CanCreate_NoAgentScan(c) == ~InFlight(c)

(* DUPLICATE_CAL, and AGENT_BUSY whatever the stage of the other CAL. *)
CanCreate(c) ==
  /\ ~InFlight(c)
  /\ \A d \in Cals : InFlight(d) => AgentOf[d] # AgentOf[c]

Created(c) ==
  /\ CanCreate(c)
  /\ stage' = [stage EXCEPT ![c] = "CREATED"]
  /\ escrowed' = [escrowed EXCEPT ![c] = 0]
  /\ gas' = [gas EXCEPT ![c] = 0]
  /\ staged' = [staged EXCEPT ![c] = <<>>]
  /\ UNCHANGED <<nonces, moneyVars, leaf, bounded, tick>>

CanSign(c) == stage[c] = "CREATED"

Signed(c) ==
  /\ CanSign(c)
  /\ stage' = [stage EXCEPT ![c] = "SIGNED"]
  /\ UNCHANGED <<escrowed, gas, staged, nonces, moneyVars, leaf, bounded, tick>>

(* The deposit is taken in full, here and nowhere else. *)
CanValidate(c, escrow) ==
  /\ stage[c] = "SIGNED"
  /\ escrow <= MaxUint
  /\ balances[AgentOf[c]] >= escrow

Validated(c, escrow) ==
  LET a == AgentOf[c] IN
  /\ CanValidate(c, escrow)
  /\ balances' = [balances EXCEPT ![a] = @ - escrow]
  /\ accounts' = accounts \cup {a}
  /\ escrowed' = [escrowed EXCEPT ![c] = escrow]
  /\ stage' = [stage EXCEPT ![c] = "VALIDATED"]
  /\ UNCHANGED <<gas, staged, nonces, fees, leaf, bounded, tick>>

CanExecute(c, gasConsumed) ==
  /\ stage[c] = "VALIDATED"
  /\ gasConsumed <= MaxUint

(* Defect: cal.executed stages its effects without moving the stage. *)
Executed_KeepsStage(c, effects, gasConsumed) ==
  /\ CanExecute(c, gasConsumed)
  /\ staged' = [staged EXCEPT ![c] = effects]
  /\ gas' = [gas EXCEPT ![c] = gasConsumed]
  /\ UNCHANGED <<stage, escrowed, nonces, moneyVars, leaf, bounded, tick>>

Executed(c, effects, gasConsumed) ==
  /\ CanExecute(c, gasConsumed)
  /\ staged' = [staged EXCEPT ![c] = effects]
  /\ gas' = [gas EXCEPT ![c] = gasConsumed]
  /\ stage' = [stage EXCEPT ![c] = "EXECUTED"]
  /\ UNCHANGED <<escrowed, nonces, moneyVars, leaf, bounded, tick>>

CanSettle(c) == stage[c] = "EXECUTED"

Settled(c) ==
  /\ CanSettle(c)
  /\ stage' = [stage EXCEPT ![c] = "SETTLED"]
  /\ UNCHANGED <<escrowed, gas, staged, nonces, moneyVars, leaf, bounded, tick>>

(* Defect: the nonce is burned only by a CAL that had its deposit taken. *)
Leave_NonceKeptBeforeDeposit(c) ==
  /\ stage' = [stage EXCEPT ![c] = "NONE"]
  /\ escrowed' = [escrowed EXCEPT ![c] = 0]
  /\ gas' = [gas EXCEPT ![c] = 0]
  /\ staged' = [staged EXCEPT ![c] = <<>>]
  /\ nonces' = [nonces EXCEPT ![AgentOf[c]] = IF stage[c] \in PreValidated THEN @ ELSE @ + 1]

(* The entry of c is deleted and the nonce of its agent burned. *)
Leave(c) ==
  /\ stage' = [stage EXCEPT ![c] = "NONE"]
  /\ escrowed' = [escrowed EXCEPT ![c] = 0]
  /\ gas' = [gas EXCEPT ![c] = 0]
  /\ staged' = [staged EXCEPT ![c] = <<>>]
  /\ nonces' = [nonces EXCEPT ![AgentOf[c]] = @ + 1]

(* Defect: the treasury keeps the whole deposit although a part is refunded. *)
Refund_KeepsAll(c, refund) ==
  LET a == AgentOf[c] IN
  /\ balances' = [balances EXCEPT ![a] = @ + refund]
  /\ accounts' = IF refund > 0 THEN accounts \cup {a} ELSE accounts
  /\ fees' = fees + escrowed[c]

(* What is not refunded of the deposit goes to the treasury. *)
Refund(c, refund) ==
  LET a == AgentOf[c] IN
  /\ balances' = [balances EXCEPT ![a] = @ + refund]
  /\ accounts' = IF refund > 0 THEN accounts \cup {a} ELSE accounts
  /\ fees' = fees + (escrowed[c] - refund)

(* Defect: the refund is not compared with the deposit. *)
CanFinalize_NoRefundCap(c, refund) ==
  /\ stage[c] = "SETTLED"
  /\ Commit(leaf, staged[c]) \in LeafStates

CanFinalize(c, refund) ==
  /\ stage[c] = "SETTLED"
  /\ Commit(leaf, staged[c]) \in LeafStates
  /\ refund <= escrowed[c]

Finalized(c, refund) ==
  /\ CanFinalize(c, refund)
  /\ leaf' = Commit(leaf, staged[c])
  /\ Refund(c, refund)
  /\ Leave(c)
  /\ UNCHANGED <<bounded, tick>>

(* Defect: the charge is not compared with the balance. *)
CanFailBefore_NoBalanceCheck(c, charge) == stage[c] \in PreValidated

(* cal.failed and cal.expired of a CAL that made no deposit: a charge. *)
CanFailBefore(c, charge) ==
  /\ stage[c] \in PreValidated
  /\ charge <= balances[AgentOf[c]]

FailedBefore(c, charge) ==
  LET a == AgentOf[c] IN
  /\ CanFailBefore(c, charge)
  /\ balances' = [balances EXCEPT ![a] = @ - charge]
  /\ accounts' = IF charge > 0 THEN accounts \cup {a} ELSE accounts
  /\ fees' = fees + charge
  /\ Leave(c)
  /\ UNCHANGED <<leaf, bounded, tick>>

(* ... and of a CAL that did: settled as at the end, its effects dropped. *)
CanFailAfter(c, refund) ==
  /\ stage[c] \in PostValidated
  /\ refund <= escrowed[c]

(* Defect: a CAL that fails after execution leaves its effects behind. *)
FailedAfter_Commits(c, refund) ==
  /\ CanFailAfter(c, refund)
  /\ Commit(leaf, staged[c]) \in LeafStates
  /\ leaf' = Commit(leaf, staged[c])
  /\ Refund(c, refund)
  /\ Leave(c)
  /\ UNCHANGED <<bounded, tick>>

FailedAfter(c, refund) ==
  /\ CanFailAfter(c, refund)
  /\ Refund(c, refund)
  /\ Leave(c)
  /\ UNCHANGED <<leaf, bounded, tick>>

Transferred(from, to, amount) ==
  /\ balances[from] >= amount
  /\ balances' = [[balances EXCEPT ![from] = @ - amount] EXCEPT ![to] = @ + amount]
  /\ accounts' = accounts \cup {from, to}
  /\ UNCHANGED <<flightVars, nonces, fees, leaf, bounded, tick>>

ShadowInit(a) ==
  /\ a \notin accounts
  /\ balances' = [balances EXCEPT ![a] = 0]
  /\ accounts' = accounts \cup {a}
  /\ UNCHANGED <<flightVars, nonces, fees, leaf, bounded, tick>>

OracleFeed(symbol, value) ==
  /\ leaf' = [leaf EXCEPT ![<<"feed", symbol>>] = value]
  /\ UNCHANGED <<flightVars, nonces, moneyVars, bounded, tick>>

(* recomputeBounded: some capture-guard counter has reached the threshold. *)
BoundedTrigger(state) ==
  LET threshold == state[<<"param", "capture_guard_threshold">>] IN
  /\ threshold # Absent
  /\ \E g \in Guards : /\ state[<<"guard", g>>] # Absent
                       /\ state[<<"guard", g>>] >= threshold

CanAdvance(new) == new > tick

TickAdvanced(new) ==
  /\ CanAdvance(new)
  /\ tick' = new
  /\ bounded' = BoundedTrigger(leaf)
  /\ UNCHANGED <<flightVars, nonces, moneyVars, leaf>>

-----------------------------------------------------------------------------
CalEvent(c) ==
  \/ nonces[AgentOf[c]] < MaxNonce /\ Created(c)
  \/ Signed(c)
  \/ \E n \in Amounts : Validated(c, n)
  \/ \E fx \in EffectLists, n \in Amounts : Executed(c, fx, n)
  \/ Settled(c)
  \/ \E n \in Amounts : Finalized(c, n)
  \/ \E n \in Amounts : FailedBefore(c, n)
  \/ \E n \in Amounts : FailedAfter(c, n)

Next ==
  \/ \E c \in Cals : CalEvent(c)
  \/ \E from, to \in Agents, n \in Amounts : Transferred(from, to, n)
  \/ \E a \in Agents : ShadowInit(a)
  \/ \E s \in Feeds, v \in FeedValues : OracleFeed(s, v)
  \/ \E t \in Ticks : TickAdvanced(t)

Spec == Init /\ [][Next]_vars

-----------------------------------------------------------------------------
(* Type of the State, for CALs and agents of any number. *)
TypeOK ==
  /\ stage \in [Cals -> Stages \cup {"NONE"}]
  /\ escrowed \in [Cals -> Nat]
  /\ gas \in [Cals -> Nat]
  /\ staged \in [Cals -> Seq(Deltas)]
  /\ nonces \in [Agents -> Nat]
  /\ balances \in [Agents -> Nat]
  /\ accounts \in SUBSET Agents
  /\ fees \in Nat
  /\ leaf \in LeafStates
  /\ bounded \in BOOLEAN
  /\ tick \in Nat

(* Section 6.1, enforced by the AGENT_BUSY scan of cal.created: whatever the *)
(* order of events, an agent never has two CALs in flight.                   *)
OneInFlightPerAgent ==
  \A c, d \in Cals : /\ InFlight(c)
                     /\ InFlight(d)
                     /\ AgentOf[c] = AgentOf[d]
                     => c = d

(* What the reducer leaves behind is clean.  An entry of in_flight holds     *)
(* only what its stage put there, a deposit from cal.validated on, effects   *)
(* and gas from cal.executed on, so a CAL hash that comes back after its     *)
(* terminal event finds nothing of its first life; and an address without an *)
(* entry in ptra.balances is worth nothing, which is what lets               *)
(* ptra.shadow_init write a 0 there without destroying PTRA.                 *)
EntriesClean ==
  /\ \A c \in Cals :
       /\ stage[c] \notin PostValidated => escrowed[c] = 0
       /\ stage[c] \notin {"EXECUTED", "SETTLED"} => staged[c] = <<>> /\ gas[c] = 0
  /\ \A a \in Agents : a \notin accounts => balances[a] = 0

(* PTRA is neither made nor lost by any handler: what is spendable, what is  *)
(* on deposit and what the treasury collected add up to the genesis supply.  *)
Conserved ==
  SumFunction(balances) + SumFunction(escrowed) + fees = SumFunction(InitBalances)

(* All or nothing (section 3.5): no effect of a CAL reaches the State but in *)
(* one step, with all the others, when its cal.finalized is applied; a CAL   *)
(* that fails or expires leaves every leaf as it was.                        *)
EffectsOnlyWhenFinalized ==
  [][\A k \in Leaves \ ({"feed"} \X Feeds) : leaf'[k] # leaf[k] =>
       \E c \in Cals : /\ stage[c] = "SETTLED"
                       /\ stage'[c] = "NONE"
                       /\ leaf' = Commit(leaf, staged[c])]_vars

(* The CALs of agent a that leave in_flight in a step. *)
Leaving(a) == {c \in Cals : AgentOf[c] = a /\ InFlight(c) /\ stage'[c] = "NONE"}

(* Section 6.2: the nonce of an agent moves exactly when one of its CALs     *)
(* leaves in_flight, by one, and no other nonce moves with it.               *)
NonceBurnedOnLeaving ==
  [][\A a \in Agents : nonces'[a] = nonces[a] + Cardinality(Leaving(a))]_vars

(* The abstract specification the reducer implements. *)
Escrow == INSTANCE AgentEscrow WITH
  open <- [a \in Agents |-> {c \in Cals : InFlight(c) /\ AgentOf[c] = a}],
  deposit <- escrowed,
  spendable <- balances,
  kept <- fees,
  closed <- nonces

(* Whatever the events and their order, an agent sees no more than what      *)
(* AgentEscrow promises: one open CAL, one deposit, and no charge beyond it. *)
ImplementsAgentEscrow == Escrow!Spec
=============================================================================
