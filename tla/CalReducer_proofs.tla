-------------------------- MODULE CalReducer_proofs --------------------------
(***************************************************************************)
(* Proofs about the reducer, for any set of agents and CALs, any genesis,  *)
(* and any events.  Commit is never expanded: what the loop over staged    *)
(* Deltas computes does not matter here, only that cal.finalized rejects   *)
(* a list the loop cannot commit.                                          *)
(***************************************************************************)
EXTENDS CalReducer, Aggregates

(* The inductive invariant: a deposit is returned from what the entry says   *)
(* it is, hence EntriesClean; it is returned to an agent whose slot then is  *)
(* free, hence OneInFlightPerAgent.                                          *)
IInv == TypeOK /\ OneInFlightPerAgent /\ EntriesClean

(* The genesis State satisfies the invariant. *)
LEMMA InitIInv == Init => IInv
  <1> SUFFICES ASSUME Init PROVE IInv
    OBVIOUS
  <1>1. TypeOK
    <2>1. accounts \in SUBSET Agents
      BY DEF Init
    <2>2. staged \in [Cals -> Seq(Deltas)]
      BY DEF Init
    <2>3. /\ balances \in [Agents -> Nat]
          /\ leaf \in LeafStates
      BY ReducerAssumption DEF Init
    <2>4. QED
      BY <2>1, <2>2, <2>3 DEF Init, TypeOK
  <1>2. OneInFlightPerAgent
    BY DEF Init, OneInFlightPerAgent, InFlight
  <1>3. EntriesClean
    BY ReducerAssumption DEF Init, EntriesClean
  <1>4. QED
    BY <1>1, <1>2, <1>3 DEF IInv

(* The entry of a CAL that leaves is emptied and its agent's nonce moves. *)
LEMMA LeaveTypes ==
  ASSUME NEW c \in Cals, TypeOK, Leave(c)
  PROVE  /\ stage' \in [Cals -> Stages \cup {"NONE"}]
         /\ escrowed' \in [Cals -> Nat]
         /\ gas' \in [Cals -> Nat]
         /\ staged' \in [Cals -> Seq(Deltas)]
         /\ nonces' \in [Agents -> Nat]
  <1>1. AgentOf[c] \in Agents
    BY ReducerAssumption
  <1>2. nonces' \in [Agents -> Nat]
    BY <1>1 DEF TypeOK, Leave
  <1>3. staged' \in [Cals -> Seq(Deltas)]
    BY DEF TypeOK, Leave
  <1>4. /\ stage' \in [Cals -> Stages \cup {"NONE"}]
        /\ escrowed' \in [Cals -> Nat]
        /\ gas' \in [Cals -> Nat]
    BY DEF TypeOK, Leave
  <1>5. QED
    BY <1>2, <1>3, <1>4

(* A refund bounded by the deposit keeps every amount a natural number. *)
LEMMA RefundTypes ==
  ASSUME NEW c \in Cals, NEW refund \in Nat, TypeOK,
         Refund(c, refund), refund <= escrowed[c]
  PROVE  /\ balances' \in [Agents -> Nat]
         /\ accounts' \in SUBSET Agents
         /\ fees' \in Nat
  <1>1. AgentOf[c] \in Agents /\ escrowed[c] \in Nat
    BY ReducerAssumption DEF TypeOK
  <1>2. escrowed[c] - refund \in Nat
    BY <1>1
  <1>3. balances' \in [Agents -> Nat]
    BY <1>1 DEF TypeOK, Refund
  <1>4. accounts' \in SUBSET Agents
    BY <1>1 DEF TypeOK, Refund
  <1>5. fees' \in Nat
    BY <1>2 DEF TypeOK, Refund
  <1>6. QED
    BY <1>3, <1>4, <1>5

(* Every event keeps the State well typed. *)
LEMMA NextTypeOK == TypeOK /\ [Next]_vars => TypeOK'
  <1> SUFFICES ASSUME TypeOK, [Next]_vars PROVE TypeOK'
    OBVIOUS
  <1> USE ReducerAssumption
  <1>1. ASSUME NEW c \in Cals, Created(c) PROVE TypeOK'
    BY <1>1 DEF TypeOK, Created, moneyVars, Stages
  <1>2. ASSUME NEW c \in Cals, Signed(c) PROVE TypeOK'
    BY <1>2 DEF TypeOK, Signed, moneyVars, Stages
  <1>3. ASSUME NEW c \in Cals, NEW n \in Amounts, Validated(c, n) PROVE TypeOK'
    BY <1>3 DEF TypeOK, Validated, CanValidate, Stages
  <1>4. ASSUME NEW c \in Cals, NEW fx \in EffectLists, NEW n \in Amounts,
               Executed(c, fx, n)
        PROVE TypeOK'
    BY <1>4 DEF TypeOK, Executed, moneyVars, Stages
  <1>5. ASSUME NEW c \in Cals, Settled(c) PROVE TypeOK'
    BY <1>5 DEF TypeOK, Settled, moneyVars, Stages
  <1>6. ASSUME NEW c \in Cals, NEW n \in Amounts, Finalized(c, n) PROVE TypeOK'
    BY <1>6, LeaveTypes, RefundTypes DEF TypeOK, Finalized, CanFinalize
  <1>7. ASSUME NEW c \in Cals, NEW n \in Amounts, FailedBefore(c, n) PROVE TypeOK'
    <2>1. AgentOf[c] \in Agents /\ n \in Nat /\ n <= balances[AgentOf[c]]
      BY <1>7 DEF FailedBefore, CanFailBefore
    <2>2. /\ balances' \in [Agents -> Nat]
          /\ fees' \in Nat
          /\ accounts' \in SUBSET Agents
      BY <1>7, <2>1 DEF TypeOK, FailedBefore
    <2>3. Leave(c) /\ UNCHANGED <<leaf, bounded, tick>>
      BY <1>7 DEF FailedBefore
    <2>4. QED
      BY <2>2, <2>3, LeaveTypes DEF TypeOK
  <1>8. ASSUME NEW c \in Cals, NEW n \in Amounts, FailedAfter(c, n) PROVE TypeOK'
    BY <1>8, LeaveTypes, RefundTypes DEF TypeOK, FailedAfter, CanFailAfter
  <1>9. ASSUME NEW a \in Agents, NEW b \in Agents, NEW n \in Amounts, Transferred(a, b, n)
        PROVE TypeOK'
    <2>1. n \in Nat /\ n <= balances[a]
      BY <1>9 DEF Transferred, TypeOK
    <2> DEFINE debited == [balances EXCEPT ![a] = @ - n]
    <2>2. debited \in [Agents -> Nat]
      BY <2>1 DEF TypeOK
    <2>3. balances' \in [Agents -> Nat]
      BY <1>9, <2>1, <2>2 DEF Transferred
    <2>4. QED
      BY <1>9, <2>3 DEF TypeOK, Transferred, flightVars
  <1>10. ASSUME NEW a \in Agents, ShadowInit(a) PROVE TypeOK'
    BY <1>10 DEF TypeOK, ShadowInit, flightVars
  <1>11. ASSUME NEW s \in Feeds, NEW v \in FeedValues, OracleFeed(s, v) PROVE TypeOK'
    BY <1>11 DEF TypeOK, OracleFeed, flightVars, moneyVars, LeafStates
  <1>12. ASSUME NEW t \in Ticks, TickAdvanced(t) PROVE TypeOK'
    <2>1. BoundedTrigger(leaf) \in BOOLEAN
      BY DEF BoundedTrigger
    <2>2. QED
      BY <1>12, <2>1 DEF TypeOK, TickAdvanced, flightVars, moneyVars
  <1>13. CASE UNCHANGED vars
    BY <1>13 DEF TypeOK, vars, flightVars, moneyVars
  <1>14. QED
    BY <1>1, <1>2, <1>3, <1>4, <1>5, <1>6, <1>7, <1>8, <1>9, <1>10, <1>11, <1>12, <1>13
    DEF Next, CalEvent

(* Only cal.created fills a slot, and it scans every entry of the agent. *)
LEMMA NextOneInFlight ==
  TypeOK /\ OneInFlightPerAgent /\ [Next]_vars => OneInFlightPerAgent'
  <1> SUFFICES ASSUME TypeOK, OneInFlightPerAgent, [Next]_vars
               PROVE  OneInFlightPerAgent'
    OBVIOUS
  <1>1. ASSUME NEW c \in Cals, Created(c) PROVE OneInFlightPerAgent'
    BY <1>1 DEF TypeOK, OneInFlightPerAgent, InFlight, Created, CanCreate
  <1>2. ASSUME NEW c \in Cals, NEW s \in Stages, stage[c] # "NONE",
               stage' = [stage EXCEPT ![c] = s]
        PROVE OneInFlightPerAgent'
    BY <1>2 DEF TypeOK, OneInFlightPerAgent, InFlight
  <1>3. ASSUME NEW c \in Cals, Leave(c) PROVE OneInFlightPerAgent'
    BY <1>3 DEF TypeOK, OneInFlightPerAgent, InFlight, Leave
  <1>4. CASE UNCHANGED stage
    BY <1>4 DEF OneInFlightPerAgent, InFlight
  <1>5. ASSUME NEW c \in Cals, CalEvent(c) PROVE OneInFlightPerAgent'
    <2>1. CASE Signed(c)
      BY <2>1, <1>2 DEF Signed, CanSign, Stages
    <2>2. ASSUME NEW n \in Amounts, Validated(c, n) PROVE OneInFlightPerAgent'
      BY <2>2, <1>2 DEF Validated, CanValidate, Stages
    <2>3. ASSUME NEW fx \in EffectLists, NEW n \in Amounts, Executed(c, fx, n)
          PROVE OneInFlightPerAgent'
      BY <2>3, <1>2 DEF Executed, CanExecute, Stages
    <2>4. CASE Settled(c)
      BY <2>4, <1>2 DEF Settled, CanSettle, Stages
    <2>5. ASSUME NEW n \in Amounts, \/ Finalized(c, n)
                                    \/ FailedBefore(c, n)
                                    \/ FailedAfter(c, n)
          PROVE OneInFlightPerAgent'
      BY <2>5, <1>3 DEF Finalized, FailedBefore, FailedAfter
    <2>6. QED
      BY <1>1, <1>5, <2>1, <2>2, <2>3, <2>4, <2>5 DEF CalEvent
  <1>6. QED
    BY <1>4, <1>5 DEF Next, Transferred, ShadowInit, OracleFeed, TickAdvanced, vars, flightVars

(* No handler leaves money or effects where the next life of the CAL hash *)
(* would find them.                                                       *)
LEMMA NextEntriesClean ==
  TypeOK /\ EntriesClean /\ [Next]_vars => EntriesClean'
  <1> SUFFICES ASSUME TypeOK, EntriesClean, [Next]_vars PROVE EntriesClean'
    OBVIOUS
  <1> USE ReducerAssumption DEF EntriesClean, Stages, PreValidated, PostValidated
  <1>1. ASSUME NEW c \in Cals, Created(c) PROVE EntriesClean'
    BY <1>1 DEF TypeOK, Created, CanCreate, InFlight, moneyVars
  <1>2. ASSUME NEW c \in Cals, Signed(c) PROVE EntriesClean'
    BY <1>2 DEF TypeOK, Signed, CanSign, moneyVars
  <1>3. ASSUME NEW c \in Cals, NEW n \in Amounts, Validated(c, n) PROVE EntriesClean'
    BY <1>3 DEF TypeOK, Validated, CanValidate
  <1>4. ASSUME NEW c \in Cals, NEW fx \in EffectLists, NEW n \in Amounts,
               Executed(c, fx, n)
        PROVE EntriesClean'
    BY <1>4 DEF TypeOK, Executed, CanExecute, moneyVars
  <1>5. ASSUME NEW c \in Cals, Settled(c) PROVE EntriesClean'
    BY <1>5 DEF TypeOK, Settled, CanSettle, moneyVars
  <1>6. ASSUME NEW c \in Cals, NEW n \in Nat, Refund(c, n), Leave(c) PROVE EntriesClean'
    BY <1>6 DEF TypeOK, Refund, Leave
  <1>7. ASSUME NEW c \in Cals, NEW n \in Amounts, FailedBefore(c, n) PROVE EntriesClean'
    BY <1>7 DEF TypeOK, FailedBefore, CanFailBefore, Leave
  <1>8. ASSUME NEW a \in Agents, NEW b \in Agents, NEW n \in Amounts, Transferred(a, b, n)
        PROVE EntriesClean'
    BY <1>8 DEF TypeOK, Transferred, flightVars
  <1>9. ASSUME NEW a \in Agents, ShadowInit(a) PROVE EntriesClean'
    BY <1>9 DEF TypeOK, ShadowInit, flightVars
  <1>10. CASE UNCHANGED <<flightVars, moneyVars>>
    BY <1>10 DEF flightVars, moneyVars
  <1>11. QED
    BY <1>1, <1>2, <1>3, <1>4, <1>5, <1>6, <1>7, <1>8, <1>9, <1>10
    DEF Next, CalEvent, Finalized, FailedAfter, OracleFeed, TickAdvanced, vars

(* The State is well typed whatever the log. *)
THEOREM ReducerTypeOK == Spec => []TypeOK
  <1>1. Init => TypeOK
    BY InitIInv DEF IInv
  <1>2. QED
    BY <1>1, NextTypeOK, PTL DEF Spec

(* One CAL in flight per agent, whatever the log (CAL Execution Spec 6.1). *)
THEOREM ReducerOneInFlight == Spec => []OneInFlightPerAgent
  <1>1. Init => OneInFlightPerAgent
    BY InitIInv DEF IInv
  <1>2. QED
    BY <1>1, ReducerTypeOK, NextOneInFlight, PTL DEF Spec

(* A CAL hash that comes back finds a clean entry, whatever the log. *)
THEOREM ReducerEntriesClean == Spec => []EntriesClean
  <1>1. Init => EntriesClean
    BY InitIInv DEF IInv
  <1>2. QED
    BY <1>1, ReducerTypeOK, NextEntriesClean, PTL DEF Spec

-----------------------------------------------------------------------------
(* The amounts Conserved adds up are integers. *)
LEMMA SupplyTypes ==
  ASSUME TypeOK
  PROVE  /\ SumFunction(balances) \in Int
         /\ SumFunction(escrowed) \in Int
         /\ SumFunction(InitBalances) \in Int
  <1>1. /\ balances \in [Agents -> Int] /\ escrowed \in [Cals -> Int]
        /\ InitBalances \in [Agents -> Int]
    BY ReducerAssumption DEF TypeOK
  <1>2. QED
    BY <1>1, FiniteAssumption, SumInt

(* What the spendable amounts add up to when one of them is written. *)
LEMMA BalanceMoves ==
  ASSUME NEW b \in [Agents -> Nat], NEW a \in Agents, NEW v \in Int
  PROVE  SumFunction([b EXCEPT ![a] = v]) = SumFunction(b) - b[a] + v
  <1>1. b \in [Agents -> Int]
    OBVIOUS
  <1>2. QED
    BY <1>1, FiniteAssumption, SumExcept

(* What the deposits add up to when one of them is written. *)
LEMMA DepositMoves ==
  ASSUME TypeOK, NEW c \in Cals, NEW v \in Int
  PROVE  SumFunction([escrowed EXCEPT ![c] = v]) = SumFunction(escrowed) - escrowed[c] + v
  <1>1. escrowed \in [Cals -> Int]
    BY DEF TypeOK
  <1>2. QED
    BY <1>1, FiniteAssumption, SumExcept

(* ... and when an entry is cleared. *)
LEMMA DepositCleared ==
  ASSUME TypeOK, NEW c \in Cals
  PROVE  SumFunction([escrowed EXCEPT ![c] = 0]) = SumFunction(escrowed) - escrowed[c]
  <1> DEFINE z == 0
  <1>1. z \in Int
    OBVIOUS
  <1> HIDE DEF z
  <1>2. SumFunction([escrowed EXCEPT ![c] = z]) = SumFunction(escrowed) - escrowed[c] + z
    BY <1>1, DepositMoves
  <1>3. SumFunction(escrowed) \in Int /\ escrowed[c] \in Int
    BY SupplyTypes DEF TypeOK
  <1>4. QED
    BY <1>2, <1>3 DEF z

(* A deposit that is returned in part is shared by its owner and the fees. *)
LEMMA RefundConserves ==
  ASSUME NEW c \in Cals, NEW refund \in Nat, TypeOK, Conserved,
         Refund(c, refund), Leave(c)
  PROVE  Conserved'
  <1>1. AgentOf[c] \in Agents /\ escrowed[c] \in Nat /\ fees \in Nat
    BY ReducerAssumption DEF TypeOK
  <1>2. /\ balances \in [Agents -> Nat]
        /\ balances[AgentOf[c]] + refund \in Int /\ balances[AgentOf[c]] \in Int
    BY <1>1 DEF TypeOK
  <1>3. SumFunction(balances') = SumFunction(balances) + refund
    <2>1. balances' = [balances EXCEPT ![AgentOf[c]] = balances[AgentOf[c]] + refund]
      BY DEF Refund
    <2>2. SumFunction(balances') = SumFunction(balances) - balances[AgentOf[c]]
                                   + (balances[AgentOf[c]] + refund)
      BY <1>1, <1>2, <2>1, BalanceMoves
    <2>3. QED
      BY <1>2, <2>2, SupplyTypes
  <1>4. SumFunction(escrowed') = SumFunction(escrowed) - escrowed[c]
    BY DepositCleared DEF Leave
  <1>5. fees' = fees + (escrowed[c] - refund)
    BY DEF Refund
  <1>6. QED
    BY <1>1, <1>3, <1>4, <1>5, SupplyTypes DEF Conserved

(* A charge without a deposit moves from a balance to the fees. *)
LEMMA ChargeConserves ==
  ASSUME NEW c \in Cals, NEW charge \in Nat, TypeOK, EntriesClean, Conserved,
         FailedBefore(c, charge)
  PROVE  Conserved'
  <1>1. AgentOf[c] \in Agents /\ fees \in Nat
    BY ReducerAssumption DEF TypeOK
  <1>2. /\ balances \in [Agents -> Nat]
        /\ balances[AgentOf[c]] - charge \in Int /\ balances[AgentOf[c]] \in Int
    BY <1>1 DEF TypeOK
  <1>3. SumFunction(balances') = SumFunction(balances) - charge
    <2>1. balances' = [balances EXCEPT ![AgentOf[c]] = balances[AgentOf[c]] - charge]
      BY DEF FailedBefore
    <2>2. SumFunction(balances') = SumFunction(balances) - balances[AgentOf[c]]
                                   + (balances[AgentOf[c]] - charge)
      BY <1>1, <1>2, <2>1, BalanceMoves
    <2>3. QED
      BY <1>2, <2>2, SupplyTypes
  <1>4. SumFunction(escrowed') = SumFunction(escrowed)
    <2>1. escrowed[c] = 0
      BY DEF FailedBefore, CanFailBefore, EntriesClean, PostValidated
    <2>2. SumFunction(escrowed') = SumFunction(escrowed) - escrowed[c]
      BY DepositCleared DEF FailedBefore, Leave
    <2>3. QED
      BY <2>1, <2>2, SupplyTypes
  <1>5. fees' = fees + charge
    BY DEF FailedBefore
  <1>6. QED
    BY <1>1, <1>3, <1>4, <1>5, SupplyTypes DEF Conserved

(* A deposit is taken from one balance. *)
LEMMA DepositConserves ==
  ASSUME NEW c \in Cals, NEW escrow \in Nat, TypeOK, EntriesClean, Conserved,
         Validated(c, escrow)
  PROVE  Conserved'
  <1>1. AgentOf[c] \in Agents /\ fees \in Nat
    BY ReducerAssumption DEF TypeOK
  <1>2. /\ balances \in [Agents -> Nat]
        /\ balances[AgentOf[c]] - escrow \in Int /\ balances[AgentOf[c]] \in Int
    BY <1>1 DEF TypeOK
  <1>3. SumFunction(balances') = SumFunction(balances) - escrow
    <2>1. balances' = [balances EXCEPT ![AgentOf[c]] = balances[AgentOf[c]] - escrow]
      BY DEF Validated
    <2>2. SumFunction(balances') = SumFunction(balances) - balances[AgentOf[c]]
                                   + (balances[AgentOf[c]] - escrow)
      BY <1>1, <1>2, <2>1, BalanceMoves
    <2>3. QED
      BY <1>2, <2>2, SupplyTypes
  <1>4. SumFunction(escrowed') = SumFunction(escrowed) + escrow
    <2>1. escrowed[c] = 0
      BY DEF Validated, CanValidate, EntriesClean, PostValidated, PreValidated
    <2>2. escrowed' = [escrowed EXCEPT ![c] = escrow] /\ escrow \in Int
      BY DEF Validated
    <2>3. SumFunction(escrowed') = SumFunction(escrowed) - escrowed[c] + escrow
      BY <2>2, DepositMoves
    <2>4. QED
      BY <2>1, <2>3, SupplyTypes
  <1>5. fees' = fees
    BY DEF Validated
  <1>6. QED
    BY <1>1, <1>3, <1>4, <1>5, SupplyTypes DEF Conserved

(* A transfer moves an amount, to the sender itself perhaps. *)
LEMMA TransferConserves ==
  ASSUME NEW from \in Agents, NEW to \in Agents, NEW amount \in Nat,
         TypeOK, Conserved, Transferred(from, to, amount)
  PROVE  Conserved'
  <1> DEFINE b == [balances EXCEPT ![from] = balances[from] - amount]
  <1>1. /\ balances \in [Agents -> Nat]
        /\ balances[from] - amount \in Int /\ balances[from] \in Int
        /\ balances[from] - amount \in Nat
    BY DEF TypeOK, Transferred
  <1>2. b \in [Agents -> Nat] /\ b[to] \in Nat
    BY <1>1
  <1>3. SumFunction(b) = SumFunction(balances) - balances[from] + (balances[from] - amount)
    BY <1>1, BalanceMoves
  <1>4. balances' = [b EXCEPT ![to] = b[to] + amount]
    BY DEF Transferred
  <1> HIDE DEF b
  <1>5. SumFunction(balances') = SumFunction(b) - b[to] + (b[to] + amount)
    <2>1. b[to] + amount \in Int
      BY <1>2
    <2>2. QED
      BY <1>2, <1>4, <2>1, BalanceMoves
  <1>6. SumFunction(balances') = SumFunction(balances)
    BY <1>1, <1>2, <1>3, <1>5, SupplyTypes
  <1>7. escrowed' = escrowed /\ fees' = fees
    BY DEF Transferred, flightVars
  <1>8. QED
    BY <1>6, <1>7 DEF Conserved

(* No event makes or loses PTRA. *)
LEMMA NextConserved ==
  TypeOK /\ EntriesClean /\ Conserved /\ [Next]_vars => Conserved'
  <1> SUFFICES ASSUME TypeOK, EntriesClean, Conserved, [Next]_vars PROVE Conserved'
    OBVIOUS
  <1>1. ASSUME NEW c \in Cals, Created(c) PROVE Conserved'
    <2>1. escrowed[c] = 0
      BY <1>1 DEF Created, CanCreate, InFlight, EntriesClean, PostValidated, Stages
    <2>2. SumFunction(escrowed') = SumFunction(escrowed) - escrowed[c]
      BY <1>1, DepositCleared DEF Created
    <2>3. SumFunction(escrowed') = SumFunction(escrowed)
      BY <2>1, <2>2, SupplyTypes
    <2>4. QED
      BY <1>1, <2>3 DEF Created, moneyVars, Conserved
  <1>2. ASSUME NEW c \in Cals,
               \/ Signed(c)
               \/ Settled(c)
               \/ \E fx \in EffectLists, n \in Amounts : Executed(c, fx, n)
        PROVE  Conserved'
    BY <1>2 DEF Signed, Settled, Executed, moneyVars, Conserved
  <1>3. ASSUME NEW c \in Cals, NEW n \in Amounts, Validated(c, n) PROVE Conserved'
    BY <1>3, ReducerAssumption, DepositConserves
  <1>4. ASSUME NEW c \in Cals, NEW n \in Amounts, Finalized(c, n) \/ FailedAfter(c, n)
        PROVE  Conserved'
    <2>1. Refund(c, n) /\ Leave(c) /\ n \in Nat
      BY <1>4, ReducerAssumption DEF Finalized, FailedAfter
    <2>2. QED
      BY <2>1, RefundConserves
  <1>5. ASSUME NEW c \in Cals, NEW n \in Amounts, FailedBefore(c, n) PROVE Conserved'
    BY <1>5, ReducerAssumption, ChargeConserves
  <1>6. ASSUME NEW from \in Agents, NEW to \in Agents, NEW n \in Amounts,
               Transferred(from, to, n)
        PROVE  Conserved'
    BY <1>6, ReducerAssumption, TransferConserves
  <1>7. ASSUME NEW a \in Agents, ShadowInit(a) PROVE Conserved'
    <2>1. balances[a] = 0
      BY <1>7 DEF ShadowInit, EntriesClean
    <2>2. balances' = balances
      BY <1>7, <2>1 DEF TypeOK, ShadowInit
    <2>3. QED
      BY <1>7, <2>2 DEF ShadowInit, flightVars, Conserved
  <1>8. ASSUME \/ \E s \in Feeds, v \in FeedValues : OracleFeed(s, v)
               \/ \E t \in Ticks : TickAdvanced(t)
               \/ UNCHANGED vars
        PROVE  Conserved'
    BY <1>8 DEF OracleFeed, TickAdvanced, vars, flightVars, moneyVars, Conserved
  <1>9. QED
    BY <1>1, <1>2, <1>3, <1>4, <1>5, <1>6, <1>7, <1>8 DEF Next, CalEvent

(* PTRA is conserved by whatever log is replayed: balances, deposits and     *)
(* collected fees always add up to the genesis supply.                       *)
THEOREM ReducerConserved == Spec => []Conserved
  <1>1. Init => Conserved
    <2> SUFFICES ASSUME Init PROVE Conserved
      OBVIOUS
    <2>1. SumFunction(escrowed) = 0
      BY FiniteAssumption, SumZero DEF Init
    <2>2. SumFunction(balances) \in Int
      BY InitIInv, SupplyTypes DEF IInv
    <2>3. QED
      BY <2>1, <2>2 DEF Init, Conserved
  <1>2. IInv /\ Conserved /\ [Next]_vars => Conserved'
    BY NextConserved DEF IInv
  <1>3. QED
    BY <1>1, <1>2, ReducerTypeOK, ReducerOneInFlight, ReducerEntriesClean, PTL DEF Spec, IInv

-----------------------------------------------------------------------------
(* All or nothing: no log makes an effect of a CAL visible but by its        *)
(* cal.finalized (CAL Execution Spec 3.5).                                   *)
THEOREM ReducerAllOrNothing == Spec => EffectsOnlyWhenFinalized
  <1>1. ASSUME TypeOK, [Next]_vars,
               NEW k \in Leaves \ ({"feed"} \X Feeds), leaf'[k] # leaf[k]
        PROVE  \E c \in Cals : /\ stage[c] = "SETTLED"
                               /\ stage'[c] = "NONE"
                               /\ leaf' = Commit(leaf, staged[c])
    <2>1. ASSUME NEW c \in Cals, NEW n \in Amounts, Finalized(c, n)
          PROVE  /\ stage[c] = "SETTLED"
                 /\ stage'[c] = "NONE"
                 /\ leaf' = Commit(leaf, staged[c])
      BY <1>1, <2>1 DEF TypeOK, Finalized, CanFinalize, Leave
    <2>2. ASSUME NEW c \in Cals, CalEvent(c), leaf' # leaf
          PROVE  \E n \in Amounts : Finalized(c, n)
      BY <2>2 DEF CalEvent, Created, Signed, Validated, Executed, Settled,
                  FailedBefore, FailedAfter
    <2>3. \A s \in Feeds, v \in FeedValues : ~OracleFeed(s, v)
      <3> SUFFICES ASSUME NEW s \in Feeds, NEW v \in FeedValues, OracleFeed(s, v)
                   PROVE  leaf'[k] = leaf[k]
        BY <1>1
      <3>1. k # <<"feed", s>>
        OBVIOUS
      <3>2. QED
        BY <1>1, <3>1 DEF OracleFeed, TypeOK, LeafStates
    <2>4. leaf' # leaf
      BY <1>1
    <2>5. \E c \in Cals : CalEvent(c)
      BY <1>1, <2>3, <2>4
      DEF Next, Transferred, ShadowInit, TickAdvanced, vars
    <2>6. QED
      BY <2>1, <2>2, <2>4, <2>5
  <1> DEFINE OnlyFinalized ==
        \A k \in Leaves \ ({"feed"} \X Feeds) : leaf'[k] # leaf[k] =>
          \E c \in Cals : /\ stage[c] = "SETTLED"
                          /\ stage'[c] = "NONE"
                          /\ leaf' = Commit(leaf, staged[c])
  <1>2. TypeOK /\ [Next]_vars => [OnlyFinalized]_vars
    BY <1>1
  <1> HIDE DEF OnlyFinalized
  <1>3. Spec => [][OnlyFinalized]_vars
    BY <1>2, ReducerTypeOK, PTL DEF Spec
  <1>4. QED
    BY <1>3 DEF OnlyFinalized, EffectsOnlyWhenFinalized

(* A step in which no CAL leaves moves no nonce. *)
LEMMA NobodyLeaves ==
  ASSUME TypeOK, NEW a \in Agents, UNCHANGED nonces,
         \A c \in Cals : InFlight(c) => stage'[c] # "NONE"
  PROVE  nonces'[a] = nonces[a] + Cardinality(Leaving(a))
  <1>1. Leaving(a) = {}
    BY DEF Leaving
  <1>2. Cardinality(Leaving(a)) = 0
    BY <1>1, FS_EmptySet
  <1>3. QED
    BY <1>2 DEF TypeOK

(* A step in which c leaves burns the nonce of its agent and no other. *)
LEMMA OneLeaves ==
  ASSUME TypeOK, NEW a \in Agents, NEW c \in Cals, InFlight(c), Leave(c)
  PROVE  nonces'[a] = nonces[a] + Cardinality(Leaving(a))
  <1>1. CASE AgentOf[c] = a
    <2>1. Leaving(a) = {c}
      BY <1>1 DEF Leaving, Leave, TypeOK, InFlight
    <2>2. Cardinality(Leaving(a)) = 1
      BY <2>1, FS_Singleton
    <2>3. QED
      BY <1>1, <2>2 DEF Leave, TypeOK
  <1>2. CASE AgentOf[c] # a
    <2>1. Leaving(a) = {}
      BY <1>2 DEF Leaving, Leave, TypeOK, InFlight
    <2>2. Cardinality(Leaving(a)) = 0
      BY <2>1, FS_EmptySet
    <2>3. QED
      BY <1>2, <2>2, ReducerAssumption DEF Leave, TypeOK
  <1>3. QED
    BY <1>1, <1>2

(* The nonce counts the CALs that left, whatever the log (section 6.2). *)
THEOREM ReducerNonce == Spec => NonceBurnedOnLeaving
  <1>1. ASSUME TypeOK, [Next]_vars, NEW a \in Agents
        PROVE  nonces'[a] = nonces[a] + Cardinality(Leaving(a))
    <2>1. ASSUME NEW c \in Cals, CalEvent(c)
          PROVE  nonces'[a] = nonces[a] + Cardinality(Leaving(a))
      <3>1. ASSUME NEW s \in Stages, stage' = [stage EXCEPT ![c] = s], UNCHANGED nonces
            PROVE  nonces'[a] = nonces[a] + Cardinality(Leaving(a))
        BY <1>1, <3>1, NobodyLeaves DEF TypeOK, InFlight, Stages
      <3>2. ASSUME NEW n \in Amounts, \/ Finalized(c, n)
                                      \/ FailedBefore(c, n)
                                      \/ FailedAfter(c, n)
            PROVE  nonces'[a] = nonces[a] + Cardinality(Leaving(a))
        BY <1>1, <3>2, OneLeaves
        DEF Finalized, CanFinalize, FailedBefore, CanFailBefore, FailedAfter, CanFailAfter,
            PreValidated, PostValidated, Stages, InFlight
      <3>3. QED
        BY <2>1, <3>1, <3>2 DEF CalEvent, Created, Signed, Validated, Executed, Settled, Stages
    <2>2. CASE UNCHANGED <<flightVars, nonces>>
      BY <1>1, <2>2, NobodyLeaves DEF flightVars, InFlight
    <2>3. QED
      BY <1>1, <2>1, <2>2
      DEF Next, Transferred, ShadowInit, OracleFeed, TickAdvanced, vars
  <1> DEFINE Burned ==
        \A a \in Agents : nonces'[a] = nonces[a] + Cardinality(Leaving(a))
  <1>2. TypeOK /\ [Next]_vars => [Burned]_vars
    BY <1>1
  <1> HIDE DEF Burned
  <1>3. Spec => [][Burned]_vars
    BY <1>2, ReducerTypeOK, PTL DEF Spec
  <1>4. QED
    BY <1>3 DEF Burned, NonceBurnedOnLeaving

-----------------------------------------------------------------------------
(* The refinement. *)

OpenMap == [a \in Agents |-> {c \in Cals : InFlight(c) /\ AgentOf[c] = a}]

(* An event that leaves every CAL in the flight it was in keeps every slot. *)
LEMMA SlotsKept ==
  ASSUME \A c \in Cals : InFlight(c) <=> InFlight(c)'
  PROVE  OpenMap' = OpenMap
  BY DEF OpenMap

(* A stage change within the flight is a stutter of the slots. *)
LEMMA StageMoves ==
  ASSUME TypeOK, NEW c \in Cals, NEW s \in Stages, InFlight(c),
         stage' = [stage EXCEPT ![c] = s]
  PROVE  OpenMap' = OpenMap
  <1>1. \A d \in Cals : InFlight(d) <=> InFlight(d)'
    BY DEF TypeOK, InFlight, Stages
  <1>2. QED
    BY <1>1, SlotsKept

(* cal.created opens the free slot of the agent. *)
LEMMA CreatedRefines ==
  ASSUME TypeOK, EntriesClean, NEW c \in Cals, Created(c)
  PROVE  Escrow!Open(c)
  <1>1. AgentOf[c] \in Agents
    BY ReducerAssumption
  <1>2. OpenMap[AgentOf[c]] = {}
    BY <1>1 DEF OpenMap, Created, CanCreate, InFlight
  <1>3. OpenMap' = [OpenMap EXCEPT ![AgentOf[c]] = {c}]
    <2>1. \A d \in Cals : InFlight(d)' <=> (InFlight(d) \/ d = c)
      BY DEF TypeOK, Created, InFlight
    <2>2. \A a \in Agents : OpenMap'[a] = IF a = AgentOf[c] THEN {c} ELSE OpenMap[a]
      BY <1>1, <1>2, <2>1 DEF OpenMap
    <2>3. QED
      BY <1>1, <2>2 DEF OpenMap
  <1>4. escrowed' = escrowed
    <2>1. escrowed[c] = 0
      BY DEF Created, CanCreate, InFlight, EntriesClean, PostValidated, Stages
    <2>2. QED
      BY <2>1 DEF Created, TypeOK
  <1>5. QED
    BY <1>2, <1>3, <1>4 DEF Escrow!Open, OpenMap, Created, moneyVars

(* cal.validated takes the one deposit. *)
LEMMA ValidatedRefines ==
  ASSUME TypeOK, EntriesClean, NEW c \in Cals, NEW n \in Amounts, Validated(c, n)
  PROVE  Escrow!Deposit(c)
  <1>1. AgentOf[c] \in Agents /\ n \in Nat
    BY ReducerAssumption
  <1>2. InFlight(c) /\ stage[c] \notin PostValidated
    BY DEF Validated, CanValidate, InFlight, PostValidated, Stages, PreValidated
  <1>3. c \in OpenMap[AgentOf[c]]
    BY <1>1, <1>2 DEF OpenMap
  <1>4. escrowed[c] = 0
    BY <1>2 DEF EntriesClean
  <1>5. OpenMap' = OpenMap
    BY <1>2, StageMoves DEF Validated, Stages
  <1>6. n \in 0..balances[AgentOf[c]]
    BY <1>1 DEF Validated, CanValidate, TypeOK
  <1>7. QED
    BY <1>3, <1>4, <1>5, <1>6 DEF Escrow!Deposit, OpenMap, Validated

(* A CAL that leaves closes its agent's slot, which held nothing else. *)
LEMMA LeaveRefines ==
  ASSUME TypeOK, OneInFlightPerAgent, NEW c \in Cals, InFlight(c), Leave(c)
  PROVE  /\ OpenMap[AgentOf[c]] = {c}
         /\ OpenMap' = [OpenMap EXCEPT ![AgentOf[c]] = {}]
  <1>1. AgentOf[c] \in Agents
    BY ReducerAssumption
  <1>2. OpenMap[AgentOf[c]] = {c}
    BY <1>1 DEF OpenMap, OneInFlightPerAgent
  <1>3. \A d \in Cals : InFlight(d)' <=> (InFlight(d) /\ d # c)
    BY DEF TypeOK, Leave, InFlight
  <1>4. ASSUME NEW a \in Agents
        PROVE  OpenMap'[a] = IF a = AgentOf[c] THEN {} ELSE OpenMap[a]
    <2>1. OpenMap[a] = {d \in Cals : InFlight(d) /\ AgentOf[d] = a}
      BY DEF OpenMap
    <2>2. OpenMap'[a] = {d \in Cals : InFlight(d)' /\ AgentOf[d] = a}
      BY DEF OpenMap
    <2>3. OpenMap'[a] = {d \in OpenMap[a] : d # c}
      BY <1>3, <2>1, <2>2
    <2>4. CASE a = AgentOf[c]
      BY <1>2, <2>3, <2>4
    <2>5. CASE a # AgentOf[c]
      BY <2>1, <2>3, <2>5
    <2>6. QED
      BY <2>4, <2>5
  <1>5. QED
    BY <1>1, <1>2, <1>4 DEF OpenMap

(* A settlement out of the deposit closes the CAL with what was not refunded. *)
LEMMA RefundRefines ==
  ASSUME TypeOK, OneInFlightPerAgent, NEW c \in Cals, NEW n \in Nat, InFlight(c),
         n <= escrowed[c], Refund(c, n), Leave(c)
  PROVE  Escrow!Close(c)
  <1>1. AgentOf[c] \in Agents
    BY ReducerAssumption
  <1> DEFINE k == escrowed[c] - n
  <1>2. /\ escrowed[c] \in Nat
        /\ balances[AgentOf[c]] \in Nat
        /\ k \in 0..escrowed[c]
    BY <1>1 DEF TypeOK
  <1>3. k \in 0..(IF escrowed[c] > 0 THEN escrowed[c] ELSE balances[AgentOf[c]])
    BY <1>2
  <1>4. balances' = [balances EXCEPT ![AgentOf[c]] = @ + escrowed[c] - k]
    <2>1. balances[AgentOf[c]] + n = balances[AgentOf[c]] + escrowed[c] - k
      BY <1>2
    <2>2. QED
      BY <2>1 DEF Refund
  <1>5. fees' = fees + k
    BY DEF Refund
  <1>6. QED
    BY <1>3, <1>4, <1>5, LeaveRefines DEF Escrow!Close, OpenMap, Leave

(* A charge without a deposit is bounded by the balance. *)
LEMMA FailedBeforeRefines ==
  ASSUME TypeOK, OneInFlightPerAgent, EntriesClean, NEW c \in Cals, NEW n \in Amounts,
         FailedBefore(c, n)
  PROVE  Escrow!Close(c)
  <1>1. AgentOf[c] \in Agents /\ n \in Nat
    BY ReducerAssumption
  <1>2. InFlight(c) /\ stage[c] \notin PostValidated
    BY DEF FailedBefore, CanFailBefore, InFlight, PostValidated, Stages, PreValidated
  <1>3. escrowed[c] = 0 /\ balances[AgentOf[c]] \in Nat
    BY <1>1, <1>2 DEF EntriesClean, TypeOK
  <1>4. n \in 0..(IF escrowed[c] > 0 THEN escrowed[c] ELSE balances[AgentOf[c]])
    BY <1>1, <1>3 DEF FailedBefore, CanFailBefore
  <1>5. balances' = [balances EXCEPT ![AgentOf[c]] = @ + escrowed[c] - n]
    <2>1. balances[AgentOf[c]] - n = balances[AgentOf[c]] + escrowed[c] - n
      BY <1>1, <1>3
    <2>2. QED
      BY <2>1 DEF FailedBefore
  <1>6. Leave(c) /\ fees' = fees + n
    BY DEF FailedBefore
  <1>7. QED
    BY <1>2, <1>4, <1>5, <1>6, LeaveRefines DEF Escrow!Close, OpenMap, Leave

(* A mirrored transfer moves no more than the sender can spend. *)
LEMMA TransferredRefines ==
  ASSUME TypeOK, NEW a \in Agents, NEW b \in Agents, NEW n \in Amounts, Transferred(a, b, n)
  PROVE  Escrow!Transfer(a, b)
  <1>1. n \in 0..balances[a]
    BY ReducerAssumption DEF Transferred, TypeOK
  <1>2. OpenMap' = OpenMap /\ UNCHANGED <<escrowed, fees, nonces>>
    BY DEF Transferred, flightVars, OpenMap, InFlight
  <1>3. QED
    BY <1>1, <1>2 DEF Escrow!Transfer, OpenMap, Transferred

(* Every event of the reducer is a step of AgentEscrow or a stutter. *)
LEMMA NextRefines ==
  ASSUME TypeOK, OneInFlightPerAgent, EntriesClean, [Next]_vars
  PROVE  [Escrow!Next]_(Escrow!vars)
  <1> USE DEF Escrow!Next
  <1>1. ASSUME OpenMap' = OpenMap, UNCHANGED <<escrowed, balances, fees, nonces>>
        PROVE  UNCHANGED Escrow!vars
    BY <1>1 DEF Escrow!vars, OpenMap
  <1>2. ASSUME NEW c \in Cals, NEW s \in Stages, InFlight(c),
               stage' = [stage EXCEPT ![c] = s],
               UNCHANGED <<escrowed, balances, fees, nonces>>
        PROVE  UNCHANGED Escrow!vars
    BY <1>1, <1>2, StageMoves
  <1>3. ASSUME NEW c \in Cals, CalEvent(c) PROVE [Escrow!Next]_(Escrow!vars)
    <2>1. CASE Created(c)
      BY <2>1, CreatedRefines
    <2>2. CASE Signed(c)
      BY <1>2, <2>2 DEF Signed, CanSign, InFlight, Stages, moneyVars
    <2>3. ASSUME NEW n \in Amounts, Validated(c, n) PROVE Escrow!Next
      BY <2>3, ValidatedRefines
    <2>4. ASSUME NEW fx \in EffectLists, NEW n \in Amounts, Executed(c, fx, n)
          PROVE  UNCHANGED Escrow!vars
      BY <1>2, <2>4 DEF Executed, CanExecute, InFlight, Stages, moneyVars
    <2>5. CASE Settled(c)
      BY <1>2, <2>5 DEF Settled, CanSettle, InFlight, Stages, moneyVars
    <2>6. ASSUME NEW n \in Amounts, Finalized(c, n) \/ FailedAfter(c, n) PROVE Escrow!Next
      BY <2>6, RefundRefines, ReducerAssumption
      DEF Finalized, CanFinalize, FailedAfter, CanFailAfter, InFlight, PostValidated, Stages
    <2>7. ASSUME NEW n \in Amounts, FailedBefore(c, n) PROVE Escrow!Next
      BY <2>7, FailedBeforeRefines
    <2>8. QED
      BY <1>3, <2>1, <2>2, <2>3, <2>4, <2>5, <2>6, <2>7 DEF CalEvent
  <1>4. ASSUME NEW a \in Agents, NEW b \in Agents, NEW n \in Amounts, Transferred(a, b, n)
        PROVE  Escrow!Next
    BY <1>4, TransferredRefines
  <1>5. ASSUME NEW a \in Agents, ShadowInit(a) PROVE UNCHANGED Escrow!vars
    <2>1. balances' = balances
      BY <1>5 DEF ShadowInit, EntriesClean, TypeOK
    <2>2. OpenMap' = OpenMap /\ UNCHANGED <<escrowed, fees, nonces>>
      BY <1>5 DEF ShadowInit, flightVars, OpenMap, InFlight
    <2>3. QED
      BY <1>1, <2>1, <2>2
  <1>6. CASE UNCHANGED <<flightVars, nonces, moneyVars>>
    BY <1>1, <1>6 DEF flightVars, moneyVars, OpenMap, InFlight
  <1>7. QED
    BY <1>3, <1>4, <1>5, <1>6 DEF Next, OracleFeed, TickAdvanced, vars

(* The reducer implements AgentEscrow, whatever the log: an agent sees one   *)
(* open CAL, one deposit, and no charge beyond the deposit.                  *)
THEOREM ReducerRefines == Spec => ImplementsAgentEscrow
  <1>1. Init => Escrow!Init
    BY DEF Init, Escrow!Init, InFlight
  <1>2. TypeOK /\ OneInFlightPerAgent /\ EntriesClean /\ [Next]_vars
          => [Escrow!Next]_(Escrow!vars)
    BY NextRefines
  <1>3. QED
    BY <1>1, <1>2, ReducerTypeOK, ReducerOneInFlight, ReducerEntriesClean, PTL
    DEF Spec, ImplementsAgentEscrow, Escrow!Spec
=============================================================================
