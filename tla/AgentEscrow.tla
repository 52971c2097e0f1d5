---------------------------- MODULE AgentEscrow ----------------------------
(***************************************************************************)
(* What the CAL Execution Spec promises an agent, with no word about       *)
(* stages, events or effects (sections 6.1, 6.2, 9.3 and 9.4): the agent   *)
(* has at most one open CAL; a deposit is taken at most out of what the    *)
(* agent can spend; when the CAL closes, the part that is not kept comes   *)
(* back, nothing beyond the deposit is kept once one was taken, and the    *)
(* agent's nonce moves by one.  CalReducer implements this specification.  *)
(***************************************************************************)
EXTENDS Integers

CONSTANTS Agents, Cals, AgentOf, InitBalances

VARIABLES
  open,       \* open[a]: the CALs of agent a that are open
  deposit,    \* deposit[c]: what is held for CAL c
  spendable,  \* spendable[a]: the PTRA balance of a
  kept,       \* what closed CALs have left to the treasury
  closed      \* closed[a]: how many CALs of a have closed

vars == <<open, deposit, spendable, kept, closed>>

Init ==
  /\ open = [a \in Agents |-> {}]
  /\ deposit = [c \in Cals |-> 0]
  /\ spendable = InitBalances
  /\ kept = 0
  /\ closed = [a \in Agents |-> 0]

Open(c) ==
  /\ open[AgentOf[c]] = {}
  /\ open' = [open EXCEPT ![AgentOf[c]] = {c}]
  /\ UNCHANGED <<deposit, spendable, kept, closed>>

Deposit(c) ==
  /\ c \in open[AgentOf[c]]
  /\ deposit[c] = 0
  /\ \E n \in 0..spendable[AgentOf[c]] :
       /\ deposit' = [deposit EXCEPT ![c] = n]
       /\ spendable' = [spendable EXCEPT ![AgentOf[c]] = @ - n]
  /\ UNCHANGED <<open, kept, closed>>

Close(c) ==
  LET a == AgentOf[c] IN
  /\ open[a] = {c}
  /\ \E k \in 0..(IF deposit[c] > 0 THEN deposit[c] ELSE spendable[a]) :
       /\ spendable' = [spendable EXCEPT ![a] = @ + deposit[c] - k]
       /\ kept' = kept + k
  /\ open' = [open EXCEPT ![a] = {}]
  /\ deposit' = [deposit EXCEPT ![c] = 0]
  /\ closed' = [closed EXCEPT ![a] = @ + 1]

Transfer(from, to) ==
  /\ \E n \in 0..spendable[from] :
       spendable' = [[spendable EXCEPT ![from] = @ - n] EXCEPT ![to] = @ + n]
  /\ UNCHANGED <<open, deposit, kept, closed>>

Next ==
  \/ \E c \in Cals : Open(c) \/ Deposit(c) \/ Close(c)
  \/ \E from, to \in Agents : Transfer(from, to)

Spec == Init /\ [][Next]_vars
=============================================================================
