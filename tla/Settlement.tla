----------------------------- MODULE Settlement -----------------------------
(***************************************************************************)
(* The settlement leg of m2-registry: scripts/m2c-testnet.ts deploys the   *)
(* reconciliation registry, sends one wallet.send_ton, observes its        *)
(* effect, classifies it (src/reconcile.ts) and records it in the registry *)
(* (contracts/reconciliation_registry.tolk), under the hash of the         *)
(* external message that carried it.                                       *)
(*                                                                         *)
(* The chain is another process.  It executes a broadcast external message *)
(* of the wallet once, if its seqno is the wallet's and before it expires, *)
(* whether or not the script still waits for it; internal messages from    *)
(* the wallet to the registry arrive in order.  A run may give up at each  *)
(* wait and be started again, and the operator's key is used by others.    *)
(*                                                                         *)
(* Amounts are in hundredths of a TON, hashes are names, and gas and       *)
(* balances are left out.                                                  *)
(***************************************************************************)
EXTENDS OwnedDict, SequencesExt

CONSTANTS
  Window,      \* transactions the API lists, newest first
  MaxRuns,     \* bound: runs of the script
  MaxForeign,  \* bound: external messages others send with the key
  None         \* nothing observed

ASSUME SettlementAssumption == Window \in Nat \ {0} /\ MaxRuns \in Nat /\ MaxForeign \in Nat

SendValue == 5                        \* SEND_VALUE, 0.05 TON
DeployValue == 10                     \* the 0.1 TON of the deployment
UpsertValue == 5                      \* the 0.05 TON of the upsert

VARIABLES
  txs,       \* external: the wallet's transactions; its seqno is their number
  mempool,   \* external: messages broadcast, not yet executed
  mail,      \* external: messages from the wallet to the registry, in order
  registry,  \* the registry: its storage, and whether it is deployed
  script,    \* the script: pc and what its variables hold
  made,      \* external messages ever made, which names them
  runs,      \* bound: runs begun
  foreign    \* bound: messages of others

chain == <<txs, mempool, mail, registry>>
vars == <<chain, script, made, runs, foreign>>

Seqno == Len(txs)

Init ==
  /\ txs = <<>>
  /\ mempool = {}
  /\ mail = <<>>
  /\ registry = [active |-> FALSE, owner |-> "operator", count |-> 0, records |-> <<>>]
  /\ script = [pc |-> "idle", seqno |-> 0, key |-> 0, nonce |-> 0, observed |-> None,
               clean |-> FALSE]
  /\ made = 0
  /\ runs = 0
  /\ foreign = 0

-----------------------------------------------------------------------------
(* reconcile.ts *)

(* Defect: only the amount is compared with what was authorized. *)
Classify_AmountOnly(expected, observed, now) ==
  CASE observed = None /\ now > expected.deadline -> "missing"
    [] observed = None /\ now <= expected.deadline -> "unknown"
    [] observed # None /\ observed.value # expected.value -> "mismatch"
    [] OTHER -> IF observed.at <= expected.deadline THEN "settled" ELSE "delayed"

(* classify: what happened comes before when it did. *)
Classify(expected, observed, now) ==
  CASE observed = None /\ now > expected.deadline -> "missing"
    [] observed = None /\ now <= expected.deadline -> "unknown"
    [] observed # None /\ (observed.dest # expected.dest \/ observed.value # expected.value)
         -> "mismatch"
    [] OTHER -> IF observed.at <= expected.deadline THEN "settled" ELSE "delayed"

StoredStatus == {"settled", "missing", "delayed", "mismatch"}

-----------------------------------------------------------------------------
(* The chain. *)

External(seqno, dest, value, body) ==
  [id |-> made + 1, seqno |-> seqno, dest |-> dest, value |-> value, body |-> body]

(* The wallet takes the message with its seqno, and refuses all others. *)
Execute(ext) ==
  /\ ext.seqno = Seqno
  /\ txs' = Append(txs, [ext |-> ext.id, dest |-> ext.dest, value |-> ext.value])
  /\ mail' = IF ext.dest = "registry" THEN Append(mail, ext.body) ELSE mail
  /\ mempool' = {e \in mempool : e.seqno > Seqno}
  /\ UNCHANGED <<registry, script, made, runs, foreign>>

(* valid_until has passed, or the message was lost. *)
Expire(ext) ==
  /\ mempool' = mempool \ {ext}
  /\ UNCHANGED <<txs, mail, registry, script, made, runs, foreign>>

(* Deployment, or onInternalMessage, which asserts the sender and the status. *)
Receive(reg, body) ==
  CASE body.op = "deploy" -> [reg EXCEPT !.active = TRUE]
    [] body.op = "upsert" /\ reg.active /\ body.record.status \in StoredStatus ->
         Upsert(reg, body.key, body.record)
    [] OTHER -> reg

Arrive ==
  /\ mail # <<>>
  /\ registry' = Receive(registry, Head(mail))
  /\ mail' = Tail(mail)
  /\ UNCHANGED <<txs, mempool, script, made, runs, foreign>>

(* Another program sends the same amount with the operator's key. *)
Foreign ==
  /\ foreign < MaxForeign
  /\ \E dest \in {"self", "other"} :
       mempool' = mempool \cup {External(Seqno, dest, SendValue, None)}
  /\ made' = made + 1
  /\ foreign' = foreign + 1
  /\ script' = [script EXCEPT !.clean = FALSE]
  /\ UNCHANGED <<txs, mail, registry, runs>>

-----------------------------------------------------------------------------
(* The script. *)

(* history: a run is clean while no message but its own is under way. *)
BeginRun ==
  /\ script.pc \in {"idle", "done", "failed"}
  /\ runs < MaxRuns
  /\ script' = [script EXCEPT !.pc = IF registry.active THEN "send" ELSE "deploy",
                              !.observed = None, !.clean = mempool = {}]
  /\ runs' = runs + 1
  /\ UNCHANGED <<chain, made, foreign>>

(* sendExternal: signs for the seqno just read, broadcasts, and waits. *)
SendExternal(dest, value, body, waiting) ==
  /\ mempool' = mempool \cup {External(Seqno, dest, value, body)}
  /\ made' = made + 1
  /\ script' = [script EXCEPT !.pc = waiting, !.seqno = Seqno]
  /\ UNCHANGED <<txs, mail, registry, runs, foreign>>

Deploy ==
  /\ script.pc = "deploy"
  /\ SendExternal("registry", DeployValue, [op |-> "deploy"], "deploying")

SendTon ==
  /\ script.pc = "send"
  /\ mempool' = mempool \cup {External(Seqno, "self", SendValue, None)}
  /\ made' = made + 1
  /\ script' = [script EXCEPT !.pc = "sending", !.seqno = Seqno,
                              !.key = made + 1, !.nonce = Seqno + 1]
  /\ UNCHANGED <<txs, mail, registry, runs, foreign>>

(* What the run has found out, which is what it records. *)
Expected == [dest |-> "self", value |-> SendValue, deadline |-> 2]
Observation(i) == [tx |-> i, dest |-> txs[i].dest, value |-> txs[i].value, at |-> 0]
Record ==
  [status |-> Classify(Expected, script.observed, script.observed.at),
   nonce |-> script.nonce, tx |-> script.observed.tx, clean |-> script.clean]

RecordIt ==
  /\ script.pc = "record"
  /\ Record.status = "settled"
  /\ SendExternal("registry", UpsertValue,
                  [op |-> "upsert", key |-> script.key, record |-> Record], "recording")

(* Any other class ends the run. *)
NotSettled ==
  /\ script.pc = "record"
  /\ Record.status # "settled"
  /\ script' = [script EXCEPT !.pc = "failed"]
  /\ UNCHANGED <<chain, made, runs, foreign>>

(* The seqno has advanced: that is taken for the confirmation. *)
Confirmed ==
  /\ script.pc \in {"deploying", "sending", "recording"}
  /\ Seqno > script.seqno
  /\ script' = [script EXCEPT !.pc = CASE @ = "deploying" -> "activating"
                                       [] @ = "sending" -> "observe"
                                       [] @ = "recording" -> "readback"]
  /\ UNCHANGED <<chain, made, runs, foreign>>

(* Waits for the registry, and goes on in the end without it. *)
Activated ==
  /\ script.pc = "activating"
  /\ script' = [script EXCEPT !.pc = "send"]
  /\ UNCHANGED <<chain, made, runs, foreign>>

Listed == Max({1, Seqno - Window + 1})..Seqno

(* Defect: of the transactions listed, the oldest. *)
Observe_Oldest ==
  LET matching == {i \in Listed : txs[i].value = SendValue} IN
  /\ script.pc = "observe"
  /\ matching # {}
  /\ script' = [script EXCEPT !.pc = "record", !.observed = Observation(Min(matching))]
  /\ UNCHANGED <<chain, made, runs, foreign>>

(* The newest transaction listed that sends the amount. *)
Observe ==
  LET matching == {i \in Listed : txs[i].value = SendValue} IN
  /\ script.pc = "observe"
  /\ matching # {}
  /\ script' = [script EXCEPT !.pc = "record", !.observed = Observation(Max(matching))]
  /\ UNCHANGED <<chain, made, runs, foreign>>

ReadBack ==
  /\ script.pc = "readback"
  /\ script.key \in DOMAIN registry.records
  /\ script' = [script EXCEPT !.pc = "done"]
  /\ UNCHANGED <<chain, made, runs, foreign>>

(* Defect: a deployment that is not confirmed is taken for one that is. *)
GiveUp_GoesOn ==
  /\ script.pc \in {"deploying", "sending", "observe", "recording", "readback"}
  /\ script' = [script EXCEPT !.pc = IF @ = "deploying" THEN "send" ELSE "failed"]
  /\ UNCHANGED <<chain, made, runs, foreign>>

(* A wait has lasted too long: the run throws, its message is still out. *)
GiveUp ==
  /\ script.pc \in {"deploying", "sending", "observe", "recording", "readback"}
  /\ script' = [script EXCEPT !.pc = "failed"]
  /\ UNCHANGED <<chain, made, runs, foreign>>

Next ==
  \/ \E ext \in mempool : Execute(ext) \/ Expire(ext)
  \/ Arrive \/ Foreign
  \/ BeginRun \/ Deploy \/ SendTon \/ RecordIt \/ NotSettled
  \/ Confirmed \/ Activated \/ Observe \/ ReadBack \/ GiveUp

Spec == Init /\ [][Next]_vars

-----------------------------------------------------------------------------
(* reconciliation_registry.tolk, "on-chain effect observed == CAL-authorized *)
(* action": a transaction recorded as settled is on the chain and has sent   *)
(* what was authorized, whoever made it and however many runs were given up. *)
SettledIsFaithful ==
  \A key \in DOMAIN registry.records :
    LET rec == registry.records[key] IN
    /\ rec.status = "settled"
    /\ rec.tx \in DOMAIN txs
    /\ txs[rec.tx].dest = "self" /\ txs[rec.tx].value = SendValue

(* m2c-testnet.ts, "correlate CAL -> tx/effect -> registry record": the      *)
(* transaction recorded under an external message is the one it caused, and  *)
(* the nonce is its seqno + 1.  This needs a clean run: after one that gave  *)
(* up on a message still under way, another message with the same seqno may  *)
(* be recorded for one that was executed in its place.                       *)
SettledIsItsOwn ==
  \A key \in DOMAIN registry.records :
    LET rec == registry.records[key] IN
    rec.clean => txs[rec.tx].ext = key /\ rec.nonce = rec.tx

(* The upsert is sent though the wait for the deployment may have ended      *)
(* without it.  Of a clean run it never reaches an address without a         *)
(* contract, which would bounce it: deployment and upsert arrive in order.   *)
(* Another message with the seqno of the deployment is taken for it, then.   *)
UpsertFindsRegistry ==
  mail # <<>> /\ Head(mail).op = "upsert" =>
    (Head(mail).record.clean => registry.active)
=============================================================================
