------------------------------ MODULE Alerting ------------------------------
(***************************************************************************)
(* The observers of a node in src/orchestrator/src/node: the sliding       *)
(* window of metrics.ts, the classifications of monitoring.ts and the      *)
(* alert lifecycle of alerting.ts.  An alert is the severity it fires at,  *)
(* "clear" if it does not; messages and times are left out.                *)
(***************************************************************************)
EXTENDS RecoverySla, SequencesExt

CONSTANTS
  Cap,                   \* samples a window holds
  SlaMs,                 \* RECOVERY_SLA_MS
  AtRiskMs,              \* the share of it that is a risk
  SnapshotLoadMs, PerTickMs, MarginMs,    \* the reference costs of recovery
  DriftWarnMs, DriftCritMs                \* DEFAULT_HEALTH

ASSUME AlertingAssumption ==
  /\ Cap \in Nat \ {0}
  /\ {SlaMs, AtRiskMs, SnapshotLoadMs, PerTickMs, MarginMs} \subseteq Nat
  /\ AtRiskMs <= SlaMs
  /\ DriftWarnMs \in Nat \ {0} /\ DriftCritMs \in Nat /\ DriftWarnMs <= DriftCritMs

-----------------------------------------------------------------------------
(* metrics.ts: a ring of the last Cap samples. *)
EmptyWindow == [buf |-> <<>>, head |-> 0]

(* Defect: the head stays where it is. *)
Add_HeadStays(w, x) ==
  IF Len(w.buf) < Cap THEN [w EXCEPT !.buf = Append(@, x)]
  ELSE [w EXCEPT !.buf[w.head + 1] = x]

Add(w, x) ==
  IF Len(w.buf) < Cap THEN [w EXCEPT !.buf = Append(@, x)]
  ELSE [buf |-> [w.buf EXCEPT ![w.head + 1] = x], head |-> (w.head + 1) % Cap]

MaxOf(w) == IF w.buf = <<>> THEN 0 ELSE Max(ToSet(w.buf))

EstimatedRecoveryBudgetMs(tail) == PredictedRecovery(tail, SnapshotLoadMs, PerTickMs, MarginMs)

-----------------------------------------------------------------------------
(* monitoring.ts *)
SlaWatch(budget) ==
  CASE budget >= SlaMs -> "SLA_VIOLATED"
    [] budget < SlaMs /\ budget >= AtRiskMs -> "SLA_AT_RISK"
    [] OTHER -> "SLA_OK"

DriftLevel(drift) ==
  CASE drift >= DriftCritMs -> "UNHEALTHY"
    [] drift < DriftCritMs /\ drift >= DriftWarnMs -> "DEGRADED"
    [] OTHER -> "HEALTHY"

(* The worse of the two signals. *)
NodeHealth(budget, drift) ==
  LET sla == CASE SlaWatch(budget) = "SLA_VIOLATED" -> "UNHEALTHY"
               [] SlaWatch(budget) = "SLA_AT_RISK" -> "DEGRADED"
               [] OTHER -> "HEALTHY"
      signals == {sla, DriftLevel(drift)}
  IN  CASE "UNHEALTHY" \in signals -> "UNHEALTHY"
        [] "UNHEALTHY" \notin signals /\ "DEGRADED" \in signals -> "DEGRADED"
        [] OTHER -> "HEALTHY"

(* Checkpoints are pairs of a state root and a global root, one per tick. *)
DetectDrift(ts, oracle) ==
  LET n == Min({Len(ts), Len(oracle)})
      differ == {i \in 1..n : ts[i] # oracle[i]}
      first == Min(differ)
      Found(checked, tick, field) ==
        [status |-> "DRIFT_DETECTED", checked |-> checked, tick |-> tick, field |-> field]
  IN  CASE differ # {} ->
             Found(first, first, IF ts[first][1] # oracle[first][1] THEN "stateRoot"
                                 ELSE "globalRoot")
        [] differ = {} /\ Len(ts) # Len(oracle) -> Found(n, n, "length")
        [] OTHER -> [status |-> "DRIFT_OK", checked |-> n]

-----------------------------------------------------------------------------
(* alerting.ts *)
RecoverySlaRule(budget) ==
  CASE SlaWatch(budget) = "SLA_VIOLATED" -> "CRITICAL"
    [] SlaWatch(budget) = "SLA_AT_RISK" -> "WARNING"
    [] OTHER -> "clear"

SchedulerDriftRule(drift) ==
  CASE drift >= DriftCritMs -> "CRITICAL"
    [] drift < DriftCritMs /\ drift >= DriftWarnMs -> "WARNING"
    [] OTHER -> "clear"

(* No drift check, as much as one that finds none, is a condition that is clear. *)
TsGoDriftRule(status) == IF status = "DRIFT_DETECTED" THEN "CRITICAL" ELSE "clear"

Rules == <<"recovery-sla", "scheduler-drift", "ts-go-drift">>

Verdicts(input) ==
  [rule \in ToSet(Rules) |->
     CASE rule = "recovery-sla" -> RecoverySlaRule(input.budget)
       [] rule = "scheduler-drift" -> SchedulerDriftRule(input.drift)
       [] rule = "ts-go-drift" -> TsGoDriftRule(input.oracle)]

NothingFires == [rule \in ToSet(Rules) |-> "clear"]

Event(rule, state, severity) == [rule |-> rule, state |-> state, severity |-> severity]

(* Defect: an alert that fires is told once, whatever its severity becomes. *)
Transition_NoEscalation(rule, before, now) ==
  CASE before = "clear" /\ now # "clear" -> <<Event(rule, "FIRING", now)>>
    [] before # "clear" /\ now = "clear" -> <<Event(rule, "RESOLVED", before)>>
    [] OTHER -> <<>>

Transition(rule, before, now) ==
  CASE now # "clear" /\ now # before -> <<Event(rule, "FIRING", now)>>
    [] now = "clear" /\ before # "clear" -> <<Event(rule, "RESOLVED", before)>>
    [] OTHER -> <<>>

(* AlertManager.evaluate: the alerts that fire now, and the transitions. *)
Evaluate(firing, input) ==
  LET Told(i) == Transition(Rules[i], firing[Rules[i]], Verdicts(input)[Rules[i]])
  IN  [firing |-> Verdicts(input), events |-> Told(1) \o Told(2) \o Told(3)]
=============================================================================
