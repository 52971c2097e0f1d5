---------------------------- MODULE RecoverySla ----------------------------
(***************************************************************************)
(* The cost model of recovery-sla.ts: recovering a node costs the load of  *)
(* a snapshot, a replay of the tail behind it and a margin, so the SLA is  *)
(* a bound on the tail, and the cadence of snapshots is chosen from it.    *)
(***************************************************************************)
EXTENDS Integers

AtLeast(floor, n) == IF n < floor THEN floor ELSE n

(* Math.floor of the quotient, also of a negative one; perTick > 0. *)
MaxTailForSla(sla, load, perTick, margin) ==
  AtLeast(0, (sla - load - margin) \div perTick)

(* Defect: the safety factor is applied before the tail is cut to whole ticks, upwards. *)
OperationalCadence_RoundsUp(sla, load, perTick, margin, safety) ==
  AtLeast(1, (MaxTailForSla(sla, load, perTick, margin) + safety) \div safety)

OperationalCadence(sla, load, perTick, margin, safety) ==
  AtLeast(1, MaxTailForSla(sla, load, perTick, margin) \div safety)

PredictedRecovery(tail, load, perTick, margin) == load + tail * perTick + margin

SnapshotDue(committed, cadence) == committed > 0 /\ committed % cadence = 0
=============================================================================
