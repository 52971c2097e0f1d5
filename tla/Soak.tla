--------------------------------- MODULE Soak ---------------------------------
(***************************************************************************)
(* The soak harness over a monitored node: SoakMonitor of soak.ts, which   *)
(* collects violations sample by sample, the growth rates of monitoring.ts *)
(* and the long-run checks that soak-program.ts adds to them.              *)
(*                                                                         *)
(* Times are milliseconds and a rate is compared without dividing.  A      *)
(* violation is its class.  A reading is what is sampled at a time:        *)
(* wal, the bytes of the log, and fds and disk of the process.             *)
(***************************************************************************)
EXTENDS Alerting

CONSTANTS
  SoakCadence, SoakSlaMs, RetentionMax,   \* SoakConfig
  GrowthCap,                              \* samples GrowthWatch keeps
  TargetMs, FdCeil, DiskCeil              \* A1Config; rates in units per millisecond

ASSUME SoakAssumption ==
  /\ GrowthCap \in Nat /\ GrowthCap >= 2
  /\ {SoakCadence, SoakSlaMs, RetentionMax, TargetMs, FdCeil, DiskCeil} \subseteq Nat

-----------------------------------------------------------------------------
(* GrowthWatch *)
SampleGrowth(buf, reading) ==
  LET longer == Append(buf, reading) IN IF Len(longer) > GrowthCap THEN Tail(longer) ELSE longer

(* The rate is bytes * 1000 / span, 0 of no time. *)
GrowthRates(buf) ==
  IF Len(buf) < 2 THEN [samples |-> Len(buf), span |-> 0, bytes |-> 0]
  ELSE LET span == Last(buf).at - buf[1].at
       IN  [samples |-> Len(buf), span |-> span,
            bytes |-> IF span > 0 THEN Last(buf).wal - buf[1].wal ELSE 0]

-----------------------------------------------------------------------------
(* SoakMonitor *)
NewMonitor ==
  [samples |-> 0, restarts |-> 0, violations |-> <<>>, maxTail |-> 0, maxBudget |-> 0,
   firing |-> NothingFires, growth |-> <<>>]

If(holds, class) == IF holds THEN <<class>> ELSE <<>>

RecordSample(m, s) ==
  LET budget == EstimatedRecoveryBudgetMs(s.tail)
      firing == Evaluate(m.firing, [budget |-> budget, drift |-> s.drift, oracle |-> s.oracle]).firing
      found == If(s.oracle = "DRIFT_DETECTED", "consensus")
               \o If(s.observer = "OBSERVED_DRIFT", "consensus")
               \o If(s.tail > SoakCadence, "recovery")
               \o If(budget > SoakSlaMs, "recovery")
               \o If(s.snapshots > RetentionMax, "growth")
               \o If(\E rule \in DOMAIN firing : firing[rule] = "CRITICAL", "operational")
  IN  [m EXCEPT !.samples = @ + 1, !.violations = @ \o found, !.firing = firing,
                !.growth = SampleGrowth(@, s),
                !.maxTail = Max({@, s.tail}), !.maxBudget = Max({@, budget})]

NoteRestart(m) == [m EXCEPT !.restarts = @ + 1]

(* SoakMonitor.report *)
MonitorReport(m) ==
  [ok |-> m.violations = <<>>, samples |-> m.samples, restarts |-> m.restarts,
   violations |-> m.violations, maxTail |-> m.maxTail, maxBudget |-> m.maxBudget,
   growth |-> GrowthRates(m.growth)]

-----------------------------------------------------------------------------
(* SoakProgram.  0 stands for "no time yet" in firstMs. *)
NewProgram ==
  [inner |-> NewMonitor, a1 |-> <<>>, resources |-> <<>>, restores |-> 0,
   firstMs |-> 0, lastMs |-> 0]

Touched(p, at) == [p EXCEPT !.firstMs = IF @ = 0 THEN at ELSE @, !.lastMs = at]

Record(p, s) == [Touched(p, s.at) EXCEPT !.inner = RecordSample(@, s)]
SampleResources(p, s) == [Touched(p, s.at) EXCEPT !.resources = Append(@, s)]

(* The roots of a backup that was restored are those of the live node, or an *)
(* exception came out of the attempt.                                        *)
CheckRestoreEquivalence(p, equivalent) ==
  [p EXCEPT !.restores = @ + 1, !.a1 = @ \o If(~equivalent, "durability")]

AtLeastOne(n) == IF n < 1 THEN 1 ELSE n

(* A rate above its ceiling, from the first sample to the last. *)
Grows(resources, field, ceil) ==
  /\ Len(resources) >= 2
  /\ Last(resources)[field] - resources[1][field]
       > ceil * AtLeastOne(Last(resources).at - resources[1].at)

(* SoakProgram.report *)
ProgramReport(p) ==
  LET base == MonitorReport(p.inner)
      duration == AtLeast(0, p.lastMs - p.firstMs)
      met == TargetMs = 0 \/ duration >= TargetMs
      found == p.a1 \o If(Grows(p.resources, "fds", FdCeil), "resource")
                    \o If(Grows(p.resources, "disk", DiskCeil), "resource")
                    \o If(~met, "duration")
  IN  [ok |-> base.ok /\ found = <<>> /\ met, base |-> base, a1Violations |-> found,
       duration |-> duration, restores |-> p.restores,
       maxFds |-> Max({0} \cup {p.resources[i].fds : i \in DOMAIN p.resources})]
=============================================================================
