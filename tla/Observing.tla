------------------------------ MODULE Observing ------------------------------
(***************************************************************************)
(* What is worked out about a node by those who look at it: the cadence    *)
(* from its costs, drift from an oracle, alerts from its samples, the      *)
(* verdict on a soak, and that on the transcript of a run.                 *)
(*                                                                         *)
(* A step chooses a subject and what it is given, and records what the     *)
(* code answers; a property compares that answer with a definition of what *)
(* it should be that takes no step of the algorithm.  The alerts and a     *)
(* soak keep state between two calls, so theirs is a history.              *)
(*                                                                         *)
(* Algorithms asks about more; to the properties of this module, all else  *)
(* that may be asked is Elsewhere.                                         *)
(***************************************************************************)
EXTENDS Soak, Replay, Questions

CONSTANTS
  Costs,                              \* parameters of the recovery cost model
  MaxHistory, Tails, Drifts, Oracles, \* a history of evaluations of the alerts
  Streams,                            \* checkpoint streams of two implementations
  Programs, Transcripts,              \* blocks that are run; transcripts to verify
  SoakSteps, MaxSoak                  \* a long run of a monitored node

SoakStep ==
  [kind : {"sample"}, tail : Nat, drift : Nat, oracle : Oracles,
   observer : {"OBSERVED_OK", "OBSERVED_DRIFT"}, snapshots : Nat, wal : Nat, fds : Nat,
   disk : Nat, dt : Nat]
  \cup [kind : {"restart"}, dt : Nat]
  \cup [kind : {"restore"}, equivalent : BOOLEAN, dt : Nat]

ListLike(x) == x \in Seq(ToSet(x))

(* The events of a run lead to States of their own, and none is rejected. *)
Genesis == "e0"
EachItsOwn(blocks) ==
  \A k, l \in DOMAIN blocks : \A i \in DOMAIN blocks[k], j \in DOMAIN blocks[l] :
    /\ blocks[k][i] \notin {Rejected, Genesis}
    /\ blocks[k][i] = blocks[l][j] => k = l /\ i = j

ASSUME ObservingAssumption ==
  /\ Costs \subseteq [sla : Nat, load : Nat, perTick : Nat \ {0}, margin : Nat,
                      safety : Nat \ {0}]
  /\ Tails \subseteq Nat /\ Drifts \subseteq Nat
  /\ \A stream \in Streams : ListLike(stream)
  /\ \A blocks \in Programs : /\ ListLike(blocks)
                              /\ \A k \in DOMAIN blocks : ListLike(blocks[k])
                              /\ EachItsOwn(blocks)
  /\ \A t \in Transcripts : ListLike(t.log) /\ ListLike(t.ticks)
  /\ SoakSteps \subseteq SoakStep

-----------------------------------------------------------------------------
Planning == subject = "none" /\ \E c \in Costs :
  Put("cadence", c, OperationalCadence(c.sla, c.load, c.perTick, c.margin, c.safety))

Comparing == subject = "none" /\ \E ts, oracle \in Streams :
  Put("drift", [ts |-> ts, oracle |-> oracle], DetectDrift(ts, oracle))

(* One tick of a monitored node: a sample of the scheduler's drift, and the rules. *)
Watching == /\ subject \in {"none", "alerts"} /\ Len(given) < MaxHistory
            /\ \E tail \in Tails, drift \in Drifts, oracle \in Oracles :
                 LET window == Add(IF given = <<>> THEN EmptyWindow ELSE answer.window, drift)
                     now == Evaluate(IF given = <<>> THEN NothingFires ELSE answer.firing,
                              [budget |-> EstimatedRecoveryBudgetMs(tail),
                               drift |-> MaxOf(window), oracle |-> oracle])
                 IN  Put("alerts",
                         Append(given, [tail |-> tail, drift |-> drift, oracle |-> oracle]),
                         [window |-> window, firing |-> now.firing,
                          log |-> (IF given = <<>> THEN <<>> ELSE answer.log) \o now.events])

Replaying == subject = "none" /\
  \/ \E blocks \in Programs :
       LET t == RunProgram(Genesis, blocks) IN Put("run", blocks, [t |-> t, verified |-> VerifyReplay(t)])
  \/ \E t \in Transcripts : Put("replay", t, VerifyReplay(t))

(* A soak: a sample with its resources, a restart, or a backup restored and compared. *)
Soaking ==
  /\ subject \in {"none", "soak"} /\ Len(given) < MaxSoak
  /\ \E step \in SoakSteps :
       LET p == IF given = <<>> THEN NewProgram ELSE answer.program
           at == (IF given = <<>> THEN 1 ELSE Last(given).at) + step.dt
           s == [f \in DOMAIN step \cup {"at"} |-> IF f = "at" THEN at ELSE step[f]]
           after == CASE s.kind = "sample" -> SampleResources(Record(p, s), s)
                      [] s.kind = "restart" -> [p EXCEPT !.inner = NoteRestart(@)]
                      [] s.kind = "restore" -> CheckRestoreEquivalence(p, s.equivalent)
       IN  Put("soak", Append(given, s), [program |-> after, report |-> ProgramReport(after)])

Observe == Planning \/ Comparing \/ Watching \/ Replaying \/ Soaking

(* All else that may be asked. *)
Elsewhere == subject' \notin {"none", "cadence", "drift", "alerts", "run", "replay", "soak"}

ObservingSpec == NothingAsked /\ [][Observe \/ Elsewhere]_asked

-----------------------------------------------------------------------------
(* The cadence derived from the SLA keeps a tail of "safety" cadences      *)
(* recoverable within it, whenever the SLA allows such a tail at all, and  *)
(* is the longest that does: the floor is taken twice (recovery-sla.ts).   *)
CadenceMeetsSla ==
  subject = "cadence" =>
    LET Recovery(cadence) ==
          PredictedRecovery(given.safety * cadence, given.load, given.perTick, given.margin)
    IN  /\ answer >= 1
        /\ (\E c \in 1..given.sla : Recovery(c) <= given.sla) => Recovery(answer) <= given.sla
        /\ Recovery(answer + 1) > given.sla

-----------------------------------------------------------------------------
(* What a receiver of the transitions believes of a rule after the first n. *)
Believed(log, n, rule) ==
  LET heard == {i \in 1..n : log[i].rule = rule}
      latest == log[Max(heard)]
  IN  IF heard = {} \/ latest.state = "RESOLVED" THEN "clear" ELSE latest.severity

Severity(level) == CASE level >= 2 -> "CRITICAL" [] level = 1 -> "WARNING" [] OTHER -> "clear"

(* A receiver that only applies the transitions knows after each           *)
(* evaluation exactly what the samples still in the window, the tail and   *)
(* the last drift check mean, is told nothing twice, and an alert is       *)
(* resolved with the severity it fired with (alerting.ts:84,               *)
(* metrics.ts:21).  nodeHealth is the worse of the two numeric alerts.     *)
AlertsTellTheCondition ==
  subject = "alerts" =>
    LET n == Len(given)
        recent == {given[i].drift : i \in {k \in 1..n : n - k < Cap}}
        drift == Max(recent)
        budget == SnapshotLoadMs + given[n].tail * PerTickMs + MarginMs
        Told(rule) == Believed(answer.log, Len(answer.log), rule)
        both == {Told("recovery-sla"), Told("scheduler-drift")}
    IN  /\ Told("scheduler-drift") = Severity(IF drift >= DriftCritMs THEN 2
                                              ELSE IF drift >= DriftWarnMs THEN 1 ELSE 0)
        /\ Told("recovery-sla") = Severity(IF budget >= SlaMs THEN 2
                                           ELSE IF budget >= AtRiskMs THEN 1 ELSE 0)
        /\ Told("ts-go-drift") = Severity(IF given[n].oracle = "DRIFT_DETECTED" THEN 2 ELSE 0)
        /\ \A i \in DOMAIN answer.log :
             LET e == answer.log[i]
                 before == Believed(answer.log, i - 1, e.rule)
             IN  IF e.state = "FIRING" THEN e.severity \notin {"clear", before}
                                       ELSE e.severity = before /\ before # "clear"
        /\ NodeHealth(budget, drift) = CASE "CRITICAL" \in both -> "UNHEALTHY"
                                         [] both \cap {"WARNING", "CRITICAL"} = {"WARNING"} -> "DEGRADED"
                                         [] both = {"clear"} -> "HEALTHY"

(* The monitor and its oracle disagree exactly when their streams differ,  *)
(* and the tick named is the first at which they do (monitoring.ts:103).   *)
DriftIsTheFirstDifference ==
  subject = "drift" =>
    /\ answer.status = "DRIFT_OK" <=> given.ts = given.oracle
    /\ answer.status = "DRIFT_DETECTED" =>
         LET common == SubSeq(given.ts, 1, answer.tick - 1) IN
         /\ IsPrefix(common, given.ts) /\ IsPrefix(common, given.oracle)
         /\ answer.field # "length" => given.ts[answer.tick] # given.oracle[answer.tick]
         /\ answer.field = "length" => IsPrefix(given.ts, given.oracle) \/ IsPrefix(given.oracle, given.ts)

(* The samples of a run, its restarts or restores; the worst recovery and the *)
(* bounds of one sample.                                                     *)
OfKind(history, kind) == {i \in DOMAIN history : history[i].kind = kind}
Budget(s) == SnapshotLoadMs + s.tail * PerTickMs + MarginMs
InBounds(s) ==
  /\ s.oracle # "DRIFT_DETECTED" /\ s.observer # "OBSERVED_DRIFT"
  /\ s.tail <= SoakCadence /\ s.snapshots <= RetentionMax
  /\ Budget(s) <= SoakSlaMs /\ Budget(s) < SlaMs /\ s.drift < DriftCritMs

(* The report is that of this history. *)
ReportsTheRun(history, report) ==
  LET samples == OfKind(history, "sample")
      n == Cardinality(samples)
      first == history[Min(samples)]
      last == history[Max(samples)]
      span == IF n = 0 THEN 0 ELSE last.at - first.at
      FastIn(field, ceil) == n >= 2 /\ last[field] - first[field] > ceil * Max({1, span})
      kept == {i \in samples : Cardinality({j \in samples : j >= i}) <= GrowthCap}
      oldest == history[Min(kept)]
  IN  /\ report.ok <=>
           /\ \A i \in samples : InBounds(history[i])
           /\ \A i \in OfKind(history, "restore") : history[i].equivalent
           /\ span >= TargetMs
           /\ ~FastIn("fds", FdCeil) /\ ~FastIn("disk", DiskCeil)
      /\ report.base.samples = n
      /\ report.base.restarts = Cardinality(OfKind(history, "restart"))
      /\ report.restores = Cardinality(OfKind(history, "restore"))
      /\ report.base.maxTail = Max({0} \cup {history[i].tail : i \in samples})
      /\ report.base.maxBudget = Max({0} \cup {Budget(history[i]) : i \in samples})
      /\ n >= 2 => LET s == last.at - oldest.at IN
           report.base.growth = [samples |-> Cardinality(kept), span |-> s,
                                 bytes |-> IF s > 0 THEN last.wal - oldest.wal ELSE 0]

(* A soak is reported as passed exactly when no sample in it broke a bound, *)
(* every restore was equivalent, it lasted long enough and no resource grew *)
(* too fast from the first sample to the last; what it counts and its       *)
(* maxima are those of the whole run, and the growth is that of the samples *)
(* that GrowthWatch still has (soak.ts:81, soak-program.ts:148).            *)
SoakReportsTheRun == subject = "soak" => ReportsTheRun(given, answer.report)

(* What operators are told of a node is so (AlertManager, detectDrift,       *)
(* SoakProgram.report).                                                      *)
MonitorTellsTheTruth == AlertsTellTheCondition /\ DriftIsTheFirstDifference /\ SoakReportsTheRun

-----------------------------------------------------------------------------
(* The places of the checkpoints in the log, each behind the one before. *)
Embeds(checkpoints, roots) ==
  \E place \in [DOMAIN checkpoints -> DOMAIN roots] :
    /\ \A k \in DOMAIN checkpoints : roots[place[k]] = checkpoints[k]
    /\ \A k, l \in DOMAIN checkpoints : k < l => place[k] < place[l]

(* A transcript verifies exactly when every event of its log is accepted,  *)
(* the log leads to the final root, and the roots at the ends of the ticks *)
(* are a subsequence of the roots after the events (node.ts:361).  The     *)
(* transcript of a run verifies if each of its blocks emitted an event and *)
(* only then: a block without one ends on a root that is already matched   *)
(* (node.ts:366).                                                          *)
ReplayVerifies ==
  /\ subject = "replay" =>
       (answer <=> /\ Rejected \notin ToSet(given.log)
                   /\ given.final = IF given.log = <<>> THEN given.genesis ELSE Last(given.log)
                   /\ Embeds(given.ticks, given.log))
  /\ subject = "run" =>
       (answer.verified <=> \A k \in DOMAIN given : given[k] # <<>>)
=============================================================================
