------------------------------- MODULE Daemon -------------------------------
(***************************************************************************)
(* The daemon, orchestrator/src/node/pr1-daemon.ts, over the durable node: *)
(* a mempool, a timer whose callback drains at most one submission of each *)
(* agent into a block, snapshots at a cadence, and a shutdown that flushes.*)
(*                                                                         *)
(* The callbacks are synchronous, so intake happens only between them, but *)
(* the process may end anywhere inside one: a callback is cut into the     *)
(* file operations of PersistentNode, and job says which comes next.       *)
(*                                                                         *)
(* An exception out of a callback is not caught anywhere and ends the      *)
(* process.  BOOTING, RECOVERING and CATCHING_UP are passed inside start() *)
(* and seen by nobody; a start() that throws is a start that is not taken. *)
(* A submission is accepted at most once, which bounds the runs.           *)
(***************************************************************************)
EXTENDS PersistentNode, RecoverySla

CONSTANTS
  Submissions,  \* the submissions clients may make
  Bad,          \* those whose block applyTick throws on
  Agents,
  AgentOf,      \* agentIdOf
  Cadence       \* snapshotCadence

(* A tick carries submissions, and applyTick throws on what is bad. *)
ASSUME DaemonAssumption ==
  /\ Blocks = SUBSET Submissions
  /\ Poison = {b \in Blocks : b \cap Bad # {}}
  /\ AgentOf \in [Submissions -> Agents]
  /\ Cadence \in Nat \ {0}

VARIABLES
  state,     \* the daemon's lifecycle state
  mempool,   \* this.mempool
  batch,     \* what the running callback has drained
  job,       \* what the running callback does next, "idle" when none runs
  accepted,  \* history: the submissions that submit() has accepted
  late       \* history: the process ended since the last snapshot

node == vars
daemon == <<state, mempool, batch, job, accepted, late>>
dvars == <<node, daemon>>

(* OvtNode.create has made the directory; no process runs. *)
DaemonInit ==
  /\ wal = <<>>
  /\ snaps = <<>>
  /\ head = [count |-> 0, state |-> <<>>]
  /\ up = FALSE
  /\ pc = "idle"
  /\ committed = 0
  /\ live = <<>>
  /\ promised = <<>>
  /\ state = "STOPPED"
  /\ mempool = <<>>
  /\ batch = {}
  /\ job = "idle"
  /\ accepted = {}
  /\ late = FALSE

-----------------------------------------------------------------------------
Start ==
  /\ state = "STOPPED"
  /\ Open(OpenDir)
  /\ state' = "RUNNING"
  /\ UNCHANGED <<mempool, batch, job, accepted, late>>

Submit(s) ==
  /\ state = "RUNNING"
  /\ job = "idle"
  /\ s \notin accepted
  /\ mempool' = Append(mempool, s)
  /\ accepted' = accepted \cup {s}
  /\ UNCHANGED <<node, state, batch, job, late>>

(* The entries of a list that are in a set, in their order. *)
Among(list, set) ==
  FoldLeft(LAMBDA kept, x : IF x \in set THEN Append(kept, x) ELSE kept, <<>>, list)

(* Defect: of each agent, the youngest submission is drained. *)
OnePerAgent_Youngest ==
  {mempool[i] : i \in {i \in DOMAIN mempool :
     \A j \in i+1..Len(mempool) : AgentOf[mempool[j]] # AgentOf[mempool[i]]}}

(* drainOnePerAgent: the oldest submission of each agent. *)
OnePerAgent ==
  {mempool[i] : i \in {i \in DOMAIN mempool :
     \A j \in 1..i-1 : AgentOf[mempool[j]] # AgentOf[mempool[i]]}}

(* The others keep their order. *)
LeftBehind == Among(mempool, Submissions \ OnePerAgent)

Drain ==
  /\ mempool # <<>>
  /\ batch' = OnePerAgent
  /\ mempool' = LeftBehind
  /\ job' = "append"

(* The timer fires.  With an empty mempool it only counts an idle tick. *)
OnTick ==
  /\ state = "RUNNING"
  /\ job = "idle"
  /\ Drain
  /\ UNCHANGED <<node, state, accepted, late>>

(* node.submit, in its file operations. *)
AppendBatch ==
  /\ job = "append"
  /\ AppendLine(batch)
  /\ batch' = {}
  /\ job' = "apply"
  /\ UNCHANGED <<state, mempool, accepted, late>>

ApplyBatch ==
  /\ job = "apply"
  /\ ApplyTick
  /\ job' = "head"
  /\ UNCHANGED <<state, mempool, batch, accepted, late>>

(* Only the ticks of the timer look at the cadence. *)
PublishHead ==
  /\ job = "head"
  /\ WriteHead
  /\ job' = CASE state = "SHUTTING_DOWN" -> "flush"
              [] state = "RUNNING" /\ SnapshotDue(committed, Cadence) -> "snapshot"
              [] OTHER -> "idle"
  /\ UNCHANGED <<state, mempool, batch, accepted, late>>

(* Defect: the snapshot of the cadence is only taken when nothing waits. *)
Snapshot_WhenIdle ==
  /\ job = "snapshot"
  /\ IF mempool = <<>> \/ state = "SHUTTING_DOWN"
       THEN PublishSnapshot /\ job' = "prune" /\ late' = FALSE
       ELSE UNCHANGED node /\ job' = "idle" /\ UNCHANGED late
  /\ UNCHANGED <<state, mempool, batch, accepted>>

Snapshot ==
  /\ job = "snapshot"
  /\ PublishSnapshot
  /\ job' = "prune"
  /\ late' = FALSE
  /\ UNCHANGED <<state, mempool, batch, accepted>>

PruneOne ==
  /\ job = "prune"
  /\ Excess # {}
  /\ Prune
  /\ UNCHANGED daemon

(* The callback is done; a shutdown leaves the node object behind. *)
Pruned ==
  /\ job = "prune"
  /\ Excess = {}
  /\ job' = "idle"
  /\ IF state = "SHUTTING_DOWN"
       THEN state' = "STOPPED" /\ Stop
       ELSE pc' = "idle" /\ UNCHANGED <<state, up, committed, live>>
  /\ UNCHANGED <<disk, promised, mempool, batch, accepted, late>>

Shutdown ==
  /\ state = "RUNNING"
  /\ job = "idle"
  /\ state' = "SHUTTING_DOWN"
  /\ job' = "flush"
  /\ UNCHANGED <<node, mempool, batch, accepted, late>>

(* Defect: a shutdown ends without its snapshot. *)
Flush_NoSnapshot ==
  /\ job = "flush"
  /\ \/ Drain
     \/ mempool = <<>> /\ job' = "prune" /\ UNCHANGED <<mempool, batch>>
  /\ UNCHANGED <<node, state, accepted, late>>

(* The loop of shutdown: block after block, then a last snapshot. *)
Flush ==
  /\ job = "flush"
  /\ \/ Drain
     \/ mempool = <<>> /\ job' = "snapshot" /\ UNCHANGED <<mempool, batch>>
  /\ UNCHANGED <<node, state, accepted, late>>

-----------------------------------------------------------------------------
(* The end of the process: all that was in memory is gone. *)
Gone ==
  /\ state' = "STOPPED"
  /\ mempool' = <<>>
  /\ batch' = {}
  /\ job' = "idle"
  /\ late' = TRUE
  /\ UNCHANGED accepted

KilledBetween == Crash /\ Gone

KilledInAppend(written) ==
  /\ job = "append"
  /\ CrashInAppend(batch, written)
  /\ Gone

KilledInWriteHead == CrashInWriteHead /\ Gone

(* applyTick throws out of node.submit and of the callback. *)
UncaughtException ==
  /\ job = "apply"
  /\ ~Folds(live, Len(wal))
  /\ Stop
  /\ UNCHANGED <<disk, promised>>
  /\ Gone

-----------------------------------------------------------------------------
Callback ==
  \/ AppendBatch
  \/ ApplyBatch
  \/ PublishHead
  \/ Snapshot
  \/ PruneOne
  \/ Pruned
  \/ Flush
  \/ UncaughtException

DaemonNext ==
  \/ Start
  \/ \E s \in Submissions : Submit(s)
  \/ OnTick
  \/ Callback
  \/ Shutdown
  \/ KilledBetween
  \/ \E written \in Tears : KilledInAppend(written)
  \/ KilledInWriteHead

(* setInterval fires again and again while the process runs, and a callback  *)
(* that was entered goes on.  Nobody has to start, stop or submit.           *)
Fairness == WF_dvars(OnTick) /\ WF_dvars(Callback)

DaemonSpec == DaemonInit /\ [][DaemonNext]_dvars /\ Fairness

-----------------------------------------------------------------------------

(* The writes that were not cut short. *)
Logged == Among(wal, [tick : Nat, block : Blocks, written : {"line"}])

Of(a) == {s \in Submissions : AgentOf[s] = a}

(* What waits of agent a: drained but not yet in the log, then the mempool. *)
Waiting(a) == SetToSeq(batch \cap Of(a)) \o Among(mempool, Of(a))

Queue == INSTANCE Intake WITH
  waiting <- [a \in Agents |-> Waiting(a)],
  blocks <- [i \in DOMAIN Logged |-> Logged[i].block]

(* An accepted submission gets into exactly one block, after those its agent *)
(* made before and at most one per agent and block, unless the process ends  *)
(* first; a shutdown is no such end, and no submission waits for ever.       *)
ImplementsIntake == Queue!Spec

NewestCovered == IF ValidSnapshots = {} THEN 0 ELSE Max(ValidSnapshots)

(* What the next open would have to replay. *)
TailTicks == Len(ParseFrom(0)) - NewestCovered

(* A daemon whose process has not ended since the last snapshot is never     *)
(* further from a snapshot than the cadence when it could be killed between  *)
(* two callbacks: the bound the recovery SLA is computed from.               *)
TailWithinCadence ==
  state = "RUNNING" /\ job = "idle" /\ ~late => committed - NewestCovered < Cadence

(* After a graceful shutdown the next start has nothing to replay and gives  *)
(* the State that was live, unless the log ends in a torn line.              *)
RestartIsInstant ==
  /\ state = "STOPPED"
  /\ ~late
  /\ wal # <<>>
  /\ OffsetOnBoundary(Len(wal))
  /\ Unglued
  => /\ TailTicks = 0
     /\ OpenDir = [committed |-> NewestCovered, state |-> promised]

(* Whatever ends the process, and wherever: the directory it leaves opens    *)
(* to all that was promised, as long as no block threw and no torn line was  *)
(* written behind.                                                           *)
RestartsWhereItStopped ==
  state = "STOPPED" /\ Unglued /\ NoPoison =>
    /\ OpenDir.state # Refused
    /\ IsPrefix(promised, OpenDir.state)
=============================================================================
