---------------------------- MODULE ObserverFleet ----------------------------
(***************************************************************************)
(* The live observer and the observer fleet, orchestrator/src/node,        *)
(* live-observer.ts and observer-fleet.ts: members that re-derive what a   *)
(* node publishes from its log, one after the other, and vote on it.       *)
(*                                                                         *)
(* The node is another process: it goes on logging blocks and publishing   *)
(* heads while the members read, and each of them reads head.json and the  *)
(* log in two steps.  A member may be injected, so a faulty one answers    *)
(* anything, and a node that is not honest may publish anything.           *)
(*                                                                         *)
(* The log is the number of its blocks and a root names the number of      *)
(* blocks that were folded to get it.  A block has events, for it advances *)
(* the tick, except that the first one has none when it is quiet.          *)
(***************************************************************************)
EXTENDS Integers, SequencesExt, FiniteSetsExt

CONSTANTS
  Members,      \* how many members the fleet has
  Faulty,       \* those that answer anything
  Quorum,       \* votes it takes to corroborate a root
  QuietStarts,  \* whether the first block may be quiet, a set of BOOLEAN
  Honesties,    \* whether the node is honest, a set of BOOLEAN
  MaxBlocks,    \* bound: blocks logged
  Torn,         \* the content of a head.json cut short
  None          \* no head read yet, no verdict yet

ASSUME FleetAssumption ==
  /\ Members \in Nat \ {0}
  /\ Faulty \subseteq 1..Members
  /\ Quorum \in 1..Members
  /\ MaxBlocks \in Nat
  /\ QuietStarts \subseteq BOOLEAN

VARIABLES
  wal,       \* wal.ndjson, the number of its blocks
  head,      \* head.json
  publishes, \* what the node does next: "append", "truncate" or "write"
  honest,    \* the node publishes what the log gives
  quiet,     \* the first block has no events
  seen,      \* the head the running member has read
  verdicts,  \* those of the members that are done
  fleet,     \* what the last observation returned
  still      \* history: head.json has not changed since the observation began

node == <<wal, head, publishes, honest, quiet>>
vars == <<node, seen, verdicts, fleet, still>>

Root(n) == <<"log", n>>
NoRoot == <<"", 0>>     \* the root "" of an empty event log
Lie == <<"lie", 0>>

(* What folding n blocks of the log gives. *)
Derived(n) == [state |-> Root(n), global |-> IF n = 0 THEN NoRoot ELSE Root(n)]

(* What the node has to publish of n blocks: eventLogRoot is "" as long as   *)
(* no event was committed.                                                   *)
Eventless(n) == n = 0 \/ (n = 1 /\ quiet)
Published(n) == [state |-> Root(n), global |-> IF Eventless(n) THEN NoRoot ELSE Root(n)]

Init ==
  /\ wal = 0
  /\ publishes = "append"
  /\ honest \in Honesties
  /\ quiet \in QuietStarts
  /\ head = [ticks |-> 0, roots |-> Published(0)]
  /\ seen = None
  /\ verdicts = <<>>
  /\ fleet = None
  /\ still = TRUE

-----------------------------------------------------------------------------
(* The node, whose submit logs a block and then replaces head.json. *)

AppendBlock ==
  /\ publishes = "append"
  /\ wal < MaxBlocks
  /\ wal' = wal + 1
  /\ publishes' = "truncate"
  /\ UNCHANGED <<head, honest, quiet, seen, verdicts, fleet, still>>

TruncateHead ==
  /\ publishes = "truncate"
  /\ head' = Torn
  /\ publishes' = "write"
  /\ still' = FALSE
  /\ UNCHANGED <<wal, honest, quiet, seen, verdicts, fleet>>

Lies == {[state |-> Lie, global |-> Lie], [state |-> Root(wal), global |-> Lie]}

WriteHead ==
  /\ publishes = "write"
  /\ \E roots \in {Published(wal)} \cup (IF honest THEN {} ELSE Lies) :
       head' = [ticks |-> wal, roots |-> roots]
  /\ publishes' = "append"
  /\ still' = FALSE
  /\ UNCHANGED <<wal, honest, quiet, seen, verdicts, fleet>>

-----------------------------------------------------------------------------
(* A live observer: it reads head.json, then the log up to the published    *)
(* count, and compares.                                                      *)
Verdict(status, ticks, claimed, derived) ==
  [status |-> status, ticks |-> ticks, claimed |-> claimed, derived |-> derived]

(* Defect: the whole log is folded, not the part the head speaks of. *)
LiveVerdict_FoldsAll(h, n) ==
  IF h.ticks = 0
    THEN Verdict("OBSERVED_EMPTY", 0, h.roots, [state |-> NoRoot, global |-> NoRoot])
    ELSE Verdict(IF Derived(n) = h.roots THEN "OBSERVED_OK" ELSE "OBSERVED_DRIFT",
                 n, h.roots, Derived(n))

LiveVerdict(h, n) ==
  LET ticks == Min({h.ticks, n})
      ok == ticks = h.ticks /\ Derived(ticks) = h.roots
  IN  IF h.ticks = 0
        THEN Verdict("OBSERVED_EMPTY", 0, h.roots, [state |-> NoRoot, global |-> NoRoot])
        ELSE Verdict(IF ok THEN "OBSERVED_OK" ELSE "OBSERVED_DRIFT",
                     ticks, h.roots, Derived(ticks))

(* The member whose turn it is. *)
Turn == Len(verdicts) + 1

(* The observation begins anew; what the last one returned is kept until now. *)
BeginIfFirst == fleet' = None /\ still' = (IF verdicts = <<>> THEN TRUE ELSE still)

ReadHead ==
  /\ Turn \in 1..Members \ Faulty
  /\ seen = None
  /\ head # Torn
  /\ seen' = head
  /\ BeginIfFirst
  /\ UNCHANGED <<node, verdicts>>

(* JSON.parse throws on what the truncation left; nobody catches it. *)
ReadTornHead ==
  /\ Turn \in 1..Members \ Faulty
  /\ seen = None
  /\ head = Torn
  /\ verdicts' = <<>>
  /\ fleet' = None
  /\ UNCHANGED <<node, seen, still>>

ReadLog ==
  /\ seen # None
  /\ verdicts' = Append(verdicts, LiveVerdict(seen, wal))
  /\ seen' = None
  /\ UNCHANGED <<node, fleet, still>>

(* A faulty member claims or derives what it likes. *)
FaultyVerdicts ==
  LET roots == {[state |-> Lie, global |-> Lie], Published(wal)} IN
  {Verdict("OBSERVED_DRIFT", wal, c, d) : c \in roots, d \in roots}
    \cup {Verdict("OBSERVED_EMPTY", 0, Published(wal), [state |-> NoRoot, global |-> NoRoot])}

FaultyAnswers ==
  /\ Turn \in Faulty
  /\ \E v \in FaultyVerdicts : verdicts' = Append(verdicts, v)
  /\ BeginIfFirst
  /\ UNCHANGED <<node, seen>>

FaultyThrows ==
  /\ Turn \in Faulty
  /\ verdicts' = <<>>
  /\ fleet' = None
  /\ UNCHANGED <<node, seen, still>>

-----------------------------------------------------------------------------
(* The fleet: members are grouped by what they derived, and the largest      *)
(* group, the first of them in a tie, has the vote.                          *)
Group(vs, i) == {j \in DOMAIN vs : vs[j].derived = vs[i].derived}

Lead(vs) ==
  Min({i \in DOMAIN vs :
         \A j \in DOMAIN vs : Cardinality(Group(vs, i)) >= Cardinality(Group(vs, j))})

(* Defect: one member that reports drift is enough to blame the node. *)
FleetVerdict_AnyDrift(vs) ==
  LET winner == Group(vs, Lead(vs))
      dissenters == DOMAIN vs \ winner
      status == IF \E i \in DOMAIN vs : vs[i].status = "OBSERVED_DRIFT" THEN "NODE_DRIFT"
                ELSE IF dissenters = {} THEN "CONSENSUS_OK" ELSE "OBSERVER_SPLIT"
  IN  IF \A i \in DOMAIN vs : vs[i].status = "OBSERVED_EMPTY"
        THEN [status |-> "OBSERVED_EMPTY", dissenters |-> {}]
        ELSE [status |-> status, dissenters |-> dissenters]

FleetVerdict(vs) ==
  LET winner == Group(vs, Lead(vs))
      dissenters == DOMAIN vs \ winner
      status == IF Cardinality(winner) < Quorum THEN "OBSERVER_SPLIT"
                ELSE IF vs[Lead(vs)].derived # vs[1].claimed THEN "NODE_DRIFT"
                ELSE IF dissenters = {} THEN "CONSENSUS_OK" ELSE "OBSERVER_SPLIT"
  IN  IF \A i \in DOMAIN vs : vs[i].status = "OBSERVED_EMPTY"
        THEN [status |-> "OBSERVED_EMPTY", dissenters |-> {}]
        ELSE [status |-> status, dissenters |-> dissenters]

Conclude ==
  /\ Len(verdicts) = Members
  /\ fleet' = FleetVerdict(verdicts)
  /\ verdicts' = <<>>
  /\ UNCHANGED <<node, seen, still>>

Next ==
  \/ AppendBlock \/ TruncateHead \/ WriteHead
  \/ ReadHead \/ ReadTornHead \/ ReadLog
  \/ FaultyAnswers \/ FaultyThrows
  \/ Conclude

Spec == Init /\ [][Next]_vars

-----------------------------------------------------------------------------
SoundMembers == 1..Members \ Faulty

(* live-observer.ts: though the node logs and publishes between the two      *)
(* reads of an observer, it never reports drift of a node that has none, and *)
(* reports it of every head it reads that is not what the log gives.  A log  *)
(* without events is left out: of it, drift is reported though there is none.*)
SoundMemberIsRight ==
  \A i \in DOMAIN verdicts : i \notin Faulty /\ verdicts[i].claimed.global # NoRoot =>
    (verdicts[i].status = "OBSERVED_OK" <=>
       \E n \in 1..MaxBlocks : verdicts[i].claimed = Published(n))

(* The sound members are a quorum, and no group of faulty ones outnumbers it. *)
SoundMajority ==
  Cardinality(SoundMembers) >= Quorum /\ 2 * Cardinality(SoundMembers) >= Members

(* observer-fleet.ts: an observation over one head, with a sound majority and *)
(* a sound first member, tells a wrong node from a wrong observer.            *)
WrongNodeOrWrongObserver ==
  fleet # None /\ still /\ 1 \notin Faulty /\ SoundMajority /\ ~Eventless(head.ticks) =>
      /\ fleet.dissenters \subseteq Faulty
      /\ fleet.status \in (IF head.roots # Published(head.ticks) THEN {"NODE_DRIFT"}
                           ELSE IF fleet.dissenters = {} THEN {"CONSENSUS_OK"}
                           ELSE {"OBSERVER_SPLIT"})
=============================================================================
