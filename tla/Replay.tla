-------------------------------- MODULE Replay --------------------------------
(***************************************************************************)
(* Folding an event log: cal-reducer/src/fold.ts, and run, replay and      *)
(* verifyReplay of orchestrator/src/node.ts.                               *)
(*                                                                         *)
(* A State is any value, and its root is the State itself.  Of an event    *)
(* only what the reducer makes of it is kept: the State it leads to, or    *)
(* Rejected.  A block is the list of the events that applyTick emits.      *)
(***************************************************************************)
EXTENDS Integers, SequencesExt

Rejected == "rejected"

(* scanStateRoots: the root after each event, up to the first one rejected. *)
ScanStateRoots(events) ==
  LET bad == {i \in DOMAIN events : events[i] = Rejected}
      first == Min(bad)
  IN  IF bad = {} THEN [roots |-> events, error |-> 0]
      ELSE [roots |-> SubSeq(events, 1, first - 1), error |-> first]

(* materialize: the State at the end, or none. *)
Materialize_(events, start) ==
  CASE Rejected \in {start} \cup ToSet(events) -> Rejected
    [] Rejected \notin {start} \cup ToSet(events) /\ events = <<>> -> start
    [] OTHER -> Last(events)

ReplayLog(log, genesis) ==
  LET scan == ScanStateRoots(log)
  IN  [roots |-> scan.roots, error |-> scan.error,
       final |-> IF scan.roots = <<>> THEN genesis ELSE Last(scan.roots)]

(* run, one block: its events, and the State it ends on. *)
RunBlock(t, block) ==
  LET end == Materialize_(block, t.final)
  IN  [t EXCEPT !.log = @ \o block, !.final = end, !.ticks = Append(@, end)]

(* run: a block that has a rejected event throws, and there is no transcript. *)
RunProgram(genesis, blocks) ==
  FoldLeft(RunBlock, [genesis |-> genesis, log |-> <<>>, final |-> genesis, ticks |-> <<>>],
           blocks)

(* Defect: the search for a checkpoint begins at the one before. *)
SearchFrom_Stays(roots, j, checkpoint) ==
  LET ahead == {i \in DOMAIN roots : i >= j /\ roots[i] = checkpoint}
  IN  IF ahead = {} THEN Len(roots) + 1 ELSE Min(ahead)

(* Where in the roots the search for the checkpoints stands: behind each     *)
(* checkpoint that was found, beyond the end when one was not.               *)
SearchFrom(roots, j, checkpoint) ==
  LET ahead == {i \in DOMAIN roots : i > j /\ roots[i] = checkpoint}
  IN  IF ahead = {} THEN Len(roots) + 1 ELSE Min(ahead)

VerifyReplay(t) ==
  LET r == ReplayLog(t.log, t.genesis)
  IN  /\ r.error = 0
      /\ r.final = t.final
      /\ FoldLeft(LAMBDA j, checkpoint : SearchFrom(r.roots, j, checkpoint), 0, t.ticks)
           <= Len(r.roots)
=============================================================================
