--------------------------- MODULE PersistentNode ---------------------------
(***************************************************************************)
(* The durable node, OvtNode of orchestrator/src/node/persistent-node.ts   *)
(* with snapshot-store.ts: a write-ahead log of tick blocks, snapshots of  *)
(* the accumulator, and head.json, which an observer reads.  The process   *)
(* may crash between any two file operations, and in the middle of one.    *)
(*                                                                         *)
(* The file wal.ndjson is a sequence of writes, one per submit.  A write   *)
(* is cut short by a crash: nothing of it, a part, or all but its newline  *)
(* is then in the file.  An offset is the number of writes before it.      *)
(*                                                                         *)
(* A State is the list of the writes that were folded to get it, named by  *)
(* their position in the file.  Blocks of Poison make applyTick throw.     *)
(* Init is the directory that OvtNode.create leaves.                       *)
(***************************************************************************)
EXTENDS Integers, SequencesExt

CONSTANTS
  Blocks,    \* what a submit may carry
  Poison,    \* the blocks applyTick throws on
  Tears,     \* how a write may be cut short, a subset of {"part", "text"}
  Keep,      \* snapshots that are retained
  MaxWrites, \* bound: writes to the log
  Refused,   \* the result of an open that throws
  Torn       \* the content of a head.json cut short

ASSUME NodeAssumption ==
  /\ Poison \subseteq Blocks
  /\ Tears \subseteq {"part", "text"}
  /\ Keep \in Nat \ {0}
  /\ Refused \notin Seq(Nat)

VARIABLES
  wal,        \* wal.ndjson
  snaps,      \* the published snapshots, by covered_tick
  head,       \* head.json
  up,         \* the process runs
  pc,         \* what it is doing
  committed,  \* committedTicks
  live,       \* liveIncr
  promised    \* the State a caller was last told of, by submit or by open

disk == <<wal, snaps, head>>
process == <<up, pc, committed, live>>
vars == <<disk, process, promised>>

Init ==
  /\ wal = <<>>
  /\ snaps = <<>>
  /\ head = [count |-> 0, state |-> <<>>]
  /\ up = TRUE
  /\ pc = "idle"
  /\ committed = 0
  /\ live = <<>>
  /\ promised = <<>>

-----------------------------------------------------------------------------
(* Reading the files. *)

OffsetOnBoundary(offset) == offset = 0 \/ wal[offset].written = "line"

(* The write at i is a line of its own that parses: it starts a line and     *)
(* ends it, or it is the last one and only its newline is missing.           *)
Parses(i) ==
  /\ OffsetOnBoundary(i - 1)
  /\ wal[i].written = "line" \/ (wal[i].written = "text" /\ i = Len(wal))

(* parseWalLines from an offset: up to the first line that does not parse. *)
ParseFrom(offset) ==
  LET parsed == {n \in offset..Len(wal) : \A i \in offset+1..n : Parses(i)}
  IN  [k \in 1..(Max(parsed) - offset) |-> offset + k]

(* applyTick on the State h, TICK_REGRESSION included. *)
Folds(h, i) ==
  /\ wal[i].block \notin Poison
  /\ h # <<>> => wal[i].tick >= wal[Last(h)].tick

(* foldBlocks: one throw refuses the whole. *)
FoldBlocks(start, lines) ==
  FoldLeft(LAMBDA h, i : IF h # Refused /\ Folds(h, i) THEN Append(h, i) ELSE Refused,
           start, lines)

(* loadLatestValidSnapshot: skips those with a bad checksum. *)
ValidSnapshots == {c \in DOMAIN snaps : snaps[c].intact}

OpenFull ==
  LET lines == ParseFrom(0)
  IN  [committed |-> Len(lines), state |-> FoldBlocks(<<>>, lines)]

(* Defect: the tail is read from where the snapshot before this one ended. *)
OpenAt_OffByOne(covered) ==
  LET tail == ParseFrom(Max({snaps[covered].offset - 1, 0}))
  IN  [committed |-> covered + Len(tail), state |-> FoldBlocks(snaps[covered].state, tail)]

OpenAt(covered) ==
  LET tail == ParseFrom(snaps[covered].offset)
  IN  [committed |-> covered + Len(tail), state |-> FoldBlocks(snaps[covered].state, tail)]

(* Defect: the oldest of the retained snapshots is restored, without a tail. *)
OpenDir_NoTail ==
  IF ValidSnapshots = {} THEN OpenFull
  ELSE LET newest == Min(ValidSnapshots)
       IN  [committed |-> newest, state |-> snaps[newest].state]

(* open: the newest valid snapshot and the tail, else the whole log. *)
OpenDir ==
  LET newest == Max(ValidSnapshots) IN
  IF ValidSnapshots = {} THEN OpenFull
  ELSE IF snaps[newest].offset > Len(wal) THEN [committed |-> 0, state |-> Refused]
  ELSE IF OffsetOnBoundary(snaps[newest].offset) THEN OpenAt(newest)
  ELSE OpenFull

-----------------------------------------------------------------------------
(* submit: append the line and fsync it, apply it, write head.json. *)
Write(b, written) ==
  wal' = Append(wal, [tick |-> committed, block |-> b, written |-> written])

AppendLine(b) ==
  /\ up /\ pc = "idle"
  /\ Len(wal) < MaxWrites
  /\ Write(b, "line")
  /\ committed' = committed + 1
  /\ pc' = "appended"
  /\ UNCHANGED <<snaps, head, up, live, promised>>

ApplyTick ==
  /\ pc = "appended"
  /\ Folds(live, Len(wal))
  /\ live' = Append(live, Len(wal))
  /\ pc' = "applied"
  /\ UNCHANGED <<disk, up, committed, promised>>

(* The caller gets the exception; the line and the count stay. *)
ApplyThrows ==
  /\ pc = "appended"
  /\ ~Folds(live, Len(wal))
  /\ pc' = "idle"
  /\ UNCHANGED <<disk, up, committed, live, promised>>

(* Defect: head.json gets the State of the tick before. *)
WriteHead_Stale ==
  /\ pc = "applied"
  /\ head' = [count |-> committed, state |-> promised]
  /\ promised' = live
  /\ pc' = "idle"
  /\ UNCHANGED <<wal, snaps, up, committed, live>>

WriteHead ==
  /\ pc = "applied"
  /\ head' = [count |-> committed, state |-> live]
  /\ promised' = live
  /\ pc' = "idle"
  /\ UNCHANGED <<wal, snaps, up, committed, live>>

(* Defect: the offset is taken as if one more line were in the log. *)
PublishSnapshot_OffsetAhead ==
  /\ up /\ pc = "idle"
  /\ snaps' = [c \in DOMAIN snaps \cup {committed} |->
                 IF c = committed
                 THEN [state |-> live, offset |-> Len(wal) + 1, intact |-> TRUE] ELSE snaps[c]]
  /\ pc' = "pruning"
  /\ UNCHANGED <<wal, head, up, committed, live, promised>>

(* snapshot: TMP, fsync and rename (a TMP is never read), then prune. *)
PublishSnapshot ==
  /\ up /\ pc = "idle"
  /\ snaps' = [c \in DOMAIN snaps \cup {committed} |->
                 IF c = committed
                 THEN [state |-> live, offset |-> Len(wal), intact |-> TRUE] ELSE snaps[c]]
  /\ pc' = "pruning"
  /\ UNCHANGED <<wal, head, up, committed, live, promised>>

(* pruneSnapshots, file by file: the newest of those beyond Keep first. *)
Excess == {c \in DOMAIN snaps : Cardinality({d \in DOMAIN snaps : d > c}) >= Keep}

Prune ==
  /\ pc = "pruning"
  /\ IF Excess = {}
       THEN pc' = "idle" /\ UNCHANGED snaps
       ELSE /\ snaps' = Restrict(snaps, DOMAIN snaps \ {Max(Excess)})
            /\ UNCHANGED pc
  /\ UNCHANGED <<wal, head, up, committed, live, promised>>

-----------------------------------------------------------------------------
(* The process stops: what it held in memory is gone. *)
Stop ==
  /\ up' = FALSE
  /\ pc' = "idle"
  /\ committed' = 0
  /\ live' = <<>>

Crash ==
  /\ up
  /\ Stop
  /\ UNCHANGED <<disk, promised>>

CrashInAppend(b, written) ==
  /\ up /\ pc = "idle"
  /\ Len(wal) < MaxWrites
  /\ Write(b, written)
  /\ Stop
  /\ UNCHANGED <<snaps, head, promised>>

(* writeFileSync truncates head.json before it writes it. *)
CrashInWriteHead ==
  /\ pc = "applied"
  /\ head' = Torn
  /\ Stop
  /\ UNCHANGED <<wal, snaps, promised>>

(* The checksum of a snapshot on disk fails from now on. *)
Rot(covered) ==
  /\ snaps[covered].intact
  /\ snaps' = [snaps EXCEPT ![covered].intact = FALSE]
  /\ UNCHANGED <<wal, head, process, promised>>

(* open, with or without the option ignoreSnapshots; head.json is left alone. *)
Open(opened) ==
  /\ ~up
  /\ opened.state # Refused
  /\ up' = TRUE
  /\ committed' = opened.committed
  /\ live' = opened.state
  /\ promised' = opened.state
  /\ UNCHANGED <<disk, pc>>

-----------------------------------------------------------------------------
Next ==
  \/ \E b \in Blocks : AppendLine(b)
  \/ ApplyTick
  \/ ApplyThrows
  \/ WriteHead
  \/ PublishSnapshot
  \/ Prune
  \/ Crash
  \/ \E b \in Blocks, written \in Tears : CrashInAppend(b, written)
  \/ CrashInWriteHead
  \/ \E covered \in DOMAIN snaps : Rot(covered)
  \/ Open(OpenDir)
  \/ Open(OpenFull)

Spec == Init /\ [][Next]_vars

-----------------------------------------------------------------------------
(* No write was appended behind one that a crash cut short. *)
Unglued == \A i \in 1..Len(wal)-1 : wal[i].written = "line"

NoPoison == \A i \in DOMAIN wal : wal[i].block \notin Poison

(* Whatever was torn, rotten or poisoned: a directory that opens gives a     *)
(* State made of the log's own blocks, each at most once and in their order. *)
(* A tick that submit has returned from, or that an open has brought back,   *)
(* is never lost again, and at most the one in doubt comes on top of it;     *)
(* not so once a torn line is appended to (see TickNeverLost).               *)
PromisedSurvives ==
  LET h == OpenDir.state IN
  h # Refused =>
    /\ \A i, j \in DOMAIN h : i < j => h[i] < h[j]
    /\ Unglued => IsPrefix(promised, h) /\ Len(h) <= Len(promised) + 1

(* The central invariant of the crash matrix: open gives what a full replay  *)
(* of the log gives, count of ticks included, or refuses.                    *)
RecoveryEquivalence ==
  Unglued /\ NoPoison => OpenDir = OpenFull

(* LiveObserver.observe: the log, folded up to the count in head.json. *)
Observed(count) == FoldBlocks(<<>>, SubSeq(ParseFrom(0), 1, count))

(* Though the log runs ahead of head.json, and head.json is not written on   *)
(* recovery, the observer re-derives what it claims: it sees no drift.       *)
ObserverSeesNoDrift ==
  Unglued /\ NoPoison /\ head # Torn =>
    /\ Len(ParseFrom(0)) >= head.count
    /\ Observed(head.count) = head.state

-----------------------------------------------------------------------------
(* Claims of the documents that the code does not keep. *)

(* persistent-node.ts: on restart the loader drops the torn tail, "so        *)
(* recovery yields the STATE_ROOT as of the last durably-committed tick".    *)
TickNeverLost ==
  LET h == OpenDir.state IN h # Refused => IsPrefix(promised, h)
=============================================================================
