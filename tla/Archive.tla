------------------------------- MODULE Archive -------------------------------
(***************************************************************************)
(* Backups and compaction of a node's directory: orchestrator/src/node,    *)
(* backup.ts, backup-incremental.ts and wal-compaction.ts.  A chain is one *)
(* full backup and incremental ones behind it; a compacted directory is a  *)
(* snapshot, the log behind it, and an archive of the log before it.       *)
(*                                                                         *)
(* The functions are given directories nobody writes to, so each is one    *)
(* step here; what happens between them is up to the node and the operator,*)
(* who may go on with a node that was restored.  Snapshot checksums may    *)
(* fail anywhere.  Torn lines are left to PersistentNode.                  *)
(*                                                                         *)
(* A block is its place in the log (tick) and an identity; an offset is a  *)
(* number of blocks; a State is the blocks folded to get it.  What a       *)
(* manifest says of a State (roots, counts) is the State itself.           *)
(***************************************************************************)
EXTENDS Integers, SequencesExt

CONSTANTS
  Keep,       \* snapshots the node retains
  MaxBlocks,  \* bound: blocks ever submitted
  MaxLinks,   \* bound: links of a chain
  MaxRots,    \* bound: snapshots whose checksum fails
  Refused,    \* the result of a function that throws
  Corrupt     \* ... a SnapshotCorruptionError

Block == [id : Nat, tick : Nat]

(* What throws gives no State. *)
ASSUME ArchiveAssumption == {Refused, Corrupt} \cap Seq(Block) = {}

VARIABLES
  dir,        \* the directory of the node: wal and snaps, by covered_tick
  live,       \* the node: its State and committedTicks
  chain,      \* the backups, oldest first
  compacted,  \* a compacted directory, or Refused while there is none
  issued,     \* history: blocks ever submitted
  rots        \* history: checksums that failed

vars == <<dir, live, chain, compacted, issued, rots>>

Init ==
  /\ dir = [wal |-> <<>>, snaps |-> <<>>]
  /\ live = [state |-> <<>>, committed |-> 0]
  /\ chain = <<>>
  /\ compacted = Refused
  /\ issued = 0
  /\ rots = 0

(* What is written over something older: a file, or a field. *)
Over(new, old) ==
  [c \in DOMAIN new \cup DOMAIN old |-> IF c \in DOMAIN new THEN new[c] ELSE old[c]]

-----------------------------------------------------------------------------
(* Opening a directory (OvtNode.open). *)

(* foldBlocks; applyTick throws on a tick before that of the State. *)
FoldBlocks(start, blocks) ==
  LET all == start \o blocks
  IN  IF \A i \in Len(start)+1..Len(all) : i > 1 => all[i].tick >= all[i-1].tick
        THEN all ELSE Refused

From(wal, offset) == SubSeq(wal, offset + 1, Len(wal))

(* What a snapshot file decodes to, if its checksum holds. *)
Valid(snaps) == {c \in DOMAIN snaps : snaps[c].intact}

Opened(d) ==
  LET newest == Max(Valid(d.snaps))
      snap   == d.snaps[newest]
      tail   == From(d.wal, snap.offset)
  IN  IF Valid(d.snaps) = {}
        THEN [state |-> FoldBlocks(<<>>, d.wal), committed |-> Len(d.wal)]
      ELSE IF snap.offset > Len(d.wal)
        THEN [state |-> Corrupt, committed |-> 0]
      ELSE [state |-> FoldBlocks(snap.state, tail), committed |-> newest + Len(tail)]

Fine(node) == node.state \notin {Refused, Corrupt}

-----------------------------------------------------------------------------
(* Backups. *)

(* The snapshots a backup takes along. *)
Included(d) ==
  Restrict(d.snaps, {c \in Valid(d.snaps) : d.snaps[c].offset <= Len(d.wal)})

FullBackup(d) ==
  LET captured == [wal |-> d.wal, snaps |-> Included(d)]
  IN  [kind |-> "full", from |-> 0, to |-> Len(d.wal), delta |-> d.wal,
       snaps |-> captured.snaps, expected |-> Opened(captured)]

(* The chain starts with a full backup and each link where the one before ends. *)
Contiguous(links) ==
  /\ links[1].kind = "full"
  /\ \A i \in 2..Len(links) :
       links[i].kind = "incremental" /\ links[i].from = links[i-1].to

(* materializeChain: the logs one behind the other, of each snapshot file the last copy. *)
Materialized(links) ==
  FoldLeft(LAMBDA d, link : [wal |-> d.wal \o link.delta, snaps |-> Over(link.snaps, d.snaps)],
           [wal |-> <<>>, snaps |-> <<>>], links)

(* A link's expected State is the one its own chain opens to. *)
IncrementalBackup(d, links) ==
  LET tip  == Last(links).to
      link == [kind |-> "incremental", from |-> tip, to |-> Len(d.wal),
               delta |-> From(d.wal, tip), snaps |-> Included(d)]
  IN  Over([expected |-> Opened(Materialized(Append(links, link)))], link)

(* Defect: what was restored is not compared with the manifest. *)
RestoreChain_Unverified(links) ==
  IF Contiguous(links) /\ Fine(Opened(Materialized(links)))
    THEN Opened(Materialized(links)) ELSE [state |-> Refused, committed |-> 0]

(* restoreChain, and restoreNode for a chain of one. *)
RestoreChain(links) ==
  LET node == Opened(Materialized(links))
  IN  IF Contiguous(links) /\ Fine(node) /\ node = Last(links).expected
        THEN node ELSE [state |-> Refused, committed |-> 0]

-----------------------------------------------------------------------------
(* Compaction. *)

Cuts(d) == {c \in Valid(d.snaps) : d.snaps[c].offset <= Len(d.wal)}

(* Defect: the retained snapshot keeps its offset into the log that was cut. *)
Compact_NotRebased(d) ==
  LET cut == Max(Cuts(d))
      own == [wal |-> From(d.wal, d.snaps[cut].offset), snaps |-> Restrict(d.snaps, {cut})]
  IN  [archive |-> SubSeq(d.wal, 1, d.snaps[cut].offset), wal |-> own.wal,
       snaps |-> own.snaps, expected |-> Opened(own)]

(* compactNode: cut at the newest valid snapshot, which is rebased to offset 0. *)
Compact(d) ==
  LET cut == Max(Cuts(d))
      own == [wal |-> From(d.wal, d.snaps[cut].offset),
              snaps |-> [c \in {cut} |-> [d.snaps[c] EXCEPT !.offset = 0]]]
  IN  [archive |-> SubSeq(d.wal, 1, d.snaps[cut].offset), wal |-> own.wal,
       snaps |-> own.snaps, expected |-> Opened(own)]

(* replayFromFull *)
Whole(c) == [wal |-> c.archive \o c.wal, snaps |-> <<>>]

(* restoreCompacted: the fast path only if it gives what the manifest says. *)
RestoredDir(c) ==
  IF Opened(c) = c.expected THEN [wal |-> c.wal, snaps |-> c.snaps] ELSE Whole(c)

RestoreCompacted(c) ==
  IF Opened(c).state # Refused /\ Opened(RestoredDir(c)) = c.expected
    THEN c.expected ELSE [state |-> Refused, committed |-> 0]

-----------------------------------------------------------------------------
(* The node. *)
Submit ==
  LET block == [id |-> issued + 1, tick |-> live.committed] IN
  /\ issued < MaxBlocks
  /\ FoldBlocks(live.state, <<block>>) # Refused
  /\ dir' = [dir EXCEPT !.wal = Append(@, block)]
  /\ live' = [state |-> Append(live.state, block), committed |-> live.committed + 1]
  /\ issued' = issued + 1
  /\ UNCHANGED <<chain, compacted, rots>>

Snapshot ==
  LET snap == [state |-> live.state, offset |-> Len(dir.wal), intact |-> TRUE]
      all  == Over([c \in {live.committed} |-> snap], dir.snaps)
      kept == {c \in DOMAIN all : Cardinality({e \in DOMAIN all : e > c}) < Keep}
  IN  /\ dir' = [dir EXCEPT !.snaps = Restrict(all, kept)]
      /\ UNCHANGED <<live, chain, compacted, issued, rots>>

(* The checksum of a snapshot fails from now on. *)
Rotten(snaps, c) == [snaps EXCEPT ![c].intact = FALSE]

RotNode(c) ==
  /\ dir' = [dir EXCEPT !.snaps = Rotten(@, c)]
  /\ UNCHANGED <<chain, compacted>>

RotLink(i, c) ==
  /\ chain' = [chain EXCEPT ![i].snaps = Rotten(@, c)]
  /\ UNCHANGED <<dir, compacted>>

RotCompacted(c) ==
  /\ compacted' = [compacted EXCEPT !.snaps = Rotten(@, c)]
  /\ UNCHANGED <<dir, chain>>

Rot ==
  /\ rots < MaxRots
  /\ rots' = rots + 1
  /\ \/ \E c \in DOMAIN dir.snaps : RotNode(c)
     \/ \E i \in DOMAIN chain : \E c \in DOMAIN chain[i].snaps : RotLink(i, c)
     \/ compacted # Refused /\ \E c \in DOMAIN compacted.snaps : RotCompacted(c)
  /\ UNCHANGED <<live, issued>>

-----------------------------------------------------------------------------
(* The operator.  What is taken of a node remembers (history) its State, the *)
(* number of blocks its log has lost to compaction, and whether it is sound: *)
(* the directory was good for that State, and its log goes on with the one   *)
(* in the chain, block by block.                                             *)
Origin == live.committed - Len(dir.wal)

Remember(copy, links) ==
  Over([truth |-> live,
        origin |-> Origin,
        sound |-> /\ Opened(dir) = live
                  /\ \A i \in DOMAIN links : links[i].origin = Origin
                  /\ IsPrefix(Materialized(links).wal, dir.wal)],
       copy)

Backup ==
  /\ Fine(FullBackup(dir).expected)
  /\ chain' = <<Remember(FullBackup(dir), <<>>)>>
  /\ UNCHANGED <<dir, live, compacted, issued, rots>>

(* backupIncremental: refused when the log is shorter than the chain. *)
BackupMore ==
  LET link == IncrementalBackup(dir, chain) IN
  /\ chain # <<>> /\ Len(chain) < MaxLinks
  /\ Len(dir.wal) >= Last(chain).to
  /\ Contiguous(chain)
  /\ Fine(link.expected)
  /\ chain' = Append(chain, Remember(link, chain))
  /\ UNCHANGED <<dir, live, compacted, issued, rots>>

CompactNode ==
  /\ Cuts(dir) # {}
  /\ Fine(Compact(dir).expected)
  /\ compacted' = Remember(Compact(dir), <<>>)
  /\ UNCHANGED <<dir, live, chain, issued, rots>>

(* The node goes on in a directory that was restored (bound: of copies that  *)
(* are sound, nothing is claimed of what follows from others). *)
GoOn(d, node) ==
  /\ Fine(node)
  /\ dir' = d
  /\ live' = node
  /\ UNCHANGED <<chain, compacted, issued, rots>>

GoOnFromChain(n) ==
  /\ \A i \in 1..n : chain[i].sound
  /\ GoOn(Materialized(SubSeq(chain, 1, n)), RestoreChain(SubSeq(chain, 1, n)))

GoOnFromCompacted ==
  /\ compacted # Refused
  /\ compacted.sound
  /\ GoOn(RestoredDir(compacted), RestoreCompacted(compacted))

Next ==
  \/ Submit
  \/ Snapshot
  \/ Rot
  \/ Backup
  \/ BackupMore
  \/ CompactNode
  \/ \E n \in DOMAIN chain : GoOnFromChain(n)
  \/ GoOnFromCompacted

Spec == Init /\ [][Next]_vars

-----------------------------------------------------------------------------
Sound == \A i \in DOMAIN chain : chain[i].sound
WholeLogs == \A i \in DOMAIN chain : chain[i].origin = 0

(* Any sequences of links an operator may pass to restoreChain. *)
Picks == UNION {[1..n -> DOMAIN chain] : n \in DOMAIN chain}

(* restoreChain given any links of the chain, in any order, with any left    *)
(* out or repeated and any snapshot rotten: it gives the State the node had  *)
(* when the last of them was taken, or throws.  Holds while each link was    *)
(* taken of a directory that was good and whose log continues the chain.     *)
GivesItsEnd ==
  Sound => \A pick \in Picks :
    LET links == [i \in DOMAIN pick |-> chain[pick[i]]]
        node  == RestoreChain(links)
    IN  node.state # Refused => node = Last(links).truth

(* The chain itself does restore, whatever snapshots of it rot: the log is   *)
(* the truth, and a snapshot of a later link replaces none that is needed.   *)
ChainRestores ==
  /\ chain # <<>>
  /\ Sound /\ WholeLogs
  => RestoreChain(chain) = Last(chain).truth

(* What restoreChain gives is exact, and of the whole chain it gives it      *)
(* (backup-incremental.ts:158).                                              *)
RestoreIsExact == GivesItsEnd /\ ChainRestores

(* A compacted directory gives the State of its node or nothing, also when   *)
(* its only snapshot rots; and it does give it, if its archive starts at     *)
(* genesis.                                                                  *)
CompactedRestores ==
  compacted # Refused /\ compacted.sound =>
    LET node == RestoreCompacted(compacted) IN
    /\ node.state # Refused => node = compacted.truth
    /\ compacted.origin = 0 => node.state # Refused
=============================================================================
