---------------------------- MODULE Archive_proofs ----------------------------
(***************************************************************************)
(* Proofs about backups and compaction, for any number of blocks, links    *)
(* and rotten snapshots.  Every log and every State is a piece of one      *)
(* history of blocks; what has to be shown of copies taken at different    *)
(* times is that their histories agree on the blocks no log has any more.  *)
(***************************************************************************)
EXTENDS Archive, Aggregates, SequenceTheorems

-----------------------------------------------------------------------------
(* Vocabulary. *)

Snap == [state : Seq(Block), offset : Nat, intact : BOOLEAN]
SnapFiles == UNION {[D -> Snap] : D \in SUBSET Nat}
Dirs == [wal : Seq(Block), snaps : SnapFiles]
Node == [state : Seq(Block), committed : Nat]
Compacts == [archive : Seq(Block), wal : Seq(Block), snaps : SnapFiles,
             expected : Node, truth : Node, origin : Nat, sound : BOOLEAN]
Fields == {"kind", "from", "to", "delta", "snaps", "expected", "truth", "origin", "sound"}

(* All the blocks a node has ever folded, from genesis. *)
History(h) == h \in Seq(Block) /\ \A k \in 1..Len(h) : h[k].tick = k - 1

(* s is the part of h behind the first o blocks. *)
IsPart(s, h, o) ==
  /\ s \in Seq(Block)
  /\ o + Len(s) <= Len(h)
  /\ \A k \in 1..Len(s) : s[k] = h[o + k]

(* The snapshots are of h, for a log that has lost its first o blocks. *)
SnapsOf(snaps, h, o) ==
  /\ snaps \in SnapFiles
  /\ \A c \in DOMAIN snaps :
       /\ c \in o..Len(h)
       /\ snaps[c].offset = c - o
       /\ Len(snaps[c].state) = c
       /\ IsPart(snaps[c].state, h, 0)

GoodDir(d, h, o) ==
  /\ IsPart(d.wal, h, o)
  /\ o + Len(d.wal) = Len(h)
  /\ SnapsOf(d.snaps, h, o)

IsNode(node) == node \in Node /\ History(node.state) /\ node.committed = Len(node.state)

Agree(o, s, t) == o <= Len(s) /\ o <= Len(t) /\ \A k \in 1..o : s[k] = t[k]

-----------------------------------------------------------------------------
(* The inductive invariant. *)

Lost(node, d) == node.committed - Len(d.wal)

(* A node, and the directory it runs in. *)
NodeIs(node, d) ==
  /\ IsNode(node)
  /\ d \in Dirs
  /\ Lost(node, d) \in Nat
  /\ GoodDir(d, node.state, Lost(node, d))

(* What link i is, whatever it was taken of. *)
LinkIs(links, i) ==
  LET link == links[i]
      h    == link.truth.state
  IN  /\ DOMAIN link = Fields
      /\ IsNode(link.truth)
      /\ link.kind = IF i = 1 THEN "full" ELSE "incremental"
      /\ link.from = IF i = 1 THEN 0 ELSE links[i - 1].to
      /\ link.origin \in Nat /\ link.to \in Nat
      /\ link.origin + link.to = Len(h)
      /\ link.from + Len(link.delta) = link.to
      /\ IsPart(link.delta, h, link.origin + link.from)
      /\ SnapsOf(link.snaps, h, link.origin)
      /\ link.sound \in BOOLEAN

SoundTo(links, n) == \A i \in 1..n : links[i].sound

(* What it is when it was taken of a sound directory, and those before too. *)
LinkTrue(links, i) ==
  SoundTo(links, i) =>
    /\ links[i].expected = links[i].truth
    /\ links[i].origin = links[1].origin
    /\ \A j \in 1..i : IsPart(links[j].truth.state, links[i].truth.state, 0)

ChainIs(links) ==
  /\ \E S : links \in Seq(S)
  /\ \A i \in 1..Len(links) : LinkIs(links, i) /\ LinkTrue(links, i)

Own(c) == [wal |-> c.wal, snaps |-> c.snaps]

CompactedIs(c) ==
  c # Refused =>
    LET h == c.truth.state IN
    /\ c \in Compacts
    /\ IsNode(c.truth)
    /\ c.expected = c.truth
    /\ c.origin + Len(c.archive) + Len(c.wal) = Len(h)
    /\ IsPart(c.archive, h, c.origin)
    /\ GoodDir(Own(c), h, c.origin + Len(c.archive))

(* The blocks a log has lost are the same in all that can still be mixed     *)
(* with it.                                                                  *)
Lineage(h, o, links, c) ==
  /\ c # Refused => Agree(o, h, c.truth.state)
  /\ links # <<>> =>
       /\ Agree(links[1].origin, links[1].truth.state, h)
       /\ c # Refused => Agree(links[1].origin, links[1].truth.state, c.truth.state)

AInv ==
  /\ NodeIs(live, dir)
  /\ ChainIs(chain)
  /\ CompactedIs(compacted)
  /\ Lineage(live.state, Origin, chain, compacted)
  /\ issued \in Nat

-----------------------------------------------------------------------------
(* Parts of a history. *)

LEMMA HistoryIs ==
  ASSUME NEW h, History(h)
  PROVE  /\ h \in Seq(Block) /\ Len(h) \in Nat
         /\ \A k \in 1..Len(h) : h[k] \in Block /\ h[k].tick = k - 1
         /\ IsPart(h, h, 0)
  BY DEF History, IsPart

(* A part that is as long as the history is all of it. *)
LEMMA PartIsAll ==
  ASSUME NEW h \in Seq(Block), NEW s, IsPart(s, h, 0), Len(s) = Len(h)
  PROVE  s = h
  <1>1. s \in Seq(Block) /\ \A k \in 1..Len(s) : s[k] = h[k]
    BY DEF IsPart
  <1>2. QED
    BY <1>1, SeqEqual

LEMMA PartOfPart ==
  ASSUME NEW h \in Seq(Block), NEW g \in Seq(Block), NEW s, NEW o \in Nat,
         IsPart(g, h, 0), IsPart(s, g, o)
  PROVE  IsPart(s, h, o)
  <1>1. /\ s \in Seq(Block) /\ Len(s) \in Nat /\ o + Len(s) <= Len(g) /\ Len(g) \in Nat
        /\ \A k \in 1..Len(s) : s[k] = g[o + k]
    BY DEF IsPart
  <1>2. Len(h) \in Nat /\ Len(g) <= Len(h) /\ \A k \in 1..Len(g) : g[k] = h[k]
    BY <1>1 DEF IsPart
  <1>3. \A k \in 1..Len(s) : o + k \in 1..Len(g)
    BY <1>1
  <1>4. QED
    BY <1>1, <1>2, <1>3 DEF IsPart

(* Two parts, the second where the first ends, make a part. *)
LEMMA PartsJoin ==
  ASSUME NEW h \in Seq(Block), NEW s, NEW t, NEW o \in Nat,
         IsPart(s, h, o), IsPart(t, h, o + Len(s))
  PROVE  /\ IsPart(s \o t, h, o)
         /\ Len(s \o t) = Len(s) + Len(t)
  <1>1. /\ s \in Seq(Block) /\ Len(s) \in Nat
        /\ \A k \in 1..Len(s) : s[k] = h[o + k]
    BY DEF IsPart
  <1>2. /\ t \in Seq(Block) /\ Len(t) \in Nat /\ o + Len(s) + Len(t) <= Len(h)
        /\ \A k \in 1..Len(t) : t[k] = h[o + Len(s) + k]
    BY DEF IsPart
  <1>3. /\ s \o t \in Seq(Block)
        /\ Len(s \o t) = Len(s) + Len(t)
        /\ \A i \in 1..Len(s) + Len(t) : (s \o t)[i] = IF i <= Len(s) THEN s[i] ELSE t[i - Len(s)]
    BY <1>1, <1>2, ConcatProperties
  <1>4. ASSUME NEW k \in 1..Len(s) + Len(t) PROVE (s \o t)[k] = h[o + k]
    <2>1. CASE k <= Len(s)
      BY <1>1, <1>2, <1>3, <2>1
    <2>2. CASE k > Len(s)
      <3>1. k - Len(s) \in 1..Len(t) /\ o + Len(s) + (k - Len(s)) = o + k
        BY <1>1, <1>2, <2>2
      <3>2. t[k - Len(s)] = h[o + k]
        BY <1>2, <3>1
      <3>3. QED
        BY <1>1, <1>3, <2>2, <3>2
    <2>3. QED
      BY <1>1, <1>2, <2>1, <2>2
  <1>5. QED
    BY <1>1, <1>2, <1>3, <1>4 DEF IsPart

(* What is behind the first m blocks of a part. *)
LEMMA PartFrom ==
  ASSUME NEW h \in Seq(Block), NEW s, NEW o \in Nat, IsPart(s, h, o), NEW m \in 0..Len(s)
  PROVE  /\ IsPart(From(s, m), h, o + m)
         /\ Len(From(s, m)) = Len(s) - m
  <1>1. /\ s \in Seq(Block) /\ Len(s) \in Nat /\ o + Len(s) <= Len(h) /\ Len(h) \in Nat
        /\ \A k \in 1..Len(s) : s[k] = h[o + k] /\ s[k] \in Block
    BY DEF IsPart
  <1>2. PICK a : a = m + 1
    OBVIOUS
  <1>3. a \in Int /\ \A i \in a..Len(s) : s[i] \in Block
    BY <1>1, <1>2
  <1>4. PICK t : t = SubSeq(s, a, Len(s))
    OBVIOUS
  <1>5. /\ t \in Seq(Block)
        /\ Len(t) = IF a <= Len(s) THEN Len(s) - a + 1 ELSE 0
        /\ \A i \in 1..Len(s) - a + 1 : t[i] = s[a + i - 1]
    BY <1>1, <1>3, <1>4, SubSeqProperties
  <1>6. Len(t) = Len(s) - m
    BY <1>1, <1>2, <1>5
  <1>7. ASSUME NEW k \in 1..Len(t) PROVE t[k] = h[o + m + k]
    <2>1. k \in 1..Len(s) - a + 1 /\ m + k \in 1..Len(s) /\ a + k - 1 = m + k /\ o + (m + k) = o + m + k
      BY <1>1, <1>2, <1>6
    <2>2. QED
      BY <1>1, <1>5, <2>1
  <1>8. t = From(s, m)
    BY <1>2, <1>4 DEF From
  <1>9. o + m + Len(t) <= Len(h)
    BY <1>1, <1>6
  <1>10. QED
    BY <1>5, <1>6, <1>7, <1>8, <1>9 DEF IsPart

(* The first m blocks of a part. *)
LEMMA PartTo ==
  ASSUME NEW h \in Seq(Block), NEW s, NEW o \in Nat, IsPart(s, h, o), NEW m \in 0..Len(s)
  PROVE  /\ IsPart(SubSeq(s, 1, m), h, o)
         /\ Len(SubSeq(s, 1, m)) = m
  <1>1. /\ s \in Seq(Block) /\ Len(s) \in Nat /\ o + Len(s) <= Len(h) /\ Len(h) \in Nat
        /\ \A k \in 1..Len(s) : s[k] = h[o + k] /\ s[k] \in Block
    BY DEF IsPart
  <1>2. m \in Int /\ \A i \in 1..m : s[i] \in Block
    BY <1>1
  <1>3. PICK t : t = SubSeq(s, 1, m)
    OBVIOUS
  <1>4. /\ t \in Seq(Block)
        /\ Len(t) = IF 1 <= m THEN m - 1 + 1 ELSE 0
        /\ \A i \in 1..m - 1 + 1 : t[i] = s[1 + i - 1]
    BY <1>2, <1>3, SubSeqProperties
  <1>5. Len(t) = m /\ \A i \in 1..m : t[i] = s[i]
    BY <1>1, <1>4
  <1>6. QED
    BY <1>1, <1>3, <1>4, <1>5 DEF IsPart

(* A history, with the part behind s folded onto s. *)
LEMMA FoldsUp ==
  ASSUME NEW h, History(h), NEW o \in Nat, NEW s, NEW t,
         IsPart(s, h, o), IsPart(t, h, o + Len(s))
  PROVE  FoldBlocks(s, t) = s \o t
  <1>1. h \in Seq(Block) /\ Len(h) \in Nat /\ \A k \in 1..Len(h) : h[k].tick = k - 1
    BY HistoryIs
  <1>2. PICK all : all = s \o t
    OBVIOUS
  <1>3. IsPart(all, h, o)
    BY <1>1, <1>2, PartsJoin
  <1>4. /\ all \in Seq(Block) /\ Len(all) \in Nat /\ o + Len(all) <= Len(h)
        /\ \A k \in 1..Len(all) : all[k] = h[o + k]
    BY <1>3 DEF IsPart
  <1>5. Len(s) \in Nat
    BY DEF IsPart
  <1>6. ASSUME NEW i \in Len(s)+1..Len(all), i > 1
        PROVE  all[i].tick >= all[i-1].tick
    <2>1. PICK a, b \in Nat : a = o + i /\ b = o + (i - 1)
      BY <1>5
    <2>2. i \in 1..Len(all) /\ i - 1 \in 1..Len(all) /\ a \in 1..Len(h) /\ b \in 1..Len(h)
      BY <1>1, <1>4, <1>5, <1>6, <2>1
    <2>3. all[i] = h[a] /\ all[i - 1] = h[b]
      BY <1>4, <2>1, <2>2
    <2>4. h[a].tick = a - 1 /\ h[b].tick = b - 1
      BY <1>1, <2>2
    <2>5. QED
      BY <2>1, <2>3, <2>4
  <1>7. QED
    BY <1>2, <1>6 DEF FoldBlocks

-----------------------------------------------------------------------------
(* Snapshot files. *)

LEMMA FilesAre ==
  ASSUME NEW f
  PROVE  f \in SnapFiles <=> /\ f = [c \in DOMAIN f |-> f[c]]
                             /\ DOMAIN f \subseteq Nat
                             /\ \A c \in DOMAIN f : f[c] \in Snap
  <1>1. ASSUME f \in SnapFiles
        PROVE  /\ f = [c \in DOMAIN f |-> f[c]]
               /\ DOMAIN f \subseteq Nat
               /\ \A c \in DOMAIN f : f[c] \in Snap
    <2>1. PICK D \in SUBSET Nat : f \in [D -> Snap]
      BY <1>1 DEF SnapFiles
    <2>2. QED
      BY <2>1
  <1>2. ASSUME /\ f = [c \in DOMAIN f |-> f[c]]
               /\ DOMAIN f \subseteq Nat
               /\ \A c \in DOMAIN f : f[c] \in Snap
        PROVE  f \in SnapFiles
    <2>1. PICK D \in SUBSET Nat : D = DOMAIN f
      BY <1>2
    <2>2. f \in [D -> Snap]
      BY <1>2, <2>1
    <2>3. QED
      BY <2>2 DEF SnapFiles
  <1>3. QED
    BY <1>1, <1>2

LEMMA SnapsAre ==
  ASSUME NEW snaps, NEW h, NEW o, SnapsOf(snaps, h, o), NEW c \in DOMAIN snaps
  PROVE  /\ snaps[c] \in Snap
         /\ c \in Nat /\ c \in o..Len(h)
         /\ snaps[c].offset = c - o
         /\ Len(snaps[c].state) = c
         /\ IsPart(snaps[c].state, h, 0)
  BY FilesAre DEF SnapsOf

(* Whatever is written over them, taken out or rots, is of the same history; *)
(* and of any longer one.                                                    *)
LEMMA SnapsOver ==
  ASSUME NEW f, NEW g, NEW h, NEW o, SnapsOf(f, h, o), SnapsOf(g, h, o)
  PROVE  SnapsOf(Over(f, g), h, o)
  <1>1. PICK r : r = Over(f, g)
    OBVIOUS
  <1>2. /\ DOMAIN r = DOMAIN f \cup DOMAIN g
        /\ r = [c \in DOMAIN r |-> r[c]]
        /\ \A c \in DOMAIN r : \/ c \in DOMAIN f /\ r[c] = f[c]
                               \/ c \in DOMAIN g /\ r[c] = g[c]
    BY <1>1 DEF Over
  <1>3. DOMAIN f \subseteq Nat /\ DOMAIN g \subseteq Nat
    BY SnapsAre
  <1>4. ASSUME NEW c \in DOMAIN r
        PROVE  /\ r[c] \in Snap /\ c \in o..Len(h) /\ r[c].offset = c - o
               /\ Len(r[c].state) = c /\ IsPart(r[c].state, h, 0)
    <2>1. CASE c \in DOMAIN f /\ r[c] = f[c]
      BY <2>1, SnapsAre
    <2>2. CASE c \in DOMAIN g /\ r[c] = g[c]
      BY <2>2, SnapsAre
    <2>3. QED
      BY <1>2, <2>1, <2>2
  <1>5. r \in SnapFiles
    BY <1>2, <1>3, <1>4, FilesAre
  <1>6. QED
    BY <1>1, <1>4, <1>5 DEF SnapsOf

LEMMA SnapsFewer ==
  ASSUME NEW f, NEW h, NEW o, SnapsOf(f, h, o), NEW D, D \subseteq DOMAIN f
  PROVE  SnapsOf(Restrict(f, D), h, o)
  <1>1. PICK r : r = Restrict(f, D)
    OBVIOUS
  <1>2. DOMAIN r = D /\ r = [c \in DOMAIN r |-> r[c]] /\ \A c \in D : r[c] = f[c]
    BY <1>1 DEF Restrict
  <1>3. \A c \in D : c \in Nat /\ r[c] \in Snap
    BY <1>2, SnapsAre
  <1>4. r \in SnapFiles
    BY <1>2, <1>3, FilesAre
  <1>5. QED
    BY <1>1, <1>2, <1>4, SnapsAre DEF SnapsOf

LEMMA SnapsRot ==
  ASSUME NEW f, NEW h, NEW o, SnapsOf(f, h, o), NEW e \in DOMAIN f
  PROVE  SnapsOf(Rotten(f, e), h, o) /\ Rotten(f, e) \in SnapFiles
  <1>1. PICK r : r = Rotten(f, e)
    OBVIOUS
  <1>2. PICK x : x = [f[e] EXCEPT !.intact = FALSE]
    OBVIOUS
  <1>3. f[e] \in Snap /\ DOMAIN f \subseteq Nat
    BY SnapsAre
  <1>4. x \in Snap /\ x.offset = f[e].offset /\ x.state = f[e].state
    BY <1>2, <1>3 DEF Snap
  <1>5. r = [f EXCEPT ![e] = x]
    BY <1>1, <1>2 DEF Rotten
  <1>6. /\ DOMAIN r = DOMAIN f /\ r = [c \in DOMAIN r |-> r[c]]
        /\ \A c \in DOMAIN f : r[c] = IF c = e THEN x ELSE f[c]
    BY <1>5
  <1>7. ASSUME NEW c \in DOMAIN f
        PROVE  /\ r[c] \in Snap /\ c \in o..Len(h) /\ r[c].offset = c - o
               /\ Len(r[c].state) = c /\ IsPart(r[c].state, h, 0)
    <2>1. r[c] \in Snap /\ r[c].offset = f[c].offset /\ r[c].state = f[c].state
      BY <1>4, <1>6, SnapsAre
    <2>2. QED
      BY <2>1, SnapsAre
  <1>8. r \in SnapFiles
    BY <1>3, <1>6, <1>7, FilesAre
  <1>9. QED
    BY <1>1, <1>6, <1>7, <1>8 DEF SnapsOf

LEMMA SnapsLater ==
  ASSUME NEW h \in Seq(Block), NEW g \in Seq(Block), IsPart(g, h, 0),
         NEW f, NEW o \in Nat, SnapsOf(f, g, o)
  PROVE  SnapsOf(f, h, o)
  <1>1. Len(g) <= Len(h) /\ Len(g) \in Nat /\ Len(h) \in Nat
    BY DEF IsPart
  <1>2. ASSUME NEW c \in DOMAIN f
        PROVE  /\ c \in o..Len(h) /\ f[c].offset = c - o
               /\ Len(f[c].state) = c /\ IsPart(f[c].state, h, 0)
    <2>1. c \in o..Len(g) /\ f[c].offset = c - o /\ Len(f[c].state) = c /\ IsPart(f[c].state, g, 0)
      BY SnapsAre
    <2>2. IsPart(f[c].state, h, 0)
      BY <2>1, PartOfPart
    <2>3. QED
      BY <1>1, <2>1, <2>2
  <1>3. QED
    BY <1>2 DEF SnapsOf

LEMMA NoSnaps ==
  ASSUME NEW h, NEW o
  PROVE  SnapsOf(<<>>, h, o) /\ <<>> \in SnapFiles /\ Valid(<<>>) = {}
  <1>1. DOMAIN <<>> = {} /\ <<>> = [c \in DOMAIN <<>> |-> <<>>[c]]
    OBVIOUS
  <1>2. <<>> \in SnapFiles
    BY <1>1, FilesAre
  <1>3. QED
    BY <1>1, <1>2 DEF SnapsOf, Valid

-----------------------------------------------------------------------------
(* Opening a directory that is good gives the whole history, or the log as   *)
(* if nothing had been before it when its snapshots are gone.                *)
LEMMA OpenedIs ==
  ASSUME NEW d \in Dirs, NEW h, NEW o \in Nat, History(h), GoodDir(d, h, o)
  PROVE  /\ Valid(d.snaps) # {} \/ o = 0 => Opened(d) = [state |-> h, committed |-> Len(h)]
         /\ Valid(d.snaps) = {} => Opened(d) = [state |-> d.wal, committed |-> Len(d.wal)]
         /\ Valid(d.snaps) = {} => Len(h) - Len(d.wal) = o
  <1>1. h \in Seq(Block) /\ Len(h) \in Nat
    BY HistoryIs
  <1>2. PICK w : w = d.wal
    OBVIOUS
  <1>3. IsPart(w, h, o) /\ o + Len(w) = Len(h) /\ w \in Seq(Block) /\ Len(w) \in Nat
    BY <1>2 DEF GoodDir, IsPart
  <1>4. SnapsOf(d.snaps, h, o)
    BY DEF GoodDir
  <1>5. CASE Valid(d.snaps) = {}
    <2>1. IsPart(<<>>, h, o) /\ Len(<<>>) = 0
      BY <1>3 DEF IsPart
    <2>2. FoldBlocks(<<>>, w) = <<>> \o w
      <3>1. PICK e : e = <<>>
        OBVIOUS
      <3>2. IsPart(e, h, o) /\ Len(e) = 0
        BY <2>1, <3>1
      <3>3. IsPart(w, h, o + Len(e))
        BY <1>3, <3>2
      <3>4. FoldBlocks(e, w) = e \o w
        BY <3>2, <3>3, FoldsUp
      <3>5. QED
        BY <3>1, <3>4
    <2>3. <<>> \o w = w
      BY <1>3, ConcatEmptySeq
    <2>4. Opened(d) = [state |-> w, committed |-> Len(w)]
      BY <1>2, <1>5, <2>2, <2>3 DEF Opened
    <2>5. o = 0 => w = h
      BY <1>1, <1>3, PartIsAll
    <2>6. Len(h) - Len(w) = o
      BY <1>1, <1>3
    <2>7. o = 0 => Opened(d) = [state |-> h, committed |-> Len(h)]
      BY <2>4, <2>5
    <2>8. QED
      BY <1>2, <1>5, <2>4, <2>6, <2>7
  <1>6. CASE Valid(d.snaps) # {}
    <2>1. Valid(d.snaps) \in SUBSET Nat /\ \A c \in Valid(d.snaps) : c <= Len(h)
      BY <1>4, SnapsAre DEF Valid
    <2>2. PICK n : n = Max(Valid(d.snaps))
      OBVIOUS
    <2>3. n \in Valid(d.snaps)
      BY <1>1, <1>6, <2>1, <2>2, MaxIsGreatest
    <2>4. PICK snap : snap = d.snaps[n]
      OBVIOUS
    <2>5. /\ n \in Nat /\ n \in o..Len(h) /\ snap.offset = n - o
          /\ Len(snap.state) = n /\ IsPart(snap.state, h, 0)
      BY <1>4, <2>3, <2>4, SnapsAre DEF Valid
    <2>6. PICK tail : tail = From(w, n - o)
      OBVIOUS
    <2>7. n - o \in 0..Len(w) /\ o + (n - o) = n
      BY <1>1, <1>3, <2>5
    <2>8. IsPart(tail, h, n) /\ Len(tail) = Len(w) - (n - o)
      BY <1>1, <1>3, <2>6, <2>7, PartFrom
    <2>9. 0 + Len(snap.state) = n
      BY <2>5
    <2>10. FoldBlocks(snap.state, tail) = snap.state \o tail
      <3>1. PICK s : s = snap.state
        OBVIOUS
      <3>2. IsPart(s, h, 0) /\ IsPart(tail, h, 0 + Len(s))
        BY <2>5, <2>8, <2>9, <3>1
      <3>3. FoldBlocks(s, tail) = s \o tail
        BY <3>2, FoldsUp
      <3>4. QED
        BY <3>1, <3>3
    <2>11. IsPart(snap.state \o tail, h, 0) /\ Len(snap.state \o tail) = Len(snap.state) + Len(tail)
      BY <1>1, <2>5, <2>8, <2>9, PartsJoin
    <2>12. n + Len(tail) = Len(h)
      BY <1>1, <1>3, <2>5, <2>8
    <2>13. snap.state \o tail = h
      BY <1>1, <2>5, <2>11, <2>12, PartIsAll
    <2>14. Opened(d) = [state |-> FoldBlocks(snap.state, tail), committed |-> n + Len(tail)]
      <3>1. ~(snap.offset > Len(w))
        BY <1>3, <2>5, <2>7
      <3>2. tail = From(d.wal, snap.offset)
        BY <1>2, <2>5, <2>6
      <3>3. QED
        BY <1>2, <1>6, <2>2, <2>4, <3>1, <3>2 DEF Opened
    <2>15. QED
      BY <1>6, <2>10, <2>12, <2>13, <2>14
  <1>7. QED
    BY <1>5, <1>6

-----------------------------------------------------------------------------
(* The loop of materializeChain, and what it gives for links that go on one  *)
(* where the other ends.                                                     *)

Nothing == [wal |-> <<>>, snaps |-> <<>>]
Joined(d, link) == [wal |-> d.wal \o link.delta, snaps |-> Over(link.snaps, d.snaps)]

IsJoin(links, g) ==
  g = [s \in SUBSET DOMAIN links |->
         IF s = {} THEN Nothing ELSE Joined(g[s \ {Max(s)}], links[Max(s)])]

Copies(links, n) ==
  /\ DOMAIN links = 1..n
  /\ \A i \in 1..n : links[i].delta \in Seq(Block) /\ links[i].snaps \in SnapFiles

LEMMA JoinTyped ==
  ASSUME NEW d \in Dirs, NEW link, link.delta \in Seq(Block), link.snaps \in SnapFiles
  PROVE  Joined(d, link) \in Dirs
  <1>1. d.wal \in Seq(Block) /\ d.snaps \in SnapFiles
    BY DEF Dirs
  <1>2. d.wal \o link.delta \in Seq(Block)
    BY <1>1, ConcatProperties
  <1>3. PICK r : r = Over(link.snaps, d.snaps)
    OBVIOUS
  <1>4. /\ DOMAIN r = DOMAIN link.snaps \cup DOMAIN d.snaps
        /\ r = [c \in DOMAIN r |-> r[c]]
        /\ \A c \in DOMAIN r : \/ c \in DOMAIN link.snaps /\ r[c] = link.snaps[c]
                               \/ c \in DOMAIN d.snaps /\ r[c] = d.snaps[c]
    BY <1>3 DEF Over
  <1>5. /\ DOMAIN link.snaps \subseteq Nat /\ DOMAIN d.snaps \subseteq Nat
        /\ \A c \in DOMAIN link.snaps : link.snaps[c] \in Snap
        /\ \A c \in DOMAIN d.snaps : d.snaps[c] \in Snap
    BY <1>1, FilesAre
  <1>6. r \in SnapFiles
    BY <1>4, <1>5, FilesAre
  <1>7. QED
    BY <1>2, <1>3, <1>6 DEF Joined, Dirs

LEMMA NothingTyped == Nothing \in Dirs
  <1>1. <<>> \in SnapFiles
    BY NoSnaps
  <1>2. <<>> \in Seq(Block)
    OBVIOUS
  <1>3. PICK f : f = <<>>
    OBVIOUS
  <1>4. [wal |-> f, snaps |-> f] \in Dirs
    BY <1>1, <1>2, <1>3 DEF Dirs
  <1>5. QED
    BY <1>3, <1>4 DEF Nothing

LEMMA MaxOfPart ==
  ASSUME NEW n \in Nat, NEW s \in SUBSET (1..n), s # {}
  PROVE  Max(s) \in s /\ \A y \in s : y <= Max(s)
  <1>1. s \in SUBSET Nat /\ \A y \in s : y <= n
    OBVIOUS
  <1>2. QED
    BY <1>1, MaxIsGreatest

LEMMA MaterializedIs ==
  ASSUME NEW links, NEW n \in Nat, Copies(links, n)
  PROVE  \E g : IsJoin(links, g) /\ Materialized(links) = g[1..n]
  <1> DEFINE S == DOMAIN links
             next == [p \in S \X Dirs |-> Joined(p[2], links[p[1]])]
             pick == [s \in SUBSET S |-> Max(s)]
  <1>1. S = 1..n
    BY DEF Copies
  <1>2. \A x \in S, v \in Dirs : /\ next[<<x, v>>] = Joined(v, links[x])
                                 /\ next[<<x, v>>] \in Dirs
    BY JoinTyped DEF Copies
  <1>3. \A s \in SUBSET S : s # {} => pick[s] = Max(s) /\ pick[s] \in s
    BY <1>1, MaxOfPart
  <1> HIDE DEF next, pick, S
  <1>4. PICK g : FoldsTo(S, Dirs, Nothing, next, pick, g)
    <2>1. IsFiniteSet(S)
      BY <1>1, FS_Interval
    <2>2. Foldable(S, Dirs, Nothing, next, pick)
      BY <1>2, <1>3, <2>1, NothingTyped DEF Foldable
    <2>3. QED
      BY <2>2, FoldExists
  <1>5. \A s \in SUBSET S : s # {} =>
          next[<<pick[s], g[s \ {pick[s]}]>>] = Joined(g[s \ {Max(s)}], links[Max(s)])
    <2> SUFFICES ASSUME NEW s \in SUBSET S, s # {}
                 PROVE  next[<<pick[s], g[s \ {pick[s]}]>>]
                          = Joined(g[s \ {Max(s)}], links[Max(s)])
      OBVIOUS
    <2>1. pick[s] = Max(s) /\ pick[s] \in S /\ g[s \ {pick[s]}] \in Dirs
      BY <1>3, <1>4 DEF FoldsTo
    <2>2. next[<<pick[s], g[s \ {pick[s]}]>>] = Joined(g[s \ {pick[s]}], links[pick[s]])
      BY <1>2, <2>1
    <2>3. QED
      BY <2>1, <2>2, Zenon
  <1>6. IsJoin(links, g)
    BY <1>4, <1>5 DEF FoldsTo, FoldRound, IsJoin, S
  <1> DEFINE i == CHOOSE i : IsJoin(links, i)
  <1>7. IsJoin(links, i)
    BY <1>6
  <1>8. Materialized(links) = i[DOMAIN links]
    BY Zenon DEF Materialized, FoldLeft, MapThenFoldSet, IsJoin, Joined, Nothing
  <1>9. QED
    BY <1>1, <1>7, <1>8 DEF S

LEMMA JoinRecursion ==
  ASSUME NEW links, NEW n \in Nat, Copies(links, n), NEW g, IsJoin(links, g)
  PROVE  /\ g[1..0] = Nothing
         /\ \A k \in 1..n : g[1..k] = Joined(g[1..(k-1)], links[k])
  <1>1. \A s \in SUBSET (1..n) :
          g[s] = IF s = {} THEN Nothing ELSE Joined(g[s \ {Max(s)}], links[Max(s)])
    BY DEF IsJoin, Copies
  <1>2. g[1..0] = Nothing
    <2>1. 1..0 = {} /\ {} \in SUBSET (1..n)
      OBVIOUS
    <2>2. g[{}] = Nothing
      BY <1>1, <2>1
    <2>3. QED
      BY <2>1, <2>2
  <1>3. ASSUME NEW k \in 1..n
        PROVE  g[1..k] = Joined(g[1..(k-1)], links[k])
    <2>1. k \in Nat /\ k \in 1..k
      OBVIOUS
    <2>2. PICK s : s = 1..k
      OBVIOUS
    <2>3. s \in SUBSET (1..n) /\ s # {} /\ s \ {k} = 1..(k-1)
      BY <2>1, <2>2
    <2>4. Max(s) = k
      <3>1. Max(s) \in s /\ \A y \in s : y <= Max(s)
        BY <2>3, MaxOfPart
      <3>2. QED
        BY <2>1, <2>2, <3>1
    <2>5. g[s] = Joined(g[s \ {Max(s)}], links[Max(s)])
      BY <1>1, <2>3
    <2>6. QED
      BY <2>2, <2>3, <2>4, <2>5
  <1>4. QED
    BY <1>2, <1>3

(* The links are of the histories hs, each a part of the next one. *)
Chained(links, n, hs, o) ==
  /\ Copies(links, n)
  /\ \A i \in 1..n :
       /\ hs[i] \in Seq(Block)
       /\ links[i].to \in Nat /\ o + links[i].to = Len(hs[i])
       /\ links[i].from + Len(links[i].delta) = links[i].to
       /\ links[i].from = IF i = 1 THEN 0 ELSE links[i - 1].to
       /\ IsPart(links[i].delta, hs[i], o + links[i].from)
       /\ SnapsOf(links[i].snaps, hs[i], o)
       /\ i > 1 => IsPart(hs[i - 1], hs[i], 0)

LEMMA MaterializedGood ==
  ASSUME NEW links, NEW n \in Nat \ {0}, NEW hs, NEW o \in Nat, Chained(links, n, hs, o)
  PROVE  /\ Materialized(links) \in Dirs
         /\ GoodDir(Materialized(links), hs[n], o)
  <1>1. Copies(links, n)
    BY DEF Chained
  <1>2. PICK g : IsJoin(links, g) /\ Materialized(links) = g[1..n]
    BY <1>1, MaterializedIs
  <1>3. g[1..0] = Nothing /\ \A k \in 1..n : g[1..k] = Joined(g[1..(k-1)], links[k])
    BY <1>1, <1>2, JoinRecursion
  <1> DEFINE Good(k) == k \in 1..n => g[1..k] \in Dirs /\ GoodDir(g[1..k], hs[k], o)
             G == {k \in Nat : Good(k)}
  <1>4. ASSUME NEW k \in 1..n, NEW d, d \in Dirs, NEW e, e = Joined(d, links[k]),
               IsPart(d.wal, hs[k], o), Len(d.wal) = links[k].from, SnapsOf(d.snaps, hs[k], o)
        PROVE  e \in Dirs /\ GoodDir(e, hs[k], o)
    <2>1. /\ hs[k] \in Seq(Block) /\ links[k].to \in Nat /\ o + links[k].to = Len(hs[k])
          /\ links[k].from + Len(links[k].delta) = links[k].to
          /\ IsPart(links[k].delta, hs[k], o + links[k].from)
          /\ SnapsOf(links[k].snaps, hs[k], o)
          /\ links[k].delta \in Seq(Block) /\ links[k].snaps \in SnapFiles
      BY <1>1 DEF Chained, Copies
    <2>2. e \in Dirs /\ e.wal = d.wal \o links[k].delta /\ e.snaps = Over(links[k].snaps, d.snaps)
      BY <1>4, <2>1, JoinTyped DEF Joined
    <2>3. SnapsOf(e.snaps, hs[k], o)
      BY <1>4, <2>1, <2>2, SnapsOver
    <2>4. PICK w : w = d.wal
      OBVIOUS
    <2>5. PICK t : t = links[k].delta
      OBVIOUS
    <2>6. IsPart(w \o t, hs[k], o) /\ Len(w \o t) = Len(w) + Len(t)
      BY <1>4, <2>1, <2>4, <2>5, PartsJoin
    <2>7. Len(w) \in Nat /\ Len(t) \in Nat
      BY <1>4, <2>1, <2>4, <2>5 DEF IsPart
    <2>8. o + Len(w \o t) = Len(hs[k])
      BY <1>4, <2>1, <2>4, <2>5, <2>6, <2>7
    <2>9. QED
      BY <2>2, <2>3, <2>4, <2>5, <2>6, <2>8 DEF GoodDir
  <1>5. 0 \in G
    OBVIOUS
  <1>6. ASSUME NEW k \in G PROVE k + 1 \in G
    <2>0. PICK m \in Nat : m = k + 1
      OBVIOUS
    <2>1. SUFFICES ASSUME m \in 1..n
                   PROVE  g[1..m] \in Dirs /\ GoodDir(g[1..m], hs[m], o)
      BY <2>0
    <2>2. g[1..m] = Joined(g[1..k], links[m])
      BY <1>3, <2>0, <2>1
    <2>3. hs[m] \in Seq(Block) /\ o <= Len(hs[m])
      <3>1. hs[m] \in Seq(Block) /\ links[m].to \in Nat /\ o + links[m].to = Len(hs[m])
        BY <2>1 DEF Chained
      <3>2. QED
        BY <3>1
    <2>4. CASE k = 0
      <3>1. g[1..k] = Nothing /\ m = 1
        BY <1>3, <2>0, <2>4
      <3>2. links[m].from = 0
        BY <2>1, <3>1 DEF Chained
      <3>3. Nothing.wal = <<>> /\ Nothing.snaps = <<>>
        BY DEF Nothing
      <3>4. IsPart(Nothing.wal, hs[m], o) /\ Len(Nothing.wal) = 0
        BY <2>3, <3>3 DEF IsPart
      <3>5. SnapsOf(Nothing.snaps, hs[m], o)
        BY <3>3, NoSnaps
      <3>6. QED
        BY <1>4, <2>1, <2>2, <3>1, <3>2, <3>4, <3>5, NothingTyped
    <2>5. CASE k # 0
      <3>1. k \in 1..n /\ k = m - 1 /\ m > 1
        BY <2>0, <2>1, <2>5
      <3>2. PICK d : d = g[1..k]
        OBVIOUS
      <3>3. d \in Dirs /\ GoodDir(d, hs[k], o)
        BY <3>1, <3>2
      <3>4. /\ hs[k] \in Seq(Block) /\ IsPart(hs[k], hs[m], 0)
            /\ links[m].from = links[k].to /\ links[k].to \in Nat /\ o + links[k].to = Len(hs[k])
        BY <2>1, <3>1 DEF Chained
      <3>5. IsPart(d.wal, hs[k], o) /\ o + Len(d.wal) = Len(hs[k]) /\ SnapsOf(d.snaps, hs[k], o)
        BY <3>3 DEF GoodDir
      <3>6. IsPart(d.wal, hs[m], o) /\ SnapsOf(d.snaps, hs[m], o)
        BY <2>3, <3>4, <3>5, PartOfPart, SnapsLater
      <3>7. Len(d.wal) = links[m].from
        <4>1. Len(d.wal) \in Nat
          BY <3>5 DEF IsPart
        <4>2. QED
          BY <3>4, <3>5, <4>1
      <3>8. QED
        BY <1>4, <2>1, <2>2, <3>2, <3>3, <3>6, <3>7
    <2>6. QED
      BY <2>4, <2>5
  <1>7. G = Nat
    <2> HIDE DEF G
    <2>1. G \in SUBSET Nat
      BY DEF G
    <2>2. QED
      BY <1>5, <1>6, <2>1, NatInductionSet
  <1>8. n \in G /\ n \in 1..n
    BY <1>7
  <1>9. QED
    BY <1>2, <1>8

(* The snapshots of the last link are all there. *)
LEMMA MaterializedLast ==
  ASSUME NEW links, NEW n \in Nat \ {0}, Copies(links, n), NEW c \in DOMAIN links[n].snaps
  PROVE  /\ c \in DOMAIN Materialized(links).snaps
         /\ Materialized(links).snaps[c] = links[n].snaps[c]
  <1>1. PICK g : IsJoin(links, g) /\ Materialized(links) = g[1..n]
    BY MaterializedIs
  <1>2. n \in 1..n
    OBVIOUS
  <1>3. g[1..n] = Joined(g[1..(n-1)], links[n])
    BY <1>1, <1>2, JoinRecursion
  <1>4. Materialized(links).snaps = Over(links[n].snaps, g[1..(n-1)].snaps)
    BY <1>1, <1>3 DEF Joined
  <1>5. QED
    BY <1>4 DEF Over

-----------------------------------------------------------------------------
(* Chains. *)

(* The first n links. *)
LEMMA FirstLinks ==
  ASSUME NEW links, ChainIs(links), NEW n \in 1..Len(links)
  PROVE  LET pre == SubSeq(links, 1, n) IN
         /\ DOMAIN pre = 1..n /\ Len(pre) = n
         /\ \A i \in 1..n : pre[i] = links[i]
  <1>1. PICK S : links \in Seq(S)
    BY DEF ChainIs
  <1>2. n \in Int /\ n >= 1 /\ \A i \in 1..n : links[i] \in S
    BY <1>1
  <1>3. PICK pre : pre = SubSeq(links, 1, n)
    OBVIOUS
  <1>4. /\ pre \in Seq(S)
        /\ Len(pre) = IF 1 <= n THEN n - 1 + 1 ELSE 0
        /\ \A i \in 1..n - 1 + 1 : pre[i] = links[1 + i - 1]
    BY <1>2, <1>3, SubSeqProperties
  <1>5. Len(pre) = n /\ DOMAIN pre = 1..n /\ \A i \in 1..n : pre[i] = links[i]
    BY <1>2, <1>4
  <1>6. QED
    BY <1>3, <1>5

(* What is known of a link on its own. *)
LEMMA LinkFacts ==
  ASSUME NEW links, ChainIs(links), NEW i \in 1..Len(links)
  PROVE  /\ links[i].delta \in Seq(Block) /\ links[i].snaps \in SnapFiles
         /\ links[i].truth.state \in Seq(Block)
         /\ links[i].truth = [state |-> links[i].truth.state,
                              committed |-> Len(links[i].truth.state)]
         /\ IsNode(links[i].truth) /\ History(links[i].truth.state)
         /\ links[i].origin \in Nat
  <1>1. LinkIs(links, i)
    BY DEF ChainIs
  <1>2. IsNode(links[i].truth) /\ links[i].origin \in Nat
    BY <1>1 DEF LinkIs
  <1>3. links[i].delta \in Seq(Block) /\ links[i].snaps \in SnapFiles
    BY <1>1 DEF LinkIs, IsPart, SnapsOf
  <1>4. QED
    BY <1>2, <1>3 DEF IsNode, Node

(* Links that are sound are of one history that grew. *)
LEMMA SoundIsChained ==
  ASSUME NEW links, ChainIs(links), NEW n \in 1..Len(links), SoundTo(links, n),
         NEW pre, DOMAIN pre = 1..n, \A i \in 1..n : pre[i] = links[i]
  PROVE  Chained(pre, n, [i \in 1..n |-> links[i].truth.state], links[1].origin)
  <1> DEFINE hs == [i \in 1..n |-> links[i].truth.state]
  <1>1. n \in Nat /\ 1..n \subseteq 1..Len(links)
    <2>1. PICK S : links \in Seq(S)
      BY DEF ChainIs
    <2>2. QED
      BY <2>1
  <1>2. Copies(pre, n)
    BY <1>1, LinkFacts DEF Copies
  <1>3. ASSUME NEW i \in 1..n
        PROVE  /\ hs[i] \in Seq(Block)
               /\ pre[i].to \in Nat /\ links[1].origin + pre[i].to = Len(hs[i])
               /\ pre[i].from + Len(pre[i].delta) = pre[i].to
               /\ pre[i].from = IF i = 1 THEN 0 ELSE pre[i - 1].to
               /\ IsPart(pre[i].delta, hs[i], links[1].origin + pre[i].from)
               /\ SnapsOf(pre[i].snaps, hs[i], links[1].origin)
               /\ i > 1 => IsPart(hs[i - 1], hs[i], 0)
    <2>1. LinkIs(links, i) /\ LinkTrue(links, i) /\ i \in 1..Len(links)
      BY <1>1 DEF ChainIs
    <2>2. SoundTo(links, i)
      BY DEF SoundTo
    <2>3. links[i].origin = links[1].origin
      BY <2>1, <2>2 DEF LinkTrue
    <2>4. i > 1 => IsPart(hs[i - 1], hs[i], 0)
      <3>1. i > 1 => i - 1 \in 1..i /\ i - 1 \in 1..n
        OBVIOUS
      <3>2. QED
        BY <2>1, <2>2, <3>1 DEF LinkTrue
    <2>5. hs[i] = links[i].truth.state /\ hs[i] \in Seq(Block)
      BY <2>1, LinkFacts
    <2>6. i # 1 => i - 1 \in 1..n
      OBVIOUS
    <2>7. QED
      BY <2>1, <2>3, <2>4, <2>5, <2>6 DEF LinkIs
  <1>4. QED
    BY <1>2, <1>3 DEF Chained

(* They make a directory of the last one's node. *)
LEMMA SoundMaterialized ==
  ASSUME NEW links, ChainIs(links), NEW n \in 1..Len(links), SoundTo(links, n),
         NEW pre, DOMAIN pre = 1..n, \A i \in 1..n : pre[i] = links[i]
  PROVE  /\ Materialized(pre) \in Dirs
         /\ GoodDir(Materialized(pre), links[n].truth.state, links[1].origin)
         /\ links[n].truth.state \in Seq(Block)
  <1>1. n \in Nat \ {0} /\ n \in 1..n
    OBVIOUS
  <1>2. PICK hs : hs = [i \in 1..n |-> links[i].truth.state]
    OBVIOUS
  <1>3. Chained(pre, n, hs, links[1].origin)
    BY <1>2, SoundIsChained
  <1>4. links[1].origin \in Nat
    <2>1. 1 \in 1..Len(links)
      <3>1. PICK S : links \in Seq(S)
        BY DEF ChainIs
      <3>2. QED
        BY <3>1
    <2>2. QED
      BY <2>1, LinkFacts
  <1>5. Materialized(pre) \in Dirs /\ GoodDir(Materialized(pre), hs[n], links[1].origin)
    BY <1>1, <1>3, <1>4, MaterializedGood
  <1>6. hs[n] = links[n].truth.state
    BY <1>1, <1>2
  <1>7. QED
    BY <1>5, <1>6, LinkFacts

(* A chain is what restoreChain wants. *)
LEMMA ChainIsContiguous ==
  ASSUME NEW links, ChainIs(links), links # <<>>
  PROVE  Contiguous(links) /\ Len(links) \in Nat \ {0}
  <1>1. PICK S : links \in Seq(S)
    BY DEF ChainIs
  <1>2. Len(links) \in Nat \ {0}
    BY <1>1
  <1>3. \A i \in 1..Len(links) : LinkIs(links, i)
    BY DEF ChainIs
  <1>4. links[1].kind = "full"
    BY <1>2, <1>3 DEF LinkIs
  <1>5. ASSUME NEW i \in 2..Len(links)
        PROVE  links[i].kind = "incremental" /\ links[i].from = links[i-1].to
    <2>1. i \in 1..Len(links) /\ i # 1
      BY <1>2
    <2>2. QED
      BY <1>3, <2>1 DEF LinkIs
  <1>6. QED
    BY <1>2, <1>4, <1>5 DEF Contiguous

-----------------------------------------------------------------------------
(* The directory of a node. *)

LEMMA NodeFacts ==
  ASSUME NEW n, NEW d, NodeIs(n, d)
  PROVE  /\ n.state \in Seq(Block) /\ History(n.state) /\ Len(n.state) \in Nat
         /\ n = [state |-> n.state, committed |-> Len(n.state)]
         /\ d \in Dirs /\ d.wal \in Seq(Block) /\ d.snaps \in SnapFiles
         /\ Len(d.wal) \in Nat
         /\ Lost(n, d) \in Nat /\ Lost(n, d) + Len(d.wal) = Len(n.state)
         /\ IsPart(d.wal, n.state, Lost(n, d))
         /\ SnapsOf(d.snaps, n.state, Lost(n, d))
         /\ GoodDir(d, n.state, Lost(n, d))
  <1>1. n.state \in Seq(Block) /\ History(n.state) /\ Len(n.state) \in Nat
    BY DEF NodeIs, IsNode, Node
  <1>2. n = [state |-> n.state, committed |-> Len(n.state)]
    BY DEF NodeIs, IsNode, Node
  <1>3. GoodDir(d, n.state, Lost(n, d)) /\ Lost(n, d) \in Nat /\ d \in Dirs
    BY DEF NodeIs
  <1>4. d.wal \in Seq(Block) /\ d.snaps \in SnapFiles
    BY <1>3 DEF Dirs
  <1>5. QED
    BY <1>1, <1>2, <1>3, <1>4 DEF GoodDir

(* The snapshots a backup takes are those an open would look at. *)
LEMMA IncludedAre ==
  ASSUME NEW n, NEW d, NodeIs(n, d)
  PROVE  /\ SnapsOf(Included(d), n.state, Lost(n, d))
         /\ Included(d) \in SnapFiles
         /\ Valid(Included(d)) = Valid(d.snaps)
         /\ Cuts(d) = Valid(d.snaps)
  <1>1. PICK o \in Nat : o = Lost(n, d)
    BY NodeFacts
  <1>2. SnapsOf(d.snaps, n.state, o) /\ o + Len(d.wal) = Len(n.state) /\ Len(d.wal) \in Nat
    BY <1>1, NodeFacts
  <1>3. \A c \in DOMAIN d.snaps : d.snaps[c].offset <= Len(d.wal)
    <2> SUFFICES ASSUME NEW c \in DOMAIN d.snaps PROVE d.snaps[c].offset <= Len(d.wal)
      OBVIOUS
    <2>1. PICK f, h : f = d.snaps /\ h = n.state
      OBVIOUS
    <2>2. SnapsOf(f, h, o) /\ c \in DOMAIN f
      BY <1>2, <2>1
    <2>3. c \in Nat /\ c \in o..Len(h) /\ f[c].offset = c - o
      BY <2>2, SnapsAre
    <2>4. QED
      BY <1>2, <2>1, <2>3
  <1>4. Cuts(d) = Valid(d.snaps)
    BY <1>3 DEF Cuts, Valid
  <1>5. PICK D : D = Valid(d.snaps)
    OBVIOUS
  <1>6. D \subseteq DOMAIN d.snaps /\ \A c \in D : d.snaps[c].intact
    BY <1>5 DEF Valid
  <1>7. Included(d) = Restrict(d.snaps, D)
    BY <1>4, <1>5 DEF Included, Cuts
  <1>8. SnapsOf(Included(d), n.state, o)
    BY <1>2, <1>6, <1>7, SnapsFewer
  <1>9. Valid(Included(d)) = D
    BY <1>6, <1>7 DEF Valid, Restrict
  <1>10. QED
    BY <1>1, <1>4, <1>5, <1>8, <1>9 DEF SnapsOf

(* When a directory opens to the node that runs in it, what it has lost is   *)
(* in a snapshot.                                                            *)
LEMMA SoundIsBased ==
  ASSUME NEW n, NEW d, NodeIs(n, d), Opened(d) = n
  PROVE  Valid(d.snaps) # {} \/ Lost(n, d) = 0
  <1>1. PICK o \in Nat : o = Lost(n, d)
    BY NodeFacts
  <1>2. CASE Valid(d.snaps) = {}
    <2>1. Opened(d) = [state |-> d.wal, committed |-> Len(d.wal)]
      BY <1>1, <1>2, NodeFacts, OpenedIs
    <2>2. Len(d.wal) = n.committed /\ n.committed = Len(n.state)
      <3>1. Opened(d).committed = Len(d.wal)
        BY <2>1
      <3>2. [state |-> n.state, committed |-> Len(n.state)].committed = Len(n.state)
        OBVIOUS
      <3>3. n.committed = Len(n.state)
        BY <3>2, NodeFacts
      <3>4. QED
        BY <3>1, <3>3
    <2>3. QED
      BY <2>2, NodeFacts DEF Lost
  <1>3. QED
    BY <1>2

-----------------------------------------------------------------------------
(* What is restored. *)

LEMMA RestoredChain ==
  ASSUME NEW links, ChainIs(links), NEW n \in 1..Len(links), SoundTo(links, n),
         NEW pre, Len(pre) = n, pre[n] = links[n], RestoreChain(pre).state # Refused
  PROVE  RestoreChain(pre) = links[n].truth
  <1>1. RestoreChain(pre) = Last(pre).expected
    BY DEF RestoreChain
  <1>2. Last(pre) = links[n]
    BY DEF Last
  <1>3. LinkTrue(links, n)
    BY DEF ChainIs
  <1>4. QED
    BY <1>1, <1>2, <1>3 DEF LinkTrue

LEMMA StatesAreFine ==
  ASSUME NEW h \in Seq(Block)
  PROVE  h # Refused /\ h # Corrupt
  BY ArchiveAssumption

(* The rest of the log and its snapshot, or the archive with the rest. *)
LEMMA CompactedDirs ==
  ASSUME NEW c, CompactedIs(c), c # Refused
  PROVE  /\ NodeIs(c.truth, Own(c))
         /\ NodeIs(c.truth, Whole(c))
         /\ Lost(c.truth, Whole(c)) = c.origin
         /\ Opened(c) = Opened(Own(c))
         /\ c.expected = c.truth
  <1>1. PICK h : h = c.truth.state
    OBVIOUS
  <1>2. PICK o \in Nat : o = c.origin
    BY DEF CompactedIs, Compacts
  <1>3. /\ c \in Compacts /\ IsNode(c.truth) /\ c.expected = c.truth
        /\ o + Len(c.archive) + Len(c.wal) = Len(h)
        /\ IsPart(c.archive, h, o)
        /\ GoodDir(Own(c), h, o + Len(c.archive))
    BY <1>1, <1>2 DEF CompactedIs
  <1>4. /\ c.archive \in Seq(Block) /\ c.wal \in Seq(Block) /\ c.snaps \in SnapFiles
        /\ Len(c.archive) \in Nat /\ Len(c.wal) \in Nat
        /\ h \in Seq(Block) /\ c.truth.committed = Len(h) /\ Len(h) \in Nat
    BY <1>1, <1>3 DEF Compacts, IsNode, Node
  <1>5. Own(c) \in Dirs /\ Own(c).wal = c.wal
    BY <1>4 DEF Own, Dirs
  <1>6. Lost(c.truth, Own(c)) = o + Len(c.archive)
    <2>1. PICK a, b, n : a = Len(c.archive) /\ b = Len(c.wal) /\ n = Len(h)
      OBVIOUS
    <2>2. a \in Nat /\ b \in Nat /\ n \in Nat /\ o + a + b = n
      <3>1. a \in Nat /\ b \in Nat /\ n \in Nat
        BY <1>4, <2>1
      <3>2. o + a + b = n
        BY <1>3, <2>1
      <3>3. QED
        BY <3>1, <3>2
    <2>3. Lost(c.truth, Own(c)) = n - b
      <3>1. c.truth.committed = n /\ Len(Own(c).wal) = b
        BY <1>4, <1>5, <2>1
      <3>2. QED
        BY <3>1 DEF Lost
    <2>4. n - b = o + a
      BY <2>2
    <2>5. QED
      BY <2>1, <2>3, <2>4
  <1>7. NodeIs(c.truth, Own(c))
    BY <1>1, <1>3, <1>4, <1>5, <1>6 DEF NodeIs
  <1>8. PICK s, t : s = c.archive /\ t = c.wal
    OBVIOUS
  <1>9. IsPart(t, h, o + Len(s))
    BY <1>3, <1>5, <1>8 DEF GoodDir
  <1>10. IsPart(s \o t, h, o) /\ Len(s \o t) = Len(s) + Len(t)
    BY <1>3, <1>4, <1>8, <1>9, PartsJoin
  <1>11. Whole(c).wal = s \o t /\ Whole(c).snaps = <<>>
    BY <1>8 DEF Whole
  <1>12. Whole(c) \in Dirs
    <2>1. s \o t \in Seq(Block)
      BY <1>10 DEF IsPart
    <2>2. <<>> \in SnapFiles
      BY NoSnaps
    <2>3. PICK e : e = <<>>
      OBVIOUS
    <2>4. [wal |-> s \o t, snaps |-> e] \in Dirs
      BY <2>1, <2>2, <2>3 DEF Dirs
    <2>5. QED
      BY <1>8, <2>3, <2>4 DEF Whole
  <1>13. Lost(c.truth, Whole(c)) = o /\ o + Len(Whole(c).wal) = Len(h)
    <2>1. PICK a, b, n : a = Len(s) /\ b = Len(t) /\ n = Len(h)
      OBVIOUS
    <2>2. a \in Nat /\ b \in Nat /\ n \in Nat /\ o + a + b = n
      BY <1>3, <1>4, <1>8, <2>1
    <2>3. Len(Whole(c).wal) = a + b
      BY <1>10, <1>11, <2>1
    <2>4. Lost(c.truth, Whole(c)) = n - (a + b)
      BY <1>4, <2>1, <2>3 DEF Lost
    <2>5. QED
      BY <2>1, <2>2, <2>3, <2>4
  <1>14. GoodDir(Whole(c), h, o)
    <2>1. SnapsOf(Whole(c).snaps, h, o)
      BY <1>11, NoSnaps
    <2>2. QED
      BY <1>10, <1>11, <1>13, <2>1 DEF GoodDir
  <1>15. NodeIs(c.truth, Whole(c))
    BY <1>1, <1>3, <1>12, <1>13, <1>14 DEF NodeIs
  <1>16. Opened(c) = Opened(Own(c))
    <2>1. PICK own : own = Own(c)
      OBVIOUS
    <2>2. own.wal = c.wal /\ own.snaps = c.snaps
      BY <2>1 DEF Own
    <2>3. Opened(c) = Opened(own)
      BY <2>2, Zenon DEF Opened
    <2>4. QED
      BY <2>1, <2>3
  <1>17. QED
    BY <1>2, <1>3, <1>7, <1>13, <1>15, <1>16

LEMMA RestoredCompacted ==
  ASSUME NEW c, CompactedIs(c), c # Refused
  PROVE  /\ RestoreCompacted(c).state # Refused => RestoreCompacted(c) = c.truth
         /\ NodeIs(c.truth, RestoredDir(c))
         /\ c.origin = 0 => RestoreCompacted(c).state # Refused
  <1>1. PICK own, whole : own = Own(c) /\ whole = Whole(c)
    OBVIOUS
  <1>2. /\ NodeIs(c.truth, own) /\ NodeIs(c.truth, whole) /\ Lost(c.truth, whole) = c.origin
        /\ Opened(c) = Opened(own) /\ c.expected = c.truth
    BY <1>1, CompactedDirs
  <1>3. RestoredDir(c) = IF Opened(own) = c.truth THEN own ELSE whole
    BY <1>1, <1>2 DEF RestoredDir, Own
  <1>4. RestoreCompacted(c).state # Refused => RestoreCompacted(c) = c.truth
    BY <1>2 DEF RestoreCompacted
  <1>5. ASSUME c.origin = 0 PROVE RestoreCompacted(c).state # Refused
    <2>1. Opened(own).state # Refused
      <3>1. \/ Opened(own) = [state |-> c.truth.state, committed |-> Len(c.truth.state)]
            \/ Opened(own) = [state |-> own.wal, committed |-> Len(own.wal)]
        BY <1>2, NodeFacts, OpenedIs
      <3>2. c.truth.state \in Seq(Block) /\ own.wal \in Seq(Block)
        BY <1>2, NodeFacts
      <3>3. QED
        BY <3>1, <3>2, StatesAreFine
    <2>2. Opened(whole) = c.truth
      <3>1. Opened(whole) = [state |-> c.truth.state, committed |-> Len(c.truth.state)]
        BY <1>2, <1>5, NodeFacts, OpenedIs
      <3>2. QED
        BY <1>2, <3>1, NodeFacts
    <2>3. Opened(RestoredDir(c)) = c.truth
      BY <1>3, <2>2
    <2>4. RestoreCompacted(c) = c.truth
      BY <1>2, <2>1, <2>3 DEF RestoreCompacted
    <2>5. c.truth.state \in Seq(Block)
      BY <1>2, NodeFacts
    <2>6. QED
      BY <2>4, <2>5, StatesAreFine
  <1>6. QED
    BY <1>2, <1>3, <1>4, <1>5

LEMMA InvRestores ==
  ASSUME AInv
  PROVE  RestoreIsExact /\ CompactedRestores
  <1>1. ChainIs(chain) /\ CompactedIs(compacted)
    BY DEF AInv
  <1>2. PICK S : chain \in Seq(S)
    BY <1>1 DEF ChainIs
  <1>3. DOMAIN chain = 1..Len(chain) /\ Len(chain) \in Nat
    BY <1>2
  <1>4. ASSUME Sound, NEW i \in 1..Len(chain) PROVE SoundTo(chain, i)
    BY <1>3, <1>4 DEF Sound, SoundTo
  <1>5. ASSUME Sound, NEW n \in DOMAIN chain, NEW pick \in [1..n -> DOMAIN chain],
               NEW links, links = [i \in DOMAIN pick |-> chain[pick[i]]],
               RestoreChain(links).state # Refused
        PROVE  RestoreChain(links) = Last(links).truth
    <2>1. DOMAIN pick = 1..n /\ n \in Nat \ {0} /\ n \in 1..n /\ pick[n] \in 1..Len(chain)
      BY <1>3
    <2>2. DOMAIN links = 1..n /\ links[n] = chain[pick[n]]
      BY <1>5, <2>1
    <2>3. Len(links) = n
      <3>1. \A i \in 1..n : links[i] \in S
        <4>1. \A k \in DOMAIN chain : chain[k] \in S
          BY <1>2
        <4>2. ASSUME NEW i \in 1..n PROVE links[i] \in S
          <5>1. i \in DOMAIN pick /\ pick[i] \in DOMAIN chain
            BY <2>1
          <5>2. links[i] = chain[pick[i]]
            BY <1>5, <5>1
          <5>3. QED
            BY <4>1, <5>1, <5>2
        <4>3. QED
          BY <4>2
      <3>2. links \in [1..n -> S]
        BY <1>5, <2>1, <3>1
      <3>3. links \in Seq(S)
        BY <2>1, <3>2
      <3>4. QED
        BY <2>1, <2>2, <3>3
    <2>4. RestoreChain(links) = Last(links).expected /\ Last(links) = chain[pick[n]]
      BY <1>5, <2>2, <2>3 DEF RestoreChain, Last
    <2>5. LinkTrue(chain, pick[n])
      BY <1>1, <2>1 DEF ChainIs
    <2>6. SoundTo(chain, pick[n])
      BY <1>4, <1>5, <2>1
    <2>7. QED
      BY <2>4, <2>5, <2>6 DEF LinkTrue
  <1>6. GivesItsEnd
    BY <1>5 DEF GivesItsEnd, Picks
  <1>7. ASSUME chain # <<>>, Sound, WholeLogs
        PROVE  RestoreChain(chain) = Last(chain).truth
    <2>1. PICK n : n = Len(chain)
      OBVIOUS
    <2>2. n \in 1..Len(chain) /\ n \in Nat \ {0} /\ 1 \in DOMAIN chain /\ DOMAIN chain = 1..n
      BY <1>2, <1>7, <2>1
    <2>3. PICK m : m = Materialized(chain)
      OBVIOUS
    <2>4. chain[1].origin = 0
      BY <1>7, <2>2 DEF WholeLogs
    <2>5. PICK h : h = chain[n].truth.state
      OBVIOUS
    <2>6. m \in Dirs /\ GoodDir(m, h, 0)
      BY <1>1, <1>4, <1>7, <2>2, <2>3, <2>4, <2>5, SoundMaterialized
    <2>7. /\ History(h) /\ h \in Seq(Block)
          /\ chain[n].truth = [state |-> h, committed |-> Len(h)]
      BY <1>1, <2>2, <2>5, LinkFacts
    <2>8. Opened(m) = chain[n].truth
      BY <2>6, <2>7, OpenedIs
    <2>9. LinkTrue(chain, n) /\ SoundTo(chain, n)
      BY <1>1, <1>4, <1>7, <2>2 DEF ChainIs
    <2>10. Last(chain) = chain[n] /\ chain[n].expected = chain[n].truth
      BY <2>1, <2>9 DEF Last, LinkTrue
    <2>11. Fine(chain[n].truth)
      <3>1. chain[n].truth.state = h
        BY <2>5
      <3>2. h \notin {Refused, Corrupt}
        BY <2>7, StatesAreFine
      <3>3. QED
        BY <3>1, <3>2 DEF Fine
    <2>12. Contiguous(chain)
      BY <1>1, <1>7, ChainIsContiguous
    <2>13. QED
      BY <2>3, <2>8, <2>10, <2>11, <2>12 DEF RestoreChain
  <1>8. ChainRestores
    BY <1>7 DEF ChainRestores
  <1>9. CompactedRestores
    BY <1>1, RestoredCompacted DEF CompactedRestores
  <1>10. QED
    BY <1>6, <1>8, <1>9 DEF RestoreIsExact

-----------------------------------------------------------------------------
(* The node and what happens to its files. *)

LEMMA InvNext ==
  ASSUME NodeIs(live', dir'), ChainIs(chain'), CompactedIs(compacted'),
         Lineage(live'.state, Lost(live', dir'), chain', compacted'), issued' \in Nat
  PROVE  AInv'
  BY DEF AInv, Origin, Lost

LEMMA InvFacts ==
  ASSUME AInv
  PROVE  /\ NodeIs(live, dir) /\ ChainIs(chain) /\ CompactedIs(compacted)
         /\ Origin = Lost(live, dir)
         /\ Lineage(live.state, Lost(live, dir), chain, compacted) /\ issued \in Nat
  BY DEF AInv, Origin, Lost

LEMMA InitInv ==
  ASSUME Init
  PROVE  AInv
  <1>1. PICK e : e = <<>>
    OBVIOUS
  <1>2. /\ e \in Seq(Block) /\ Len(e) = 0 /\ e \in SnapFiles /\ SnapsOf(e, e, 0)
        /\ e \in Seq({})
    BY <1>1, NoSnaps
  <1>3. live = [state |-> e, committed |-> 0] /\ dir = [wal |-> e, snaps |-> e] /\ chain = e
    BY <1>1 DEF Init
  <1>4. IsPart(e, e, 0) /\ History(e)
    BY <1>2 DEF IsPart, History
  <1>5. IsNode(live) /\ live.committed = 0 /\ live.state = e
    BY <1>2, <1>3, <1>4 DEF IsNode, Node
  <1>6. dir \in Dirs /\ dir.wal = e /\ dir.snaps = e
    BY <1>2, <1>3 DEF Dirs
  <1>7. Lost(live, dir) = 0
    <2>1. live.committed = 0 /\ Len(dir.wal) = 0
      BY <1>2, <1>5, <1>6
    <2>2. QED
      BY <2>1 DEF Lost
  <1>8. GoodDir(dir, e, 0)
    BY <1>2, <1>4, <1>6 DEF GoodDir
  <1>9. NodeIs(live, dir)
    BY <1>5, <1>6, <1>7, <1>8 DEF NodeIs
  <1>10. ChainIs(chain)
    <2>1. chain \in Seq({}) /\ 1..Len(chain) = {}
      BY <1>2, <1>3
    <2>2. QED
      BY <2>1 DEF ChainIs
  <1>11. compacted = Refused /\ issued = 0 /\ chain = <<>>
    BY DEF Init
  <1>12. CompactedIs(compacted)
    BY <1>11 DEF CompactedIs
  <1>13. Lineage(live.state, Origin, chain, compacted)
    BY <1>11 DEF Lineage
  <1>14. QED
    BY <1>9, <1>10, <1>11, <1>12, <1>13 DEF AInv

LEMMA AgreeOn ==
  ASSUME NEW o \in Nat, NEW g, NEW h, NEW k
  PROVE  /\ Agree(o, g, h) => Agree(o, h, g)
         /\ Agree(o, g, h) /\ Agree(o, h, k) => Agree(o, g, k)
         /\ o <= Len(h) => Agree(o, h, h)
         /\ h \in Seq(Block) /\ IsPart(g, h, 0) /\ o <= Len(g) => Agree(o, g, h)
  <1>1. ASSUME h \in Seq(Block), IsPart(g, h, 0), o <= Len(g)
        PROVE  Agree(o, g, h)
    <2>1. Len(g) \in Nat /\ Len(h) \in Nat /\ Len(g) <= Len(h)
      BY <1>1 DEF IsPart
    <2>2. \A k1 \in 1..o : k1 \in 1..Len(g) /\ g[k1] = h[k1]
      BY <1>1, <2>1 DEF IsPart
    <2>3. QED
      BY <1>1, <2>1, <2>2 DEF Agree
  <1>2. QED
    BY <1>1 DEF Agree

(* A step that leaves the copies alone, and the blocks that are lost. *)
LEMMA LineageStays ==
  ASSUME NEW h, NEW g, NEW o \in Nat, NEW links, NEW c, Lineage(h, o, links, c),
         h \in Seq(Block), g \in Seq(Block), IsPart(h, g, 0), o <= Len(h),
         links # <<>> => links[1].origin \in Nat
  PROVE  Lineage(g, o, links, c)
  <1>1. Agree(o, g, h)
    BY AgreeOn
  <1>2. c # Refused => Agree(o, g, c.truth.state)
    BY <1>1, AgreeOn DEF Lineage
  <1>3. ASSUME links # <<>>
        PROVE  Agree(links[1].origin, links[1].truth.state, g)
    <2>1. PICK p \in Nat : p = links[1].origin
      BY <1>3
    <2>2. Agree(p, links[1].truth.state, h)
      BY <1>3, <2>1 DEF Lineage
    <2>3. p <= Len(h)
      BY <2>2 DEF Agree
    <2>4. Agree(p, h, g)
      BY <2>3, AgreeOn
    <2>5. QED
      BY <2>1, <2>2, <2>4, AgreeOn
  <1>4. QED
    BY <1>2, <1>3 DEF Lineage

LEMMA FirstOrigin ==
  ASSUME NEW links, ChainIs(links), links # <<>>
  PROVE  1 \in 1..Len(links) /\ links[1].origin \in Nat
  <1>1. 1 \in 1..Len(links)
    BY ChainIsContiguous
  <1>2. QED
    BY <1>1, LinkFacts

LEMMA SubmitKept ==
  ASSUME AInv, Submit
  PROVE  AInv'
  <1>1. /\ NodeIs(live, dir) /\ ChainIs(chain) /\ CompactedIs(compacted)
        /\ Lineage(live.state, Lost(live, dir), chain, compacted) /\ issued \in Nat
    BY InvFacts
  <1>2. PICK h : h = live.state
    OBVIOUS
  <1>3. PICK w : w = dir.wal
    OBVIOUS
  <1>4. PICK o \in Nat : o = Lost(live, dir)
    BY <1>1, NodeFacts
  <1>5. /\ h \in Seq(Block) /\ History(h) /\ Len(h) \in Nat /\ live.committed = Len(h)
        /\ w \in Seq(Block) /\ Len(w) \in Nat /\ o + Len(w) = Len(h)
        /\ IsPart(w, h, o) /\ SnapsOf(dir.snaps, h, o) /\ dir \in Dirs
    <2>1. live.committed = Len(h)
      BY <1>1, <1>2 DEF NodeIs, IsNode
    <2>2. QED
      BY <1>1, <1>2, <1>3, <1>4, <2>1, NodeFacts
  <1>6. PICK b : b = [id |-> issued + 1, tick |-> live.committed]
    OBVIOUS
  <1>7. b \in Block /\ b.tick = Len(h)
    BY <1>1, <1>5, <1>6 DEF Block
  <1>8. PICK g : g = Append(h, b)
    OBVIOUS
  <1>9. PICK v : v = Append(w, b)
    OBVIOUS
  <1>10. /\ dir' = [dir EXCEPT !.wal = v]
         /\ live' = [state |-> g, committed |-> Len(h) + 1]
         /\ issued' = issued + 1 /\ chain' = chain /\ compacted' = compacted
    BY <1>2, <1>3, <1>5, <1>6, <1>8, <1>9 DEF Submit
  <1>11. /\ g \in Seq(Block) /\ Len(g) = Len(h) + 1 /\ g[Len(h) + 1] = b
         /\ \A k \in 1..Len(h) : g[k] = h[k]
    BY <1>5, <1>7, <1>8, AppendProperties
  <1>12. /\ v \in Seq(Block) /\ Len(v) = Len(w) + 1 /\ v[Len(w) + 1] = b
         /\ \A k \in 1..Len(w) : v[k] = w[k]
    BY <1>5, <1>7, <1>9, AppendProperties
  <1>13. History(g)
    <2> SUFFICES ASSUME NEW k \in 1..Len(g) PROVE g[k].tick = k - 1
      BY <1>11 DEF History
    <2>1. CASE k = Len(h) + 1
      BY <1>5, <1>7, <1>11, <2>1
    <2>2. CASE k # Len(h) + 1
      <3>1. k \in 1..Len(h)
        BY <1>5, <1>11, <2>2
      <3>2. QED
        BY <1>5, <1>11, <3>1 DEF History
    <2>3. QED
      BY <2>1, <2>2
  <1>14. IsPart(h, g, 0)
    BY <1>5, <1>11 DEF IsPart
  <1>15. IsPart(v, g, o) /\ o + Len(v) = Len(g)
    <2>1. \A k \in 1..Len(w) : w[k] = h[o + k] /\ o + k \in 1..Len(h)
      BY <1>5 DEF IsPart
    <2>2. ASSUME NEW k \in 1..Len(v) PROVE v[k] = g[o + k]
      <3>1. CASE k = Len(w) + 1
        <4>1. o + k = Len(h) + 1
          BY <1>5, <3>1
        <4>2. QED
          BY <1>11, <1>12, <3>1, <4>1
      <3>2. CASE k # Len(w) + 1
        <4>1. k \in 1..Len(w)
          BY <1>5, <1>12, <3>2
        <4>2. QED
          BY <1>11, <1>12, <2>1, <4>1
      <3>3. QED
        BY <3>1, <3>2
    <2>3. o + Len(v) = Len(g)
      BY <1>5, <1>11, <1>12
    <2>4. QED
      BY <1>5, <1>11, <1>12, <2>2, <2>3 DEF IsPart
  <1>16. SnapsOf(dir.snaps, g, o)
    BY <1>5, <1>11, <1>14, SnapsLater
  <1>17. dir' \in Dirs /\ dir'.wal = v /\ dir'.snaps = dir.snaps
    BY <1>5, <1>10, <1>12 DEF Dirs
  <1>18. live'.state = g /\ live'.committed = Len(g) /\ IsNode(live')
    BY <1>5, <1>10, <1>11, <1>13 DEF IsNode, Node
  <1>19. Lost(live', dir') = o
    <2>1. PICK m, n \in Nat : m = Len(v) /\ n = Len(g)
      BY <1>5, <1>11, <1>12
    <2>2. o + m = n
      BY <1>15, <2>1
    <2>3. Lost(live', dir') = n - m
      BY <1>17, <1>18, <2>1 DEF Lost
    <2>4. QED
      BY <2>1, <2>2, <2>3
  <1>20. NodeIs(live', dir')
    BY <1>15, <1>16, <1>17, <1>18, <1>19 DEF NodeIs, GoodDir
  <1>21. Lineage(g, o, chain, compacted)
    <2>1. o <= Len(h)
      BY <1>5
    <2>2. QED
      BY <1>1, <1>2, <1>4, <1>5, <1>11, <1>14, <2>1, LineageStays, FirstOrigin
  <1>22. QED
    BY <1>1, <1>10, <1>18, <1>19, <1>20, <1>21, InvNext

(* Other snapshots of the same history, and the node is as good. *)
LEMMA NodeStays ==
  ASSUME NEW n, NEW d, NodeIs(n, d), NEW f, SnapsOf(f, n.state, Lost(n, d))
  PROVE  /\ NodeIs(n, [d EXCEPT !.snaps = f])
         /\ Lost(n, [d EXCEPT !.snaps = f]) = Lost(n, d)
  <1>1. PICK e : e = [d EXCEPT !.snaps = f]
    OBVIOUS
  <1>2. PICK o \in Nat : o = Lost(n, d)
    BY NodeFacts
  <1>3. d \in Dirs /\ GoodDir(d, n.state, o) /\ IsNode(n)
    BY <1>2 DEF NodeIs
  <1>4. f \in SnapFiles
    BY DEF SnapsOf
  <1>5. e \in Dirs /\ e.wal = d.wal /\ e.snaps = f
    BY <1>1, <1>3, <1>4 DEF Dirs
  <1>6. Lost(n, e) = o
    BY <1>2, <1>5 DEF Lost
  <1>7. GoodDir(e, n.state, o)
    BY <1>2, <1>3, <1>5 DEF GoodDir
  <1>8. QED
    BY <1>1, <1>2, <1>3, <1>5, <1>6, <1>7 DEF NodeIs

LEMMA SnapshotKept ==
  ASSUME AInv, Snapshot
  PROVE  AInv'
  <1>1. /\ NodeIs(live, dir) /\ ChainIs(chain) /\ CompactedIs(compacted)
        /\ Lineage(live.state, Lost(live, dir), chain, compacted) /\ issued \in Nat
    BY InvFacts
  <1>2. PICK h : h = live.state
    OBVIOUS
  <1>3. PICK o \in Nat : o = Lost(live, dir)
    BY <1>1, NodeFacts
  <1>4. PICK m : m = Len(h)
    OBVIOUS
  <1>5. /\ h \in Seq(Block) /\ m \in Nat /\ live.committed = m
        /\ SnapsOf(dir.snaps, h, o) /\ Len(dir.wal) \in Nat /\ o + Len(dir.wal) = m
    <2>1. live.committed = m
      BY <1>1, <1>2, <1>4 DEF NodeIs, IsNode
    <2>2. QED
      BY <1>1, <1>2, <1>3, <1>4, <2>1, NodeFacts
  <1>6. PICK snap : snap = [state |-> h, offset |-> Len(dir.wal), intact |-> TRUE]
    OBVIOUS
  <1>7. PICK new : new = [c \in {m} |-> snap]
    OBVIOUS
  <1>8. SnapsOf(new, h, o)
    <2>1. snap \in Snap /\ snap.state = h /\ snap.offset = m - o /\ m \in o..m
      BY <1>3, <1>5, <1>6 DEF Snap
    <2>2. new = [c \in DOMAIN new |-> new[c]] /\ DOMAIN new = {m} /\ new[m] = snap
      BY <1>7
    <2>3. new \in SnapFiles
      BY <1>5, <2>1, <2>2, FilesAre
    <2>4. IsPart(h, h, 0)
      BY <1>5 DEF IsPart
    <2>5. QED
      BY <1>4, <2>1, <2>2, <2>3, <2>4 DEF SnapsOf
  <1>9. PICK all : all = Over(new, dir.snaps)
    OBVIOUS
  <1>10. SnapsOf(all, h, o)
    BY <1>5, <1>8, <1>9, SnapsOver
  <1>11. PICK kept : /\ kept \subseteq DOMAIN all
                     /\ dir' = [dir EXCEPT !.snaps = Restrict(all, kept)]
    <2>1. PICK kept : kept = {c \in DOMAIN all : Cardinality({e \in DOMAIN all : e > c}) < Keep}
      OBVIOUS
    <2>2. dir' = [dir EXCEPT !.snaps = Restrict(all, kept)]
      BY <1>2, <1>5, <1>6, <1>7, <1>9, <2>1 DEF Snapshot
    <2>3. QED
      BY <2>1, <2>2
  <1>12. SnapsOf(Restrict(all, kept), h, o)
    BY <1>10, <1>11, SnapsFewer
  <1>13. /\ live' = live /\ chain' = chain /\ compacted' = compacted /\ issued' = issued
    BY DEF Snapshot
  <1>14. NodeIs(live', dir') /\ Lost(live', dir') = o
    BY <1>1, <1>2, <1>3, <1>11, <1>12, <1>13, NodeStays
  <1>15. QED
    BY <1>1, <1>3, <1>13, <1>14, InvNext

(* Other snapshots of its history in one link. *)
OtherFiles(links, i, f) == [links EXCEPT ![i] = [links[i] EXCEPT !.snaps = f]]

LEMMA ChainStays ==
  ASSUME NEW links, ChainIs(links), NEW i \in 1..Len(links),
         NEW f, SnapsOf(f, links[i].truth.state, links[i].origin),
         NEW other, other = OtherFiles(links, i, f)
  PROVE  /\ ChainIs(other) /\ other # <<>> /\ links # <<>>
         /\ other[1].origin = links[1].origin
         /\ other[1].truth = links[1].truth
  <1>1. PICK x : x = [links[i] EXCEPT !.snaps = f]
    OBVIOUS
  <1>2. PICK S : links \in Seq(S)
    BY DEF ChainIs
  <1>3. LinkIs(links, i)
    BY DEF ChainIs
  <1>4. DOMAIN links[i] = Fields
    BY <1>3 DEF LinkIs
  <1>5. /\ DOMAIN x = Fields /\ x.snaps = f
        /\ x.kind = links[i].kind /\ x.from = links[i].from /\ x.to = links[i].to
        /\ x.delta = links[i].delta /\ x.expected = links[i].expected
        /\ x.truth = links[i].truth /\ x.origin = links[i].origin /\ x.sound = links[i].sound
    BY <1>1, <1>4 DEF Fields
  <1>6. PICK T : T = S \cup {x}
    OBVIOUS
  <1>7. links \in Seq(T) /\ x \in T
    <2>1. Seq(S) \subseteq Seq(T)
      BY <1>6
    <2>2. QED
      BY <1>2, <1>6, <2>1
  <1>8. /\ other \in Seq(T) /\ Len(other) = Len(links)
        /\ \A j \in 1..Len(links) : other[j] = IF j = i THEN x ELSE links[j]
    BY <1>1, <1>7, ExceptSeq DEF OtherFiles
  <1>9. Len(links) \in Nat /\ Len(links) >= 1
    BY <1>2
  <1>10. \A j \in 1..Len(links) :
           /\ other[j].kind = links[j].kind /\ other[j].from = links[j].from
           /\ other[j].to = links[j].to /\ other[j].delta = links[j].delta
           /\ other[j].expected = links[j].expected /\ other[j].truth = links[j].truth
           /\ other[j].origin = links[j].origin /\ other[j].sound = links[j].sound
           /\ DOMAIN other[j] = Fields
           /\ SnapsOf(other[j].snaps, links[j].truth.state, links[j].origin)
    <2> SUFFICES ASSUME NEW j \in 1..Len(links)
                 PROVE  /\ other[j].kind = links[j].kind /\ other[j].from = links[j].from
                        /\ other[j].to = links[j].to /\ other[j].delta = links[j].delta
                        /\ other[j].expected = links[j].expected /\ other[j].truth = links[j].truth
                        /\ other[j].origin = links[j].origin /\ other[j].sound = links[j].sound
                        /\ DOMAIN other[j] = Fields
                        /\ SnapsOf(other[j].snaps, links[j].truth.state, links[j].origin)
      OBVIOUS
    <2>1. CASE j = i
      BY <1>5, <1>8, <2>1
    <2>2. CASE j # i
      <3>1. LinkIs(links, j) /\ other[j] = links[j]
        BY <1>8, <2>2 DEF ChainIs
      <3>2. QED
        BY <3>1 DEF LinkIs
    <2>3. QED
      BY <2>1, <2>2
  <1>11. ASSUME NEW j \in 1..Len(links) PROVE LinkIs(other, j)
    <2>1. LinkIs(links, j)
      BY DEF ChainIs
    <2>2. j # 1 => j - 1 \in 1..Len(links)
      BY <1>9
    <2>3. j # 1 => other[j - 1].to = links[j - 1].to
      BY <1>10, <2>2
    <2>4. QED
      BY <1>10, <2>1, <2>3 DEF LinkIs
  <1>12. ASSUME NEW j \in 1..Len(links) PROVE LinkTrue(other, j)
    <2>1. LinkTrue(links, j)
      BY DEF ChainIs
    <2>2. 1..j \subseteq 1..Len(links) /\ 1 \in 1..Len(links)
      BY <1>9
    <2>3. SoundTo(other, j) => SoundTo(links, j)
      BY <1>10, <2>2 DEF SoundTo
    <2>4. QED
      BY <1>10, <2>1, <2>2, <2>3 DEF LinkTrue
  <1>13. ChainIs(other)
    BY <1>8, <1>11, <1>12 DEF ChainIs
  <1>14. other # <<>> /\ links # <<>>
    <2>1. Len(<<>>) = 0 /\ Len(other) # 0 /\ Len(links) # 0
      BY <1>8, <1>9
    <2>2. QED
      BY <2>1
  <1>15. QED
    BY <1>9, <1>10, <1>13, <1>14

LEMMA CompactedStays ==
  ASSUME NEW c, CompactedIs(c), c # Refused, NEW f,
         SnapsOf(f, c.truth.state, c.origin + Len(c.archive)),
         NEW other, other = [c EXCEPT !.snaps = f]
  PROVE  CompactedIs(other) /\ other.truth = c.truth
  <1>1. /\ c \in Compacts /\ IsNode(c.truth) /\ c.expected = c.truth
        /\ c.origin + Len(c.archive) + Len(c.wal) = Len(c.truth.state)
        /\ IsPart(c.archive, c.truth.state, c.origin)
        /\ GoodDir(Own(c), c.truth.state, c.origin + Len(c.archive))
    BY DEF CompactedIs
  <1>2. f \in SnapFiles
    BY DEF SnapsOf
  <1>3. /\ other \in Compacts /\ other.snaps = f
        /\ other.archive = c.archive /\ other.wal = c.wal /\ other.expected = c.expected
        /\ other.truth = c.truth /\ other.origin = c.origin
    BY <1>1, <1>2 DEF Compacts
  <1>4. Own(other) = [wal |-> c.wal, snaps |-> f] /\ Own(c) = [wal |-> c.wal, snaps |-> c.snaps]
    BY <1>3 DEF Own
  <1>5. GoodDir(Own(other), c.truth.state, c.origin + Len(c.archive))
    <2>1. PICK p : p = c.origin + Len(c.archive)
      OBVIOUS
    <2>2. PICK h : h = c.truth.state
      OBVIOUS
    <2>3. PICK own, own2 : own = Own(c) /\ own2 = Own(other)
      OBVIOUS
    <2>4. own.wal = c.wal /\ own2.wal = c.wal /\ own2.snaps = f
      BY <1>4, <2>3
    <2>5. GoodDir(own, h, p) /\ SnapsOf(f, h, p)
      BY <1>1, <2>1, <2>2, <2>3
    <2>6. GoodDir(own2, h, p)
      BY <2>4, <2>5 DEF GoodDir
    <2>7. QED
      BY <2>1, <2>2, <2>3, <2>6
  <1>6. QED
    BY <1>1, <1>3, <1>5 DEF CompactedIs

LEMMA RotKept ==
  ASSUME AInv, Rot
  PROVE  AInv'
  <1>1. /\ NodeIs(live, dir) /\ ChainIs(chain) /\ CompactedIs(compacted)
        /\ Lineage(live.state, Lost(live, dir), chain, compacted) /\ issued \in Nat
    BY InvFacts
  <1>2. live' = live /\ issued' = issued
    BY DEF Rot
  <1>3. CASE \E c \in DOMAIN dir.snaps : RotNode(c)
    <2>1. PICK c \in DOMAIN dir.snaps : RotNode(c)
      BY <1>3
    <2>2. PICK f : f = Rotten(dir.snaps, c)
      OBVIOUS
    <2>3. SnapsOf(dir.snaps, live.state, Lost(live, dir))
      BY <1>1, NodeFacts
    <2>4. SnapsOf(f, live.state, Lost(live, dir))
      BY <2>2, <2>3, SnapsRot
    <2>5. dir' = [dir EXCEPT !.snaps = f] /\ chain' = chain /\ compacted' = compacted
      BY <2>1, <2>2 DEF RotNode
    <2>6. NodeIs(live', dir') /\ Lost(live', dir') = Lost(live, dir)
      BY <1>1, <1>2, <2>4, <2>5, NodeStays
    <2>7. QED
      BY <1>1, <1>2, <2>5, <2>6, InvNext
  <1>4. CASE \E i \in DOMAIN chain : \E c \in DOMAIN chain[i].snaps : RotLink(i, c)
    <2>1. PICK i \in DOMAIN chain : \E c \in DOMAIN chain[i].snaps : RotLink(i, c)
      BY <1>4
    <2>2. PICK c \in DOMAIN chain[i].snaps : RotLink(i, c)
      BY <2>1
    <2>3. PICK f : f = Rotten(chain[i].snaps, c)
      OBVIOUS
    <2>4. i \in 1..Len(chain)
      <3>1. PICK S : chain \in Seq(S)
        BY <1>1 DEF ChainIs
      <3>2. QED
        BY <2>1, <3>1
    <2>5. LinkIs(chain, i)
      BY <1>1, <2>4 DEF ChainIs
    <2>6. SnapsOf(chain[i].snaps, chain[i].truth.state, chain[i].origin)
      BY <2>5 DEF LinkIs
    <2>7. SnapsOf(f, chain[i].truth.state, chain[i].origin)
      BY <2>2, <2>3, <2>6, SnapsRot
    <2>8. chain' = [chain EXCEPT ![i] = [chain[i] EXCEPT !.snaps = f]]
      BY <2>2, <2>3 DEF RotLink
    <2>9. /\ ChainIs(chain') /\ chain' # <<>> /\ chain # <<>>
          /\ chain'[1].origin = chain[1].origin /\ chain'[1].truth = chain[1].truth
      <3>1. PICK links, other : links = chain /\ other = chain'
        OBVIOUS
      <3>2. ChainIs(links) /\ i \in 1..Len(links)
        BY <1>1, <2>4, <3>1
      <3>3. SnapsOf(f, links[i].truth.state, links[i].origin)
        BY <2>7, <3>1
      <3>4. other = OtherFiles(links, i, f)
        BY <2>8, <3>1 DEF OtherFiles
      <3>5. /\ ChainIs(other) /\ other # <<>> /\ links # <<>>
            /\ other[1].origin = links[1].origin /\ other[1].truth = links[1].truth
        BY <3>2, <3>3, <3>4, ChainStays
      <3>6. QED
        BY <3>1, <3>5
    <2>10. dir' = dir /\ compacted' = compacted
      BY <2>2 DEF RotLink
    <2>11. Lineage(live.state, Lost(live, dir), chain', compacted)
      BY <1>1, <2>9 DEF Lineage
    <2>12. QED
      BY <1>1, <1>2, <2>9, <2>10, <2>11, InvNext
  <1>5. CASE compacted # Refused /\ \E c \in DOMAIN compacted.snaps : RotCompacted(c)
    <2>1. PICK c \in DOMAIN compacted.snaps : RotCompacted(c)
      BY <1>5
    <2>2. PICK f : f = Rotten(compacted.snaps, c)
      OBVIOUS
    <2>3. PICK p : p = compacted.origin + Len(compacted.archive)
      OBVIOUS
    <2>4. GoodDir(Own(compacted), compacted.truth.state, p)
      BY <1>1, <1>5, <2>3 DEF CompactedIs
    <2>5. SnapsOf(compacted.snaps, compacted.truth.state, p)
      BY <2>4 DEF GoodDir, Own
    <2>6. SnapsOf(f, compacted.truth.state, p)
      BY <2>1, <2>2, <2>5, SnapsRot
    <2>7. compacted' = [compacted EXCEPT !.snaps = f] /\ dir' = dir /\ chain' = chain
      BY <2>1, <2>2 DEF RotCompacted
    <2>8. CompactedIs(compacted') /\ compacted'.truth = compacted.truth
      BY <1>1, <1>5, <2>3, <2>6, <2>7, CompactedStays
    <2>9. Lineage(live.state, Lost(live, dir), chain, compacted')
      BY <1>1, <1>5, <2>8 DEF Lineage
    <2>10. QED
      BY <1>1, <1>2, <2>7, <2>8, <2>9, InvNext
  <1>6. QED
    BY <1>3, <1>4, <1>5 DEF Rot

-----------------------------------------------------------------------------
(* What is taken of a node. *)

Copied(links) ==
  /\ Opened(dir) = live
  /\ \A i \in DOMAIN links : links[i].origin = Origin
  /\ IsPrefix(Materialized(links).wal, dir.wal)

Memories == {"truth", "origin", "sound"}

IsMemory(r, copy, links) ==
  /\ DOMAIN r = Memories \cup DOMAIN copy
  /\ r.truth = live /\ r.origin = Origin
  /\ r.sound \in BOOLEAN /\ (r.sound => Copied(links))
  /\ \A f \in DOMAIN copy : r[f] = copy[f]

LEMMA RememberIs ==
  ASSUME NEW copy, NEW links, Memories \cap DOMAIN copy = {}
  PROVE  IsMemory(Remember(copy, links), copy, links)
  <1> DEFINE r == Remember(copy, links)
  <1>1. PICK m : m = [truth |-> live, origin |-> Origin, sound |-> Copied(links)]
    OBVIOUS
  <1>2. /\ DOMAIN m = Memories /\ m.truth = live /\ m.origin = Origin
        /\ m.sound = Copied(links)
    BY <1>1 DEF Memories
  <1>3. Copied(links) \in BOOLEAN
    BY DEF Copied
  <1>4. r = Over(m, copy)
    BY <1>1 DEF Remember, Copied
  <1>5. /\ DOMAIN r = DOMAIN m \cup DOMAIN copy
        /\ \A f \in DOMAIN m : r[f] = m[f]
        /\ \A f \in DOMAIN copy : f \notin DOMAIN m => r[f] = copy[f]
    BY <1>4 DEF Over
  <1>6. "truth" \in DOMAIN m /\ "origin" \in DOMAIN m /\ "sound" \in DOMAIN m
    BY <1>2 DEF Memories
  <1>7. r.truth = live /\ r.origin = Origin /\ r.sound = Copied(links)
    BY <1>2, <1>5, <1>6
  <1>8. \A f \in DOMAIN copy : f \notin DOMAIN m
    BY <1>2
  <1>9. QED
    BY <1>2, <1>3, <1>5, <1>7, <1>8 DEF IsMemory

(* With the snapshots an open would look at it opens to the same. *)
LEMMA IncludedOpens ==
  ASSUME NEW n, NEW d, NodeIs(n, d), Opened(d) = n,
         NEW e, e = [wal |-> d.wal, snaps |-> Included(d)]
  PROVE  Opened(e) = n
  <1>1. PICK o \in Nat : o = Lost(n, d)
    BY NodeFacts
  <1>2. PICK h : h = n.state
    OBVIOUS
  <1>3. /\ History(h) /\ h \in Seq(Block) /\ n = [state |-> h, committed |-> Len(h)]
        /\ d.wal \in Seq(Block) /\ IsPart(d.wal, h, o) /\ o + Len(d.wal) = Len(h)
    BY <1>1, <1>2, NodeFacts
  <1>4. /\ SnapsOf(Included(d), h, o) /\ Included(d) \in SnapFiles
        /\ Valid(Included(d)) = Valid(d.snaps)
    BY <1>1, <1>2, IncludedAre
  <1>5. e.wal = d.wal /\ e.snaps = Included(d) /\ e \in Dirs
    BY <1>3, <1>4 DEF Dirs
  <1>6. GoodDir(e, h, o)
    BY <1>3, <1>4, <1>5 DEF GoodDir
  <1>7. Valid(e.snaps) # {} \/ o = 0
    BY <1>1, <1>4, <1>5, SoundIsBased
  <1>8. QED
    BY <1>3, <1>5, <1>6, <1>7, OpenedIs

(* A chain anew. *)
LEMMA BackupKept ==
  ASSUME AInv, Backup
  PROVE  AInv'
  <1>1. /\ NodeIs(live, dir) /\ CompactedIs(compacted) /\ Origin = Lost(live, dir)
        /\ Lineage(live.state, Lost(live, dir), chain, compacted) /\ issued \in Nat
    BY InvFacts
  <1>2. PICK h : h = live.state
    OBVIOUS
  <1>3. PICK o \in Nat : o = Lost(live, dir)
    BY <1>1, NodeFacts
  <1>4. PICK w : w = dir.wal
    OBVIOUS
  <1>5. PICK n \in Nat : n = Len(w)
    BY <1>1, <1>4, NodeFacts
  <1>6. /\ h \in Seq(Block) /\ Len(h) \in Nat /\ IsPart(w, h, o) /\ o + n = Len(h)
        /\ w \in Seq(Block) /\ IsNode(live)
    BY <1>1, <1>2, <1>3, <1>4, <1>5, NodeFacts DEF NodeIs
  <1>7. SnapsOf(Included(dir), h, o)
    BY <1>1, <1>2, <1>3, IncludedAre
  <1>8. PICK copy : copy = FullBackup(dir)
    OBVIOUS
  <1>9. /\ DOMAIN copy = {"kind", "from", "to", "delta", "snaps", "expected"}
        /\ copy.kind = "full" /\ copy.from = 0 /\ copy.to = n
        /\ copy.delta = w /\ copy.snaps = Included(dir)
        /\ copy.expected = Opened([wal |-> dir.wal, snaps |-> Included(dir)])
    BY <1>4, <1>5, <1>8 DEF FullBackup
  <1>10. PICK r : r = Remember(copy, <<>>)
    OBVIOUS
  <1>11. Memories \cap DOMAIN copy = {}
    BY <1>9 DEF Memories
  <1>12. /\ DOMAIN r = Memories \cup DOMAIN copy
         /\ r.truth = live /\ r.origin = o
         /\ r.sound \in BOOLEAN /\ (r.sound => Copied(<<>>))
         /\ \A f \in DOMAIN copy : r[f] = copy[f]
    <2>1. IsMemory(r, copy, <<>>)
      BY <1>10, <1>11, RememberIs
    <2>2. QED
      BY <1>1, <1>3, <2>1 DEF IsMemory
  <1>13. /\ r.kind = "full" /\ r.from = 0 /\ r.to = n /\ r.delta = w
         /\ r.snaps = Included(dir) /\ r.expected = copy.expected
    BY <1>9, <1>12
  <1>14. PICK links : links = <<r>>
    OBVIOUS
  <1>15. chain' = links
    BY <1>8, <1>10, <1>14 DEF Backup
  <1>16. links \in Seq({r}) /\ Len(links) = 1 /\ links[1] = r /\ links # <<>>
    BY <1>14
  <1>17. LinkIs(links, 1)
    <2>1. DOMAIN r = Fields
      BY <1>9, <1>12 DEF Fields, Memories
    <2>2. o + 0 = o /\ 0 + n = n
      BY <1>3, <1>5
    <2>3. QED
      BY <1>2, <1>5, <1>6, <1>7, <1>12, <1>13, <1>16, <2>1, <2>2 DEF LinkIs
  <1>18. LinkTrue(links, 1)
    <2> SUFFICES ASSUME SoundTo(links, 1) PROVE r.expected = live
      <3>1. \A j \in 1..1 : j = 1
        OBVIOUS
      <3>2. IsPart(h, h, 0)
        BY <1>6 DEF IsPart
      <3>3. QED
        BY <1>2, <1>12, <1>16, <3>1, <3>2 DEF LinkTrue
    <2>1. r.sound
      BY <1>16 DEF SoundTo
    <2>2. Opened(dir) = live
      BY <1>12, <2>1 DEF Copied
    <2>3. QED
      BY <1>1, <1>9, <1>13, <2>2, IncludedOpens
  <1>19. ChainIs(links)
    <2>1. \A i \in 1..Len(links) : i = 1
      BY <1>16
    <2>2. QED
      BY <1>16, <1>17, <1>18, <2>1 DEF ChainIs
  <1>20. Lineage(h, o, links, compacted)
    <2>1. Agree(o, h, h)
      BY <1>3, <1>5, <1>6, AgreeOn
    <2>2. compacted # Refused => Agree(o, h, compacted.truth.state)
      BY <1>1, <1>2, <1>3 DEF Lineage
    <2>3. QED
      BY <1>2, <1>12, <1>16, <2>1, <2>2 DEF Lineage
  <1>21. dir' = dir /\ live' = live /\ compacted' = compacted /\ issued' = issued
    BY DEF Backup
  <1>22. QED
    BY <1>1, <1>2, <1>3, <1>15, <1>19, <1>20, <1>21, InvNext

-----------------------------------------------------------------------------
(* One more link. *)

LEMMA Appended ==
  ASSUME NEW S, NEW links \in Seq(S), NEW x, NEW other, other = Append(links, x)
  PROVE  /\ other \in Seq(S \cup {x}) /\ other # <<>>
         /\ Len(other) = Len(links) + 1 /\ DOMAIN other = 1..(Len(links) + 1)
         /\ other[Len(links) + 1] = x
         /\ \A i \in 1..Len(links) : other[i] = links[i]
  <1>1. PICK T : T = S \cup {x}
    OBVIOUS
  <1>2. links \in Seq(T) /\ x \in T
    <2>1. Seq(S) \subseteq Seq(T)
      BY <1>1
    <2>2. QED
      BY <1>1, <2>1
  <1>3. /\ other \in Seq(T) /\ other # <<>>
        /\ Len(other) = Len(links) + 1
        /\ \A i \in 1..Len(links) : other[i] = links[i]
        /\ other[Len(links) + 1] = x
    BY <1>2, AppendProperties
  <1>4. DOMAIN other = 1..(Len(links) + 1)
    BY <1>3
  <1>5. QED
    BY <1>1, <1>3, <1>4

LEMMA ChainGrows ==
  ASSUME NEW links, ChainIs(links), links # <<>>, NEW x, NEW other, other = Append(links, x),
         LinkIs(other, Len(links) + 1), LinkTrue(other, Len(links) + 1)
  PROVE  ChainIs(other) /\ other # <<>> /\ other[1] = links[1]
  <1>1. PICK S : links \in Seq(S)
    BY DEF ChainIs
  <1>2. PICK n \in Nat \ {0} : n = Len(links)
    BY ChainIsContiguous
  <1>3. /\ other \in Seq(S \cup {x}) /\ other # <<>> /\ Len(other) = n + 1
        /\ \A i \in 1..n : other[i] = links[i]
    BY <1>1, <1>2, Appended
  <1>4. ASSUME NEW i \in 1..n PROVE LinkIs(other, i) /\ LinkTrue(other, i)
    <2>1. LinkIs(links, i) /\ LinkTrue(links, i)
      BY <1>2 DEF ChainIs
    <2>2. /\ \A j \in 1..i : other[j] = links[j]
          /\ i # 1 => other[i - 1] = links[i - 1]
          /\ other[i] = links[i] /\ other[1] = links[1]
      BY <1>3
    <2>3. SoundTo(other, i) <=> SoundTo(links, i)
      BY <2>2 DEF SoundTo
    <2>4. LinkIs(other, i)
      BY <2>1, <2>2 DEF LinkIs
    <2>5. LinkTrue(other, i)
      BY <2>1, <2>2, <2>3 DEF LinkTrue
    <2>6. QED
      BY <2>4, <2>5
  <1>5. LinkIs(other, n + 1) /\ LinkTrue(other, n + 1)
    BY <1>2
  <1>6. \A i \in 1..Len(other) : i \in 1..n \/ i = n + 1
    BY <1>3
  <1>7. ChainIs(other)
    BY <1>3, <1>4, <1>5, <1>6 DEF ChainIs
  <1>8. QED
    BY <1>3, <1>7

(* One more history. *)
Grown(hs, n, h) == [i \in 1..(n + 1) |-> IF i = n + 1 THEN h ELSE hs[i]]

LEMMA ChainedGrows ==
  ASSUME NEW links, NEW n \in Nat \ {0}, NEW hs, NEW o \in Nat, Chained(links, n, hs, o),
         NEW more, DOMAIN more = 1..(n + 1), \A i \in 1..n : more[i] = links[i],
         NEW h \in Seq(Block), IsPart(hs[n], h, 0),
         NEW x, x = more[n + 1], x.to \in Nat, o + x.to = Len(h),
         x.from = links[n].to, x.from + Len(x.delta) = x.to,
         IsPart(x.delta, h, o + x.from), SnapsOf(x.snaps, h, o)
  PROVE  Chained(more, n + 1, Grown(hs, n, h), o)
  <1>1. PICK gs : gs = Grown(hs, n, h)
    OBVIOUS
  <1>2. gs[n + 1] = h /\ \A i \in 1..n : gs[i] = hs[i]
    BY <1>1 DEF Grown
  <1>3. x.delta \in Seq(Block) /\ x.snaps \in SnapFiles
    BY DEF IsPart, SnapsOf
  <1>4. \A i \in 1..n : links[i].delta \in Seq(Block) /\ links[i].snaps \in SnapFiles
    BY DEF Chained, Copies
  <1>5. \A i \in 1..(n + 1) : i \in 1..n \/ i = n + 1
    OBVIOUS
  <1>6. Copies(more, n + 1)
    BY <1>3, <1>4, <1>5 DEF Copies
  <1>7. ASSUME NEW i \in 1..(n + 1)
        PROVE  /\ gs[i] \in Seq(Block)
               /\ more[i].to \in Nat /\ o + more[i].to = Len(gs[i])
               /\ more[i].from + Len(more[i].delta) = more[i].to
               /\ more[i].from = IF i = 1 THEN 0 ELSE more[i - 1].to
               /\ IsPart(more[i].delta, gs[i], o + more[i].from)
               /\ SnapsOf(more[i].snaps, gs[i], o)
               /\ i > 1 => IsPart(gs[i - 1], gs[i], 0)
    <2>1. CASE i = n + 1
      <3>1. i # 1 /\ i - 1 = n /\ n \in 1..n
        BY <2>1
      <3>2. more[i - 1] = links[n] /\ gs[i - 1] = hs[n] /\ more[i] = x /\ gs[i] = h
        BY <1>2, <2>1, <3>1
      <3>3. QED
        BY <3>1, <3>2
    <2>2. CASE i \in 1..n
      <3>1. i # 1 => i - 1 \in 1..n
        BY <2>2
      <3>2. /\ more[i] = links[i] /\ gs[i] = hs[i]
            /\ i # 1 => more[i - 1] = links[i - 1] /\ gs[i - 1] = hs[i - 1]
        BY <1>2, <2>2, <3>1
      <3>3. /\ gs[i] \in Seq(Block)
            /\ more[i].to \in Nat /\ o + more[i].to = Len(gs[i])
            /\ more[i].from + Len(more[i].delta) = more[i].to
            /\ IsPart(more[i].delta, gs[i], o + more[i].from)
            /\ SnapsOf(more[i].snaps, gs[i], o)
        BY <2>2, <3>2 DEF Chained
      <3>4. more[i].from = IF i = 1 THEN 0 ELSE more[i - 1].to
        BY <2>2, <3>2 DEF Chained
      <3>5. i > 1 => IsPart(gs[i - 1], gs[i], 0)
        BY <2>2, <3>2 DEF Chained
      <3>6. QED
        BY <3>3, <3>4, <3>5
    <2>3. QED
      BY <1>5, <2>1, <2>2
  <1>8. QED
    BY <1>1, <1>6, <1>7 DEF Chained

(* A log that goes on with another behind the same lost blocks. *)
LEMMA GoesOn ==
  ASSUME NEW g \in Seq(Block), NEW h \in Seq(Block), NEW o \in Nat, NEW m, NEW w,
         IsPart(m, g, o), o + Len(m) = Len(g), IsPart(w, h, o), IsPrefix(m, w),
         Agree(o, g, h)
  PROVE  IsPart(g, h, 0)
  <1>1. /\ m \in Seq(Block) /\ Len(m) \in Nat /\ Len(g) \in Nat /\ Len(h) \in Nat
        /\ w \in Seq(Block) /\ Len(w) \in Nat /\ o + Len(w) <= Len(h)
    BY DEF IsPart
  <1>2. Len(m) <= Len(w) /\ \A k \in 1..Len(m) : m[k] = w[k]
    <2>1. Len(m) <= Len(w) /\ SubSeq(m, 1, Len(m)) = SubSeq(w, 1, Len(m))
      BY DEF IsPrefix
    <2>2. ASSUME NEW k \in 1..Len(m) PROVE m[k] = w[k]
      <3>1. SubSeq(m, 1, Len(m))[k] = m[k]
        BY <1>1, <2>2
      <3>2. SubSeq(w, 1, Len(m))[k] = w[k]
        BY <1>1, <2>1, <2>2
      <3>3. QED
        BY <2>1, <3>1, <3>2
    <2>3. QED
      BY <2>1, <2>2
  <1>3. ASSUME NEW k \in 1..Len(g) PROVE g[k] = h[k]
    <2>1. CASE k <= o
      BY <1>1, <2>1 DEF Agree
    <2>2. CASE k > o
      <3>1. PICK i \in Nat : i = k - o
        BY <1>1, <2>2
      <3>2. i \in 1..Len(m) /\ i \in 1..Len(w) /\ o + i = k
        BY <1>1, <1>2, <2>2, <3>1
      <3>3. m[i] = g[k] /\ w[i] = h[k] /\ m[i] = w[i]
        BY <1>2, <3>2 DEF IsPart
      <3>4. QED
        BY <3>3
    <2>3. QED
      BY <1>1, <2>1, <2>2
  <1>4. Len(g) <= Len(h)
    BY <1>1, <1>2
  <1>5. QED
    BY <1>1, <1>3, <1>4 DEF IsPart

(* The link before its expected State is known. *)
Increment(d, tip) ==
  [kind |-> "incremental", from |-> tip, to |-> Len(d.wal), delta |-> From(d.wal, tip),
   snaps |-> Included(d)]

IsIncrement(copy, d, links) ==
  /\ DOMAIN copy = {"kind", "from", "to", "delta", "snaps", "expected"}
  /\ copy.kind = "incremental" /\ copy.from = Last(links).to /\ copy.to = Len(d.wal)
  /\ copy.delta = From(d.wal, Last(links).to) /\ copy.snaps = Included(d)
  /\ copy.expected = Opened(Materialized(Append(links, Increment(d, Last(links).to))))

LEMMA IncrementIs ==
  ASSUME NEW d, NEW links
  PROVE  IsIncrement(IncrementalBackup(d, links), d, links)
  <1>1. PICK tip : tip = Last(links).to
    OBVIOUS
  <1>2. PICK x : x = Increment(d, tip)
    OBVIOUS
  <1>3. PICK e : e = Opened(Materialized(Append(links, x)))
    OBVIOUS
  <1>4. PICK m : m = [expected |-> e]
    OBVIOUS
  <1>5. DOMAIN m = {"expected"} /\ m.expected = e
    BY <1>4
  <1>6. /\ DOMAIN x = {"kind", "from", "to", "delta", "snaps"}
        /\ x.kind = "incremental" /\ x.from = tip /\ x.to = Len(d.wal)
        /\ x.delta = From(d.wal, tip) /\ x.snaps = Included(d)
    BY <1>2 DEF Increment
  <1>7. PICK copy : copy = IncrementalBackup(d, links)
    OBVIOUS
  <1>8. copy = Over(m, x)
    BY <1>1, <1>2, <1>3, <1>4, <1>7, Zenon DEF IncrementalBackup, Increment
  <1>9. /\ DOMAIN copy = DOMAIN m \cup DOMAIN x
        /\ \A f \in DOMAIN m : copy[f] = m[f]
        /\ \A f \in DOMAIN x : f \notin DOMAIN m => copy[f] = x[f]
    BY <1>8 DEF Over
  <1>10. DOMAIN copy = {"kind", "from", "to", "delta", "snaps", "expected"}
    BY <1>5, <1>6, <1>9
  <1>11. copy.expected = e
    BY <1>5, <1>9
  <1>12. /\ copy.kind = x.kind /\ copy.from = x.from /\ copy.to = x.to
         /\ copy.delta = x.delta /\ copy.snaps = x.snaps
    BY <1>5, <1>6, <1>9
  <1>13. e = Opened(Materialized(Append(links, Increment(d, tip))))
    BY <1>2, <1>3
  <1>14. IsIncrement(copy, d, links)
    BY <1>1, <1>6, <1>10, <1>11, <1>12, <1>13 DEF IsIncrement
  <1>15. QED
    BY <1>7, <1>14

(* What the last link holds of the log, where the new one starts. *)
LEMMA IncrementParts ==
  ASSUME NEW n, NEW d, NodeIs(n, d), NEW tip \in Nat, tip <= Len(d.wal)
  PROVE  LET x == Increment(d, tip)
             o == Lost(n, d)
         IN  /\ x.from = tip /\ x.to = Len(d.wal) /\ x.to \in Nat
             /\ o + x.to = Len(n.state)
             /\ x.from + Len(x.delta) = x.to
             /\ IsPart(x.delta, n.state, o + x.from)
             /\ SnapsOf(x.snaps, n.state, o)
             /\ x.delta = From(d.wal, tip) /\ x.snaps = Included(d)
  <1>1. PICK x : x = Increment(d, tip)
    OBVIOUS
  <1>2. PICK o \in Nat : o = Lost(n, d)
    BY NodeFacts
  <1>3. PICK w, h : w = d.wal /\ h = n.state
    OBVIOUS
  <1>4. PICK l \in Nat : l = Len(w)
    BY <1>3, NodeFacts
  <1>5. h \in Seq(Block) /\ IsPart(w, h, o) /\ o + l = Len(h) /\ w \in Seq(Block)
    BY <1>2, <1>3, <1>4, NodeFacts
  <1>6. tip \in 0..Len(w)
    BY <1>3, <1>4
  <1>7. PICK t : t = From(w, tip)
    OBVIOUS
  <1>8. IsPart(t, h, o + tip) /\ Len(t) = Len(w) - tip
    BY <1>5, <1>6, <1>7, PartFrom
  <1>9. tip + Len(t) = l
    BY <1>4, <1>8
  <1>10. /\ x.from = tip /\ x.to = l /\ x.delta = t /\ x.snaps = Included(d)
    BY <1>1, <1>3, <1>4, <1>7 DEF Increment
  <1>11. SnapsOf(Included(d), h, o)
    BY <1>2, <1>3, IncludedAre
  <1>12. QED
    BY <1>1, <1>2, <1>3, <1>4, <1>5, <1>7, <1>8, <1>9, <1>10, <1>11

(* A chain that is sound, and a directory that goes on with it: the node has *)
(* folded all that the chain holds.                                          *)
LEMMA SoundHistory ==
  ASSUME AInv, chain # <<>>, NEW n, n = Len(chain), SoundTo(chain, n), Copied(chain)
  PROVE  /\ chain[1].origin = Origin
         /\ \A j \in 1..n : IsPart(chain[j].truth.state, live.state, 0)
  <1>1. /\ NodeIs(live, dir) /\ ChainIs(chain) /\ Origin = Lost(live, dir)
        /\ Lineage(live.state, Lost(live, dir), chain, compacted)
    BY InvFacts
  <1>2. PICK o \in Nat : o = Lost(live, dir)
    BY <1>1, NodeFacts
  <1>3. PICK S : chain \in Seq(S)
    BY <1>1 DEF ChainIs
  <1>4. n \in Nat \ {0} /\ DOMAIN chain = 1..n /\ n \in 1..Len(chain) /\ 1 \in 1..n
    BY <1>1, <1>3, ChainIsContiguous
  <1>5. chain[1].origin = o
    BY <1>1, <1>2, <1>4 DEF Copied
  <1>6. PICK g, f, h, w, m : /\ g = chain[n].truth.state /\ f = chain[1].truth.state
                             /\ h = live.state /\ w = dir.wal /\ m = Materialized(chain).wal
    OBVIOUS
  <1>7. h \in Seq(Block) /\ IsPart(w, h, o) /\ g \in Seq(Block) /\ f \in Seq(Block)
    BY <1>1, <1>2, <1>4, <1>6, NodeFacts, LinkFacts
  <1>8. IsPart(m, g, o) /\ o + Len(m) = Len(g)
    <2>1. GoodDir(Materialized(chain), g, o)
      BY <1>1, <1>4, <1>5, <1>6, SoundMaterialized
    <2>2. QED
      BY <1>6, <2>1 DEF GoodDir
  <1>9. IsPrefix(m, w)
    BY <1>6 DEF Copied
  <1>10. LinkTrue(chain, n)
    BY <1>1, <1>4 DEF ChainIs
  <1>11. \A j \in 1..n : IsPart(chain[j].truth.state, g, 0)
    BY <1>6, <1>10 DEF LinkTrue
  <1>12. Agree(o, f, h)
    BY <1>1, <1>5, <1>6 DEF Lineage
  <1>13. Agree(o, g, h)
    <2>1. IsPart(f, g, 0) /\ o <= Len(f)
      BY <1>4, <1>6, <1>11, <1>12 DEF Agree
    <2>2. Agree(o, g, f)
      BY <1>2, <1>7, <2>1, AgreeOn
    <2>3. QED
      BY <1>2, <1>12, <2>2, AgreeOn
  <1>14. IsPart(g, h, 0)
    BY <1>2, <1>7, <1>8, <1>9, <1>13, GoesOn
  <1>15. ASSUME NEW j \in 1..n PROVE IsPart(chain[j].truth.state, h, 0)
    <2>1. PICK s : s = chain[j].truth.state
      OBVIOUS
    <2>2. IsPart(s, g, 0)
      BY <1>11, <2>1
    <2>3. QED
      BY <1>7, <1>14, <2>1, <2>2, PartOfPart
  <1>16. QED
    BY <1>1, <1>2, <1>5, <1>6, <1>15

(* The chain with the new link opens to the node's State. *)
LEMMA IncrementOpens ==
  ASSUME AInv, chain # <<>>, NEW n, n = Len(chain), SoundTo(chain, n), Copied(chain),
         NEW tip, tip = chain[n].to, tip <= Len(dir.wal)
  PROVE  Opened(Materialized(Append(chain, Increment(dir, tip)))) = live
  <1>1. NodeIs(live, dir) /\ ChainIs(chain) /\ Origin = Lost(live, dir)
    BY InvFacts
  <1>2. PICK o \in Nat : o = Lost(live, dir)
    BY <1>1, NodeFacts
  <1>3. PICK S : chain \in Seq(S)
    BY <1>1 DEF ChainIs
  <1>4. n \in Nat \ {0} /\ DOMAIN chain = 1..n /\ n \in 1..Len(chain) /\ n \in 1..n
    BY <1>1, <1>3, ChainIsContiguous
  <1>5. chain[1].origin = o /\ IsPart(chain[n].truth.state, live.state, 0)
    BY <1>1, <1>2, <1>4, SoundHistory
  <1>6. PICK h : h = live.state
    OBVIOUS
  <1>7. h \in Seq(Block) /\ History(h) /\ live = [state |-> h, committed |-> Len(h)]
    BY <1>1, <1>6, NodeFacts
  <1>8. PICK hs : hs = [i \in 1..n |-> chain[i].truth.state]
    OBVIOUS
  <1>9. Chained(chain, n, hs, o) /\ IsPart(hs[n], h, 0)
    BY <1>1, <1>4, <1>5, <1>6, <1>8, SoundIsChained
  <1>10. PICK x : x = Increment(dir, tip)
    OBVIOUS
  <1>11. tip \in Nat
    BY <1>1, <1>4 DEF ChainIs, LinkIs
  <1>12. /\ x.from = tip /\ x.to \in Nat /\ o + x.to = Len(h)
         /\ x.from + Len(x.delta) = x.to
         /\ IsPart(x.delta, h, o + x.from) /\ SnapsOf(x.snaps, h, o)
         /\ x.snaps = Included(dir)
    BY <1>1, <1>2, <1>6, <1>10, <1>11, IncrementParts
  <1>13. PICK more : more = Append(chain, x)
    OBVIOUS
  <1>14. DOMAIN more = 1..(n + 1) /\ more[n + 1] = x /\ \A i \in 1..n : more[i] = chain[i]
    BY <1>3, <1>13, Appended
  <1>15. PICK gs : gs = Grown(hs, n, h)
    OBVIOUS
  <1>16. Chained(more, n + 1, gs, o)
    BY <1>2, <1>4, <1>7, <1>9, <1>12, <1>14, <1>15, ChainedGrows
  <1>17. PICK k \in Nat \ {0} : k = n + 1
    BY <1>4
  <1>18. PICK d : d = Materialized(more)
    OBVIOUS
  <1>19. d \in Dirs /\ GoodDir(d, h, o)
    <2>1. Chained(more, k, gs, o) /\ gs[k] = h
      BY <1>15, <1>16, <1>17 DEF Grown
    <2>2. QED
      BY <1>2, <1>18, <2>1, MaterializedGood
  <1>20. Valid(d.snaps) # {} \/ o = 0
    <2>1. CASE o = 0
      BY <2>1
    <2>2. CASE o # 0
      <3>1. Valid(Included(dir)) # {}
        <4>1. Opened(dir) = live
          BY DEF Copied
        <4>2. Valid(dir.snaps) # {}
          BY <1>1, <1>2, <2>2, <4>1, SoundIsBased
        <4>3. QED
          BY <1>1, <4>2, IncludedAre
      <3>2. PICK c \in DOMAIN x.snaps : x.snaps[c].intact
        BY <1>12, <3>1 DEF Valid
      <3>3. Copies(more, k) /\ c \in DOMAIN more[k].snaps
        BY <1>14, <1>16, <1>17, <3>2 DEF Chained
      <3>4. c \in DOMAIN d.snaps /\ d.snaps[c] = more[k].snaps[c]
        BY <1>18, <3>3, MaterializedLast
      <3>5. QED
        BY <1>14, <1>17, <3>2, <3>4 DEF Valid
    <2>3. QED
      BY <2>1, <2>2
  <1>21. Opened(d) = live
    BY <1>2, <1>7, <1>19, <1>20, OpenedIs
  <1>22. QED
    BY <1>10, <1>13, <1>18, <1>21

LEMMA BackupMoreKept ==
  ASSUME AInv, BackupMore
  PROVE  AInv'
  <1>1. /\ NodeIs(live, dir) /\ ChainIs(chain) /\ CompactedIs(compacted)
        /\ Origin = Lost(live, dir)
        /\ Lineage(live.state, Lost(live, dir), chain, compacted) /\ issued \in Nat
    BY InvFacts
  <1>2. PICK copy : copy = IncrementalBackup(dir, chain)
    OBVIOUS
  <1>3. PICK r : r = Remember(copy, chain)
    OBVIOUS
  <1>4. PICK links : links = Append(chain, r)
    OBVIOUS
  <1>5. /\ chain # <<>> /\ chain' = links /\ dir' = dir /\ live' = live
        /\ compacted' = compacted /\ issued' = issued
        /\ Len(dir.wal) >= Last(chain).to
    BY <1>2, <1>3, <1>4 DEF BackupMore
  <1>6. PICK n : n = Len(chain)
    OBVIOUS
  <1>7. PICK S : chain \in Seq(S)
    BY <1>1 DEF ChainIs
  <1>8. n \in Nat \ {0} /\ DOMAIN chain = 1..n /\ n \in 1..Len(chain) /\ 1 \in 1..n
    BY <1>1, <1>5, <1>6, <1>7, ChainIsContiguous
  <1>9. PICK tip : tip = chain[n].to
    OBVIOUS
  <1>10. tip = Last(chain).to /\ tip \in Nat /\ tip <= Len(dir.wal)
    <2>1. tip = Last(chain).to
      BY <1>6, <1>9 DEF Last
    <2>2. tip \in Nat
      BY <1>1, <1>8, <1>9 DEF ChainIs, LinkIs
    <2>3. Len(dir.wal) \in Nat
      BY <1>1, NodeFacts
    <2>4. QED
      BY <1>5, <2>1, <2>2, <2>3
  <1>11. PICK o \in Nat : o = Lost(live, dir)
    BY <1>1, NodeFacts
  <1>12. PICK h : h = live.state
    OBVIOUS
  <1>13. PICK x : x = Increment(dir, tip)
    OBVIOUS
  <1>14. /\ x.from = tip /\ x.to = Len(dir.wal) /\ x.to \in Nat /\ o + x.to = Len(h)
         /\ x.from + Len(x.delta) = x.to
         /\ IsPart(x.delta, h, o + x.from) /\ SnapsOf(x.snaps, h, o)
         /\ x.delta = From(dir.wal, tip) /\ x.snaps = Included(dir)
    BY <1>1, <1>10, <1>11, <1>12, <1>13, IncrementParts
  <1>15. IsIncrement(copy, dir, chain)
    BY <1>2, IncrementIs
  <1>16. /\ DOMAIN copy = {"kind", "from", "to", "delta", "snaps", "expected"}
         /\ copy.kind = "incremental" /\ copy.from = tip /\ copy.to = x.to
         /\ copy.delta = x.delta /\ copy.snaps = x.snaps
         /\ copy.expected = Opened(Materialized(Append(chain, x)))
    BY <1>10, <1>13, <1>14, <1>15 DEF IsIncrement
  <1>17. Memories \cap DOMAIN copy = {}
    BY <1>16 DEF Memories
  <1>18. IsMemory(r, copy, chain)
    BY <1>3, <1>17, RememberIs
  <1>19. /\ DOMAIN r = Memories \cup DOMAIN copy
         /\ r.truth = live /\ r.origin = o
         /\ r.sound \in BOOLEAN /\ (r.sound => Copied(chain))
         /\ \A f \in DOMAIN copy : r[f] = copy[f]
    BY <1>1, <1>11, <1>18 DEF IsMemory
  <1>20. /\ r.kind = "incremental" /\ r.from = tip /\ r.to = x.to
         /\ r.delta = x.delta /\ r.snaps = x.snaps /\ r.expected = copy.expected
    BY <1>16, <1>19
  <1>21. /\ Len(links) = n + 1 /\ links[n + 1] = r /\ n + 1 # 1 /\ (n + 1) - 1 = n
         /\ \A i \in 1..n : links[i] = chain[i]
    BY <1>4, <1>6, <1>7, <1>8, Appended
  <1>22. links[n] = chain[n] /\ links[1] = chain[1]
    BY <1>8, <1>21
  <1>23. LinkIs(links, n + 1)
    <2>1. DOMAIN r = Fields
      BY <1>16, <1>19 DEF Fields, Memories
    <2>2. IsNode(live)
      BY <1>1 DEF NodeIs
    <2>3. r.from = links[(n + 1) - 1].to
      BY <1>9, <1>20, <1>21, <1>22
    <2>4. /\ r.origin \in Nat /\ r.to \in Nat /\ r.origin + r.to = Len(h)
          /\ r.from + Len(r.delta) = r.to
          /\ IsPart(r.delta, h, r.origin + r.from)
          /\ SnapsOf(r.snaps, h, r.origin)
      BY <1>11, <1>14, <1>19, <1>20
    <2>5. h = r.truth.state
      BY <1>12, <1>19
    <2>6. QED
      BY <1>19, <1>20, <1>21, <2>1, <2>2, <2>3, <2>4, <2>5 DEF LinkIs
  <1>24. LinkTrue(links, n + 1)
    <2> SUFFICES ASSUME SoundTo(links, n + 1)
                 PROVE  /\ r.expected = live
                        /\ r.origin = chain[1].origin
                        /\ \A j \in 1..(n + 1) : IsPart(links[j].truth.state, h, 0)
      BY <1>12, <1>19, <1>21, <1>22 DEF LinkTrue
    <2>1. n + 1 \in 1..(n + 1) /\ \A i \in 1..n : i \in 1..(n + 1)
      BY <1>8
    <2>2. r.sound /\ SoundTo(chain, n)
      BY <1>21, <2>1 DEF SoundTo
    <2>3. Copied(chain)
      BY <1>19, <2>2
    <2>4. /\ chain[1].origin = Origin
          /\ \A j \in 1..n : IsPart(chain[j].truth.state, h, 0)
      BY <1>5, <1>6, <1>12, <2>2, <2>3, SoundHistory
    <2>5. r.expected = live
      BY <1>5, <1>6, <1>9, <1>10, <1>13, <1>16, <1>20, <2>2, <2>3, IncrementOpens
    <2>6. IsPart(h, h, 0)
      BY <1>1, <1>12, NodeFacts, HistoryIs
    <2>7. ASSUME NEW j \in 1..(n + 1) PROVE IsPart(links[j].truth.state, h, 0)
      <3>1. CASE j = n + 1
        BY <1>12, <1>19, <1>21, <2>6, <3>1
      <3>2. CASE j \in 1..n
        BY <1>21, <2>4, <3>2
      <3>3. QED
        BY <1>8, <3>1, <3>2
    <2>8. QED
      BY <1>1, <1>11, <1>19, <2>4, <2>5, <2>7
  <1>25. ChainIs(links) /\ links # <<>> /\ links[1] = chain[1]
    BY <1>1, <1>4, <1>5, <1>6, <1>23, <1>24, ChainGrows
  <1>26. Lineage(h, o, links, compacted)
    BY <1>1, <1>5, <1>11, <1>12, <1>25 DEF Lineage
  <1>27. QED
    BY <1>1, <1>5, <1>11, <1>12, <1>25, <1>26, InvNext

-----------------------------------------------------------------------------
(* A compacted directory. *)

Rebased(snap) == [snap EXCEPT !.offset = 0]
Only(snaps, cut) == [c \in {cut} |-> Rebased(snaps[c])]

(* The snapshot at the cut, in a log that starts there. *)
LEMMA RebasedIs ==
  ASSUME NEW snaps, NEW h \in Seq(Block), NEW o, SnapsOf(snaps, h, o), NEW cut \in DOMAIN snaps,
         snaps[cut].intact, NEW f, f = Only(snaps, cut)
  PROVE  SnapsOf(f, h, cut) /\ f \in SnapFiles /\ Valid(f) = {cut}
  <1>1. PICK snap : snap = snaps[cut]
    OBVIOUS
  <1>2. /\ snap \in Snap /\ cut \in Nat /\ cut \in o..Len(h)
        /\ Len(snap.state) = cut /\ IsPart(snap.state, h, 0)
    BY <1>1, SnapsAre
  <1>3. PICK new : new = Rebased(snap)
    OBVIOUS
  <1>4. new \in Snap /\ new.state = snap.state /\ new.offset = 0 /\ new.intact = snap.intact
    BY <1>2, <1>3 DEF Snap, Rebased
  <1>5. DOMAIN f = {cut} /\ f[cut] = new /\ f = [c \in DOMAIN f |-> f[c]]
    BY <1>1, <1>3 DEF Only
  <1>6. f \in SnapFiles
    BY <1>2, <1>4, <1>5, FilesAre
  <1>7. cut \in cut..Len(h) /\ cut - cut = 0
    BY <1>2
  <1>8. SnapsOf(f, h, cut)
    BY <1>2, <1>4, <1>5, <1>6, <1>7 DEF SnapsOf
  <1>9. Valid(f) = {cut}
    BY <1>1, <1>4, <1>5 DEF Valid
  <1>10. QED
    BY <1>6, <1>8, <1>9

IsCompact(copy, d, cut) ==
  LET p == d.snaps[cut].offset IN
  /\ DOMAIN copy = {"archive", "wal", "snaps", "expected"}
  /\ copy.archive = SubSeq(d.wal, 1, p) /\ copy.wal = From(d.wal, p)
  /\ copy.snaps = Only(d.snaps, cut)
  /\ copy.expected = Opened([wal |-> copy.wal, snaps |-> copy.snaps])

LEMMA CompactIs ==
  ASSUME NEW d
  PROVE  IsCompact(Compact(d), d, Max(Cuts(d)))
  <1>1. PICK cut : cut = Max(Cuts(d))
    OBVIOUS
  <1>2. PICK p, f, w : /\ p = d.snaps[cut].offset /\ w = From(d.wal, p)
                       /\ f = Only(d.snaps, cut)
    OBVIOUS
  <1>3. PICK a, e : a = SubSeq(d.wal, 1, p) /\ e = Opened([wal |-> w, snaps |-> f])
    OBVIOUS
  <1>4. Compact(d) = [archive |-> a, wal |-> w, snaps |-> f, expected |-> e]
    BY <1>1, <1>2, <1>3 DEF Compact, Rebased, Only
  <1>5. PICK copy : copy = Compact(d)
    OBVIOUS
  <1>6. /\ DOMAIN copy = {"archive", "wal", "snaps", "expected"}
        /\ copy.archive = a /\ copy.wal = w /\ copy.snaps = f /\ copy.expected = e
    BY <1>4, <1>5
  <1>7. IsCompact(copy, d, cut)
    BY <1>2, <1>3, <1>6 DEF IsCompact
  <1>8. QED
    BY <1>1, <1>5, <1>7

LEMMA CompactNodeKept ==
  ASSUME AInv, CompactNode
  PROVE  AInv'
  <1>1. /\ NodeIs(live, dir) /\ ChainIs(chain) /\ Origin = Lost(live, dir)
        /\ Lineage(live.state, Lost(live, dir), chain, compacted) /\ issued \in Nat
    BY InvFacts
  <1>2. PICK h, w, snaps : h = live.state /\ w = dir.wal /\ snaps = dir.snaps
    OBVIOUS
  <1>3. PICK o \in Nat : o = Lost(live, dir)
    BY <1>1, NodeFacts
  <1>4. /\ h \in Seq(Block) /\ Len(h) \in Nat /\ History(h) /\ IsNode(live) /\ live \in Node
        /\ live = [state |-> h, committed |-> Len(h)]
        /\ w \in Seq(Block) /\ Len(w) \in Nat /\ o + Len(w) = Len(h)
        /\ IsPart(w, h, o) /\ SnapsOf(snaps, h, o)
    BY <1>1, <1>2, <1>3, NodeFacts DEF NodeIs, IsNode
  <1>5. PICK cut : cut = Max(Cuts(dir))
    OBVIOUS
  <1>6. cut \in DOMAIN snaps /\ snaps[cut].intact
    <2>1. PICK C : C = Cuts(dir)
      OBVIOUS
    <2>2. C # {} /\ C = Valid(snaps)
      BY <1>1, <1>2, <2>1, IncludedAre DEF CompactNode
    <2>3. C \in SUBSET Nat /\ \A c \in C : c <= Len(h)
      BY <1>4, <2>2, SnapsAre DEF Valid
    <2>4. Max(C) \in C
      BY <1>4, <2>2, <2>3, MaxIsGreatest
    <2>5. QED
      BY <1>5, <2>1, <2>2, <2>4 DEF Valid
  <1>7. PICK p : p = snaps[cut].offset
    OBVIOUS
  <1>8. cut \in Nat /\ p = cut - o /\ p \in 0..Len(w) /\ o + p = cut
    <2>1. cut \in Nat /\ cut \in o..Len(h) /\ p = cut - o
      BY <1>4, <1>6, <1>7, SnapsAre
    <2>2. QED
      BY <1>3, <1>4, <2>1
  <1>9. PICK copy : copy = Compact(dir)
    OBVIOUS
  <1>10. IsCompact(copy, dir, cut)
    BY <1>5, <1>9, CompactIs
  <1>11. PICK a, t, f : /\ a = SubSeq(w, 1, p) /\ t = From(w, p)
                        /\ f = Only(snaps, cut)
    OBVIOUS
  <1>12. /\ DOMAIN copy = {"archive", "wal", "snaps", "expected"}
         /\ copy.archive = a /\ copy.wal = t /\ copy.snaps = f
         /\ copy.expected = Opened([wal |-> t, snaps |-> f])
    BY <1>2, <1>7, <1>10, <1>11 DEF IsCompact
  <1>13. IsPart(a, h, o) /\ Len(a) = p
    <2>1. h \in Seq(Block) /\ IsPart(w, h, o) /\ p \in 0..Len(w) /\ a = SubSeq(w, 1, p)
      BY <1>4, <1>8, <1>11
    <2>2. QED
      BY <2>1, PartTo
  <1>14. IsPart(t, h, cut) /\ Len(t) = Len(w) - p
    <2>1. h \in Seq(Block) /\ IsPart(w, h, o) /\ p \in 0..Len(w) /\ t = From(w, p)
      BY <1>4, <1>8, <1>11
    <2>2. IsPart(t, h, o + p) /\ Len(t) = Len(w) - p
      BY <2>1, PartFrom
    <2>3. QED
      BY <1>8, <2>2
  <1>15. SnapsOf(f, h, cut) /\ f \in SnapFiles /\ Valid(f) = {cut}
    BY <1>4, <1>6, <1>11, RebasedIs
  <1>16. /\ a \in Seq(Block) /\ t \in Seq(Block) /\ cut + Len(t) = Len(h)
         /\ o + Len(a) = cut /\ o + Len(a) + Len(t) = Len(h)
    <2>1. a \in Seq(Block) /\ t \in Seq(Block)
      BY <1>13, <1>14 DEF IsPart
    <2>2. PICK k, l \in Nat : k = Len(t) /\ l = Len(w)
      BY <1>4, <2>1
    <2>3. k = l - p /\ o + l = Len(h)
      <3>1. k = l - p
        BY <1>14, <2>2
      <3>2. o + l = Len(h)
        BY <1>4, <2>2
      <3>3. QED
        BY <3>1, <3>2
    <2>4. cut + k = Len(h)
      <3>1. p \in Nat /\ cut = o + p /\ o \in Nat
        BY <1>3, <1>4, <1>8
      <3>2. QED
        BY <2>2, <2>3, <3>1
    <2>5. o + Len(a) = cut
      BY <1>8, <1>13
    <2>6. QED
      BY <2>1, <2>2, <2>4, <2>5
  <1>17. PICK own : own = [wal |-> t, snaps |-> f]
    OBVIOUS
  <1>18. own \in Dirs /\ own.wal = t /\ own.snaps = f
    BY <1>15, <1>16, <1>17 DEF Dirs
  <1>19. GoodDir(own, h, cut)
    BY <1>14, <1>15, <1>16, <1>18 DEF GoodDir
  <1>20. Opened(own) = live
    <2>1. Valid(own.snaps) # {}
      BY <1>15, <1>18
    <2>2. QED
      BY <1>4, <1>8, <1>18, <1>19, <2>1, OpenedIs
  <1>21. PICK r : r = Remember(copy, <<>>)
    OBVIOUS
  <1>22. IsMemory(r, copy, <<>>)
    <2>1. Memories \cap DOMAIN copy = {}
      BY <1>12 DEF Memories
    <2>2. QED
      BY <1>21, <2>1, RememberIs
  <1>23. /\ DOMAIN r = Memories \cup DOMAIN copy
         /\ r.truth = live /\ r.origin = o /\ r.sound \in BOOLEAN
         /\ r.archive = a /\ r.wal = t /\ r.snaps = f /\ r.expected = live
    BY <1>1, <1>3, <1>12, <1>17, <1>20, <1>22 DEF IsMemory
  <1>24. r = [c \in DOMAIN r |-> r[c]]
    BY <1>21 DEF Remember, Over
  <1>25. DOMAIN r = {"archive", "wal", "snaps", "expected", "truth", "origin", "sound"}
    BY <1>12, <1>23 DEF Memories
  <1>26. r \in Compacts
    BY <1>3, <1>4, <1>15, <1>16, <1>23, <1>24, <1>25 DEF Compacts
  <1>27. Own(r) = own
    BY <1>17, <1>23 DEF Own
  <1>28. CompactedIs(r)
    BY <1>2, <1>4, <1>13, <1>16, <1>19, <1>23, <1>26, <1>27 DEF CompactedIs
  <1>29. Lineage(h, o, chain, r)
    <2>1. Agree(o, h, h)
      BY <1>3, <1>4, AgreeOn
    <2>2. chain # <<>> => Agree(chain[1].origin, chain[1].truth.state, h)
      BY <1>1, <1>2 DEF Lineage
    <2>3. r.truth.state = h
      BY <1>2, <1>23
    <2>4. QED
      BY <2>1, <2>2, <2>3 DEF Lineage
  <1>30. /\ compacted' = r /\ dir' = dir /\ live' = live /\ chain' = chain /\ issued' = issued
    BY <1>9, <1>21 DEF CompactNode
  <1>31. QED
    BY <1>1, <1>2, <1>3, <1>28, <1>29, <1>30, InvNext

-----------------------------------------------------------------------------
(* The node goes on in what was restored: of a chain it has lost what the    *)
(* first link had not, and shares it with all that is left.                  *)
LEMMA GoOnFromChainKept ==
  ASSUME AInv, NEW n \in DOMAIN chain, GoOnFromChain(n)
  PROVE  AInv'
  <1>1. ChainIs(chain) /\ CompactedIs(compacted) /\ issued \in Nat
    BY InvFacts
  <1>2. PICK S : chain \in Seq(S)
    BY <1>1 DEF ChainIs
  <1>3. n \in 1..Len(chain) /\ 1 \in 1..Len(chain) /\ 1 \in 1..n /\ n \in 1..n /\ chain # <<>>
    BY <1>2
  <1>4. SoundTo(chain, n)
    BY DEF GoOnFromChain, SoundTo
  <1>5. PICK pre : pre = SubSeq(chain, 1, n)
    OBVIOUS
  <1>6. DOMAIN pre = 1..n /\ Len(pre) = n /\ \A i \in 1..n : pre[i] = chain[i]
    BY <1>1, <1>3, <1>5, FirstLinks
  <1>7. PICK d, node, o : /\ d = Materialized(pre) /\ node = chain[n].truth
                          /\ o = chain[1].origin
    OBVIOUS
  <1>8. /\ GoOn(d, RestoreChain(pre))
    BY <1>5, <1>7 DEF GoOnFromChain
  <1>9. RestoreChain(pre) = node
    <2>1. RestoreChain(pre).state # Refused
      BY <1>8 DEF GoOn, Fine
    <2>2. QED
      BY <1>1, <1>3, <1>4, <1>6, <1>7, <2>1, RestoredChain
  <1>10. /\ dir' = d /\ live' = node /\ chain' = chain /\ compacted' = compacted
         /\ issued' = issued
    BY <1>8, <1>9 DEF GoOn
  <1>11. PICK h, f : h = node.state /\ f = chain[1].truth.state
    OBVIOUS
  <1>12. /\ o \in Nat /\ IsNode(node) /\ h \in Seq(Block) /\ f \in Seq(Block)
         /\ Len(h) \in Nat /\ node.committed = Len(h)
    <2>1. IsNode(node) /\ o \in Nat /\ h \in Seq(Block) /\ f \in Seq(Block)
      BY <1>1, <1>3, <1>7, <1>11, LinkFacts
    <2>2. QED
      BY <1>11, <2>1 DEF IsNode
  <1>13. d \in Dirs /\ GoodDir(d, h, o)
    BY <1>1, <1>3, <1>4, <1>6, <1>7, <1>11, SoundMaterialized
  <1>14. Lost(node, d) = o
    <2>1. d.wal \in Seq(Block) /\ o + Len(d.wal) = Len(h)
      BY <1>13 DEF Dirs, GoodDir
    <2>2. PICK k \in Nat : k = Len(d.wal)
      BY <2>1
    <2>3. o + k = Len(h) /\ Lost(node, d) = Len(h) - k
      BY <1>12, <2>1, <2>2 DEF Lost
    <2>4. QED
      BY <1>12, <2>2, <2>3
  <1>15. NodeIs(node, d)
    BY <1>11, <1>12, <1>13, <1>14 DEF NodeIs
  <1>16. Lineage(h, o, chain, compacted)
    <2>1. /\ Agree(o, f, live.state)
          /\ compacted # Refused => Agree(o, f, compacted.truth.state)
      BY <1>3, <1>7, <1>11, InvFacts DEF Lineage
    <2>2. IsPart(f, h, 0)
      <3>1. LinkTrue(chain, n)
        BY <1>1, <1>3 DEF ChainIs
      <3>2. QED
        BY <1>3, <1>4, <1>7, <1>11, <3>1 DEF LinkTrue
    <2>3. o <= Len(f)
      BY <2>1 DEF Agree
    <2>4. Agree(o, f, h)
      BY <1>12, <2>2, <2>3, AgreeOn
    <2>5. Agree(o, h, f)
      BY <1>12, <2>4, AgreeOn
    <2>6. compacted # Refused => Agree(o, h, compacted.truth.state)
      BY <1>12, <2>1, <2>5, AgreeOn
    <2>7. QED
      BY <1>7, <1>11, <2>1, <2>4, <2>6 DEF Lineage
  <1>17. QED
    BY <1>1, <1>10, <1>11, <1>14, <1>15, <1>16, InvNext

LEMMA GoOnFromCompactedKept ==
  ASSUME AInv, GoOnFromCompacted
  PROVE  AInv'
  <1>1. ChainIs(chain) /\ CompactedIs(compacted) /\ issued \in Nat
    BY InvFacts
  <1>2. PICK d, node : d = RestoredDir(compacted) /\ node = compacted.truth
    OBVIOUS
  <1>3. compacted # Refused /\ GoOn(d, RestoreCompacted(compacted))
    BY <1>2 DEF GoOnFromCompacted
  <1>4. RestoreCompacted(compacted) = node /\ NodeIs(node, d)
    <2>1. RestoreCompacted(compacted).state # Refused
      BY <1>3 DEF GoOn, Fine
    <2>2. QED
      BY <1>1, <1>2, <1>3, <2>1, RestoredCompacted
  <1>5. /\ dir' = d /\ live' = node /\ chain' = chain /\ compacted' = compacted
        /\ issued' = issued
    BY <1>3, <1>4 DEF GoOn
  <1>6. PICK o \in Nat : o = Lost(node, d)
    BY <1>4, NodeFacts
  <1>7. PICK h : h = node.state
    OBVIOUS
  <1>8. Lineage(h, o, chain, compacted)
    <2>1. o <= Len(h)
      <3>1. Len(d.wal) \in Nat /\ o + Len(d.wal) = Len(h) /\ Len(h) \in Nat
        BY <1>4, <1>6, <1>7, NodeFacts
      <3>2. QED
        BY <3>1
    <2>2. Agree(o, h, compacted.truth.state)
      BY <1>2, <1>7, <2>1, AgreeOn
    <2>3. chain # <<>> => Agree(chain[1].origin, chain[1].truth.state, h)
      BY <1>2, <1>3, <1>7, InvFacts DEF Lineage
    <2>4. QED
      BY <1>2, <1>7, <2>2, <2>3 DEF Lineage
  <1>9. QED
    BY <1>1, <1>4, <1>5, <1>6, <1>7, <1>8, InvNext

-----------------------------------------------------------------------------
LEMMA InvStep ==
  ASSUME AInv, [Next]_vars
  PROVE  AInv'
  <1>1. CASE Submit
    BY <1>1, SubmitKept
  <1>2. CASE Snapshot
    BY <1>2, SnapshotKept
  <1>3. CASE Rot
    BY <1>3, RotKept
  <1>4. CASE Backup
    BY <1>4, BackupKept
  <1>5. CASE BackupMore
    BY <1>5, BackupMoreKept
  <1>6. CASE CompactNode
    BY <1>6, CompactNodeKept
  <1>7. CASE \E n \in DOMAIN chain : GoOnFromChain(n)
    BY <1>7, GoOnFromChainKept
  <1>8. CASE GoOnFromCompacted
    BY <1>8, GoOnFromCompactedKept
  <1>9. CASE UNCHANGED vars
    <2>1. /\ live' = live /\ dir' = dir /\ chain' = chain /\ compacted' = compacted
          /\ issued' = issued
      BY <1>9 DEF vars
    <2>2. QED
      BY <2>1, InvFacts, InvNext
  <1>10. QED
    BY <1>1, <1>2, <1>3, <1>4, <1>5, <1>6, <1>7, <1>8, <1>9 DEF Next

LEMMA InvAlways == Spec => []AInv
  BY InitInv, InvStep, PTL DEF Spec

(* restoreChain (backup-incremental.ts:158) gives the State its last link    *)
(* was taken of or throws, whatever links of the chain it is given and       *)
(* whatever snapshots of them rot; and of the whole chain of a node whose    *)
(* log was never cut it does give it.                                        *)
THEOREM ArchiveRestoresExact == Spec => []RestoreIsExact
  BY InvAlways, InvRestores, PTL

(* restoreCompacted (wal-compaction.ts) gives the State of the node that was *)
(* compacted or throws; with the archive from genesis it does give it, also  *)
(* when the one snapshot left has rotted.                                    *)
THEOREM ArchiveCompactedRestores == Spec => []CompactedRestores
  BY InvAlways, InvRestores, PTL
=============================================================================
