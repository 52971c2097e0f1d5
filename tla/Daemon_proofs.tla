---------------------------- MODULE Daemon_proofs ----------------------------
(***************************************************************************)
(* Proofs about the durable node, for any number of writes, snapshots,     *)
(* crashes and torn files, and about the daemon that drives it, for any    *)
(* submissions, agents and cadence.  FoldBlocks is taken apart by an       *)
(* induction over the lines it folds: it gives the list it started from    *)
(* with the lines behind it, or Refused.                                   *)
(***************************************************************************)
EXTENDS Daemon, Aggregates, SequenceTheorems

-----------------------------------------------------------------------------
(* Vocabulary. *)

(* The writes after n, up to m, in their order. *)
Span(n, m) == [k \in 1..(m - n) |-> n + k]

(* None of them is one that applyTick throws on. *)
Clean(n, m) == \A i \in n+1..m : wal[i].block \notin Poison

(* How many writes of the log parse, when only its last may be cut short. *)
End ==
  IF Len(wal) > 0 /\ wal[Len(wal)].written = "part" THEN Len(wal) - 1 ELSE Len(wal)

(* Where a fold may start: at the genesis State, or at a snapshot whose      *)
(* offset is behind a whole line.                                            *)
Bases ==
  {[state |-> <<>>, offset |-> 0]} \cup
  {[state |-> snaps[c].state, offset |-> snaps[c].offset] :
     c \in {d \in DOMAIN snaps : OffsetOnBoundary(snaps[d].offset)}}

(* A list of writes of the first n, each at most once and in their order. *)
Ascending(h, n) ==
  /\ h \in Seq(Nat)
  /\ \A i \in DOMAIN h : h[i] \in 1..n
  /\ \A i, j \in DOMAIN h : i < j => h[i] < h[j]

-----------------------------------------------------------------------------
(* The inductive invariant. *)

Writes == [tick : Nat, block : Blocks, written : {"line", "part", "text"}]

TypeOK ==
  /\ wal \in Seq(Writes)
  /\ DOMAIN snaps \subseteq Nat
  /\ snaps \in [DOMAIN snaps -> [state : Seq(Nat), offset : Nat, intact : BOOLEAN]]
  /\ head \in [count : Nat, state : Seq(Nat)] \cup {Torn}
  /\ up \in BOOLEAN
  /\ pc \in {"idle", "appended", "applied", "pruning"}
  /\ pc # "idle" => up
  /\ committed \in Nat
  /\ live \in Seq(Nat)
  /\ promised \in Seq(Nat)

(* What is folded is part of the log, in any directory. *)
Bounded ==
  /\ committed <= Len(wal)
  /\ pc \in {"appended", "applied"} => Len(wal) > 0 /\ wal[Len(wal)].written = "line"
  /\ Ascending(live, IF pc = "appended" THEN Len(wal) - 1 ELSE Len(wal))
  /\ \A c \in DOMAIN snaps : /\ c <= snaps[c].offset
                             /\ snaps[c].offset <= Len(wal)
                             /\ Ascending(snaps[c].state, snaps[c].offset)

(* A submit returns, or throws, with the caller told of the State in memory. *)
ToldOfLive == up /\ pc # "applied" => promised = live

(* The rest holds as long as nothing was appended behind a torn write: then  *)
(* a write, a count of ticks and an offset are the same number.              *)
Numbered ==
  /\ \A i \in DOMAIN wal : wal[i].tick = i - 1
  /\ up => committed = End
  /\ \A c \in DOMAIN snaps : OffsetOnBoundary(snaps[c].offset) => c = snaps[c].offset

(* A snapshot is the one before it and the writes between them, unless one   *)
(* of these throws: then no fold passes it, whichever it starts from.        *)
BasesAgree ==
  \A a, b \in Bases :
    a.offset <= b.offset /\ Clean(a.offset, b.offset)
      => b.state = a.state \o Span(a.offset, b.offset)

(* How many writes the State in memory stands for, *)
Folded == IF pc = "appended" THEN End - 1 ELSE End

LiveAgrees ==
  up => \A b \in Bases :
          /\ b.offset <= Folded
          /\ Clean(b.offset, Folded) => live = b.state \o Span(b.offset, Folded)

(* and the State the caller was last told of. *)
Told ==
  IF pc \in {"appended", "applied"} THEN {End - 1} ELSE IF up THEN {End} ELSE {End - 1, End}

PromisedAgrees ==
  \A b \in Bases :
    Clean(b.offset, End) =>
      \E k \in Told : b.offset <= k /\ promised = b.state \o Span(b.offset, k)

(* What head.json claims is a prefix of the log. *)
HeadAgrees ==
  head # Torn =>
    /\ head.count <= End
    /\ Clean(0, head.count) => head.state = Span(0, head.count)

InOrder == Numbered /\ BasesAgree /\ LiveAgrees /\ PromisedAgrees /\ HeadAgrees

IInv == TypeOK /\ Bounded /\ ToldOfLive /\ (Unglued => InOrder)

(* The sequences the reader builds. *)
LEMMA SpanSeq ==
  \A n, m \in Nat : n <= m => Span(n, m) \in Seq(Nat) /\ Len(Span(n, m)) = m - n
  <1> SUFFICES ASSUME NEW n \in Nat, NEW m \in Nat, n <= m
               PROVE  Span(n, m) \in Seq(Nat) /\ Len(Span(n, m)) = m - n
    OBVIOUS
  <1>1. Span(n, m) \in [1..(m - n) -> Nat] /\ m - n \in Nat
    BY DEF Span
  <1>2. QED
    BY <1>1 DEF Span

LEMMA SpanAt ==
  \A n, m, k \in Nat : 1 <= k /\ k <= m - n => Span(n, m)[k] = n + k
  BY DEF Span

(* What two sequences make together is told by its length and its elements. *)
LEMMA ConcatIs ==
  ASSUME NEW a \in Seq(Nat), NEW b \in Seq(Nat), NEW t \in Seq(Nat),
         Len(t) = Len(a) + Len(b),
         \A i \in 1..Len(a) : t[i] = a[i],
         \A i \in 1..Len(b) : t[Len(a) + i] = b[i]
  PROVE  a \o b = t
  <1>1. /\ a \o b \in Seq(Nat)
        /\ Len(a \o b) = Len(a) + Len(b)
    BY ConcatProperties
  <1>2. ASSUME NEW i \in 1..Len(a) + Len(b) PROVE (a \o b)[i] = t[i]
    <2>1. CASE i <= Len(a)
      BY <2>1
    <2>2. CASE i > Len(a)
      <3>1. i - Len(a) \in 1..Len(b) /\ Len(a) + (i - Len(a)) = i
        BY <2>2
      <3>2. t[i] = b[i - Len(a)]
        BY <3>1
      <3>3. QED
        BY <2>2, <3>2
    <2>3. QED
      BY <2>1, <2>2
  <1>3. QED
    BY <1>1, <1>2, SeqEqual

LEMMA NatConcat ==
  \A s, t, u \in Seq(Nat) : (s \o t) \o u = s \o (t \o u)
  <1> DEFINE S == Nat
  <1> HIDE DEF S
  <1>1. \A s, t, u \in Seq(S) : (s \o t) \o u = s \o (t \o u)
    BY ConcatAssociative
  <1>2. QED
    BY <1>1 DEF S

(* Spans that meet are one. *)
LEMMA SpanConcat ==
  \A n, k, m \in Nat : n <= k /\ k <= m => Span(n, k) \o Span(k, m) = Span(n, m)
  <1> SUFFICES ASSUME NEW n \in Nat, NEW k \in Nat, NEW m \in Nat, n <= k, k <= m
               PROVE  Span(n, k) \o Span(k, m) = Span(n, m)
    OBVIOUS
  <1>1. Span(n, k) \in Seq(Nat) /\ Len(Span(n, k)) = k - n
    BY SpanSeq
  <1>2. Span(k, m) \in Seq(Nat) /\ Len(Span(k, m)) = m - k
    BY SpanSeq
  <1>3. Span(n, m) \in Seq(Nat) /\ Len(Span(n, m)) = m - n
    BY SpanSeq
  <1>4. \A i \in 1..(k - n) : Span(n, m)[i] = Span(n, k)[i]
    BY SpanAt
  <1>5. \A i \in 1..(m - k) : Span(n, m)[(k - n) + i] = Span(k, m)[i]
    <2> SUFFICES ASSUME NEW i \in 1..(m - k)
                 PROVE  Span(n, m)[(k - n) + i] = Span(k, m)[i]
      OBVIOUS
    <2>1. (k - n) + i \in Nat /\ 1 <= (k - n) + i /\ (k - n) + i <= m - n /\ i \in Nat
      OBVIOUS
    <2>2. Span(n, m)[(k - n) + i] = n + ((k - n) + i)
      BY <2>1, SpanAt
    <2>3. Span(k, m)[i] = k + i
      BY <2>1, SpanAt
    <2>4. QED
      BY <2>2, <2>3
  <1> DEFINE a == Span(n, k)
             b == Span(k, m)
             t == Span(n, m)
  <1> HIDE DEF a, b, t
  <1>6. /\ a \in Seq(Nat) /\ b \in Seq(Nat) /\ t \in Seq(Nat)
        /\ Len(a) = k - n /\ Len(b) = m - k /\ Len(t) = m - n
    BY <1>1, <1>2, <1>3 DEF a, b, t
  <1>7. /\ \A i \in 1..Len(a) : t[i] = a[i]
        /\ \A i \in 1..Len(b) : t[Len(a) + i] = b[i]
    BY <1>4, <1>5, <1>6 DEF a, b, t
  <1>8. a \o b = t
    <2>1. Len(t) = Len(a) + Len(b)
      BY <1>6
    <2>2. QED
      BY <1>6, <1>7, <2>1, ConcatIs, Zenon
  <1>9. QED
    BY <1>8 DEF a, b, t

(* A span of nothing is empty, *)
LEMMA SpanEmpty ==
  \A n \in Nat : Span(n, n) = <<>>
  <1> SUFFICES ASSUME NEW n \in Nat PROVE Span(n, n) = <<>>
    OBVIOUS
  <1>1. Span(n, n) \in Seq(Nat) /\ Len(Span(n, n)) = 0
    BY SpanSeq
  <1>2. QED
    BY <1>1

(* and one more write makes it longer. *)
LEMMA SpanAppend ==
  ASSUME NEW h \in Seq(Nat), NEW n \in Nat, NEW m \in Nat, n <= m
  PROVE  Append(h \o Span(n, m), m + 1) = h \o Span(n, m + 1)
  <1> DEFINE a == Span(n, m)
             w == m + 1
             b == Span(m, w)
  <1>1. a \in Seq(Nat) /\ w \in Nat /\ m <= w /\ w - m = 1
    BY SpanSeq
  <1>2. b = <<w>>
    <2>1. b \in Seq(Nat) /\ Len(b) = 1
      BY <1>1, SpanSeq
    <2>2. b[1] = m + 1
      BY SpanAt
    <2> HIDE DEF b
    <2>3. QED
      BY <2>1, <2>2
  <1>3. Span(n, w) = a \o b
    BY <1>1, SpanConcat
  <1>4. Append(h \o a, w) = h \o (a \o <<w>>)
    <2> HIDE DEF a, w
    <2>1. Append(h \o a, w) = (h \o a) \o <<w>>
      <3>1. h \o a \in Seq(Nat)
        BY <1>1, ConcatProperties
      <3>2. QED
        BY <1>1, <3>1, AppendIsConcat
    <2>2. (h \o a) \o <<w>> = h \o (a \o <<w>>)
      <3>1. <<w>> \in Seq(Nat)
        BY <1>1
      <3>2. QED
        BY <1>1, <3>1, NatConcat
    <2>3. QED
      BY <2>1, <2>2
  <1>5. QED
    BY <1>2, <1>3, <1>4

(* Writes in their order, with those behind them, are in their order. *)
LEMMA AscendingSpan ==
  ASSUME NEW h, NEW o \in Nat, NEW m \in Nat, o <= m, Ascending(h, o)
  PROVE  Ascending(h \o Span(o, m), m)
  <1> DEFINE s == Span(o, m)
             t == h \o s
  <1>1. h \in Seq(Nat)
    BY DEF Ascending
  <1>2. s \in Seq(Nat) /\ Len(s) = m - o
    BY SpanSeq
  <1>3. \A k \in 1..(m - o) : s[k] = o + k
    BY SpanAt
  <1> HIDE DEF s
  <1>4. /\ t \in Seq(Nat)
        /\ Len(t) = Len(h) + (m - o)
        /\ Len(h) \in Nat
    <2>1. t \in Seq(Nat) /\ Len(t) = Len(h) + Len(s)
      BY <1>1, <1>2, ConcatProperties
    <2>2. Len(h) \in Nat
      BY <1>1
    <2>3. QED
      BY <1>2, <2>1, <2>2
  <1>5. /\ \A i \in 1..Len(h) : t[i] = h[i]
        /\ \A i \in 1..Len(h) + (m - o) : i > Len(h) => t[i] = o + (i - Len(h))
    <2>1. \A i \in 1..Len(h) : t[i] = h[i]
      BY <1>1, <1>2
    <2>2. ASSUME NEW i \in 1..Len(h) + (m - o), i > Len(h)
          PROVE  t[i] = o + (i - Len(h))
      <3>1. i - Len(h) \in 1..(m - o)
        BY <1>1, <2>2
      <3>2. t[i] = s[i - Len(h)]
        BY <1>1, <1>2, <2>2, <3>1
      <3>3. QED
        BY <1>3, <3>1, <3>2
    <2>3. QED
      BY <2>1, <2>2
  <1>6. /\ \A i \in 1..Len(h) : h[i] \in 1..o
        /\ \A i, j \in 1..Len(h) : i < j => h[i] < h[j]
    BY <1>1 DEF Ascending
  <1> HIDE DEF t
  <1>7. ASSUME NEW i \in DOMAIN t PROVE t[i] \in 1..m
    <2>1. i \in 1..Len(h) + (m - o)
      BY <1>4
    <2>2. CASE i <= Len(h)
      <3>1. i \in 1..Len(h) /\ t[i] = h[i] /\ h[i] \in 1..o
        BY <1>4, <1>5, <1>6, <2>1, <2>2
      <3>2. QED
        BY <3>1
    <2>3. CASE i > Len(h)
      <3>1. t[i] = o + (i - Len(h))
        BY <1>5, <2>1, <2>3
      <3>2. i \in Int /\ Len(h) \in Nat /\ i > Len(h) /\ i <= Len(h) + (m - o)
        BY <1>4, <2>1, <2>3
      <3>3. o + (i - Len(h)) \in 1..m
        BY <3>2
      <3>4. QED
        BY <3>1, <3>3
    <2>4. QED
      BY <1>4, <2>1, <2>2, <2>3
  <1>8. ASSUME NEW i \in DOMAIN t, NEW j \in DOMAIN t, i < j PROVE t[i] < t[j]
    <2>1. i \in 1..Len(h) + (m - o) /\ j \in 1..Len(h) + (m - o)
      BY <1>4
    <2>2. CASE j <= Len(h)
      <3>1. i \in 1..Len(h) /\ j \in 1..Len(h)
        BY <1>4, <1>8, <2>1, <2>2
      <3>2. QED
        BY <1>5, <1>6, <1>8, <3>1
    <2>3. CASE i > Len(h)
      <3>0. j > Len(h)
        BY <1>4, <1>8, <2>1, <2>3
      <3>1. t[i] = o + (i - Len(h)) /\ t[j] = o + (j - Len(h))
        BY <1>5, <2>1, <2>3, <3>0
      <3>2. QED
        BY <1>4, <1>8, <2>1, <3>1
    <2>4. CASE i <= Len(h) /\ j > Len(h)
      <3>1. t[j] = o + (j - Len(h)) /\ t[i] \in 1..o
        <4>1. i \in 1..Len(h)
          BY <1>4, <2>1, <2>4
        <4>2. QED
          BY <1>5, <1>6, <2>1, <2>4, <4>1
      <3>2. QED
        BY <1>4, <2>1, <2>4, <3>1
    <2>5. QED
      BY <1>4, <2>1, <2>2, <2>3, <2>4
  <1>9. Ascending(t, m)
    BY <1>4, <1>7, <1>8 DEF Ascending
  <1>10. QED
    BY <1>9 DEF t, s

-----------------------------------------------------------------------------
(* The reader. *)

(* It reads a span of whole lines, up to one that does not parse. *)
LEMMA ParseIs ==
  ASSUME wal \in Seq(Writes), NEW o \in 0..Len(wal)
  PROVE  \E m \in o..Len(wal) : /\ ParseFrom(o) = Span(o, m)
                                /\ \A i \in o+1..m : Parses(i)
                                /\ m < Len(wal) => ~Parses(m + 1)
  <1> DEFINE parsed == {n \in o..Len(wal) : \A i \in o+1..n : Parses(i)}
             m == Max(parsed)
  <1>1. Len(wal) \in Nat /\ o \in Nat
    OBVIOUS
  <1>2. o \in parsed
    BY <1>1
  <1>3. m \in parsed /\ \A n \in parsed : n <= m
    <2>1. parsed \in SUBSET Nat /\ \A n \in parsed : n <= Len(wal)
      BY <1>1
    <2> HIDE DEF parsed
    <2>2. QED
      BY <1>1, <1>2, <2>1, MaxIsGreatest
  <1>4. ParseFrom(o) = Span(o, m)
    BY DEF ParseFrom, Span
  <1> HIDE DEF m
  <1>5. m \in o..Len(wal) /\ \A i \in o+1..m : Parses(i)
    BY <1>3
  <1>6. ASSUME m < Len(wal), Parses(m + 1) PROVE FALSE
    <2>1. m + 1 \in parsed
      BY <1>1, <1>5, <1>6
    <2>2. QED
      BY <1>1, <1>3, <1>5, <2>1
  <1>7. QED
    BY <1>4, <1>5, <1>6

(* When only the last write may be cut short, it reads them all but that. *)
LEMMA ParseIsEnd ==
  ASSUME wal \in Seq(Writes), Unglued, NEW o \in 0..Len(wal), OffsetOnBoundary(o)
  PROVE  End \in o..Len(wal) /\ ParseFrom(o) = Span(o, End)
  <1>1. PICK m \in o..Len(wal) : /\ ParseFrom(o) = Span(o, m)
                                 /\ \A i \in o+1..m : Parses(i)
                                 /\ m < Len(wal) => ~Parses(m + 1)
    BY ParseIs
  <1>2. Len(wal) \in Nat /\ o \in Nat /\ m \in Nat
    OBVIOUS
  <1>3. \A i \in 1..Len(wal) : wal[i].written \in {"line", "part", "text"}
    <2>1. \A i \in 1..Len(wal) : wal[i] \in Writes
      OBVIOUS
    <2>2. QED
      BY <2>1 DEF Writes
  <1>4. \A i \in 1..Len(wal)-1 : wal[i].written = "line"
    BY DEF Unglued
  <1>5. \A i \in 1..Len(wal) : i < Len(wal) \/ wal[i].written # "part" => Parses(i)
    BY <1>2, <1>3, <1>4 DEF Parses, OffsetOnBoundary
  <1>6. Len(wal) > 0 /\ wal[Len(wal)].written = "part" => ~Parses(Len(wal))
    BY DEF Parses
  <1>7. CASE Len(wal) > 0 /\ wal[Len(wal)].written = "part"
    <2>1. o # Len(wal)
      BY <1>7 DEF OffsetOnBoundary
    <2>2. m # Len(wal)
      BY <1>1, <1>2, <1>6, <1>7, <2>1
    <2>3. ~(m + 1 < Len(wal))
      BY <1>1, <1>2, <1>5
    <2>4. End = Len(wal) - 1 /\ m = Len(wal) - 1
      BY <1>2, <1>7, <2>2, <2>3 DEF End
    <2>5. QED
      BY <1>1, <1>2, <2>1, <2>4
  <1>8. CASE ~(Len(wal) > 0 /\ wal[Len(wal)].written = "part")
    <2>1. End = Len(wal)
      BY <1>8 DEF End
    <2>2. m = Len(wal)
      BY <1>1, <1>2, <1>5, <1>8
    <2>3. QED
      BY <1>1, <1>2, <2>1, <2>2
  <1>9. QED
    BY <1>7, <1>8

-----------------------------------------------------------------------------
(* FoldBlocks. *)

(* One line more, and what the lines of a set give, from g, what the lines   *)
(* of the smaller sets give.                                                 *)
FoldOne(h, i) == IF h # Refused /\ Folds(h, i) THEN Append(h, i) ELSE Refused

IsFold(start, lines, g) ==
  g = [s \in SUBSET DOMAIN lines |->
         IF s = {} THEN start ELSE FoldOne(g[s \ {Max(s)}], lines[Max(s)])]

(* The loop ends, and its outcome obeys the loop. *)
LEMMA FoldBlocksIs ==
  ASSUME NEW start \in Seq(Nat), NEW lines \in Seq(Nat)
  PROVE  \E g : IsFold(start, lines, g) /\ FoldBlocks(start, lines) = g[DOMAIN lines]
  <1> DEFINE S == DOMAIN lines
             V == Seq(Nat) \cup {Refused}
             next == [p \in S \X V |-> FoldOne(p[2], lines[p[1]])]
             pick == [s \in SUBSET S |-> Max(s)]
  <1>1. S = 1..Len(lines) /\ Len(lines) \in Nat
    OBVIOUS
  <1>2. \A x \in S, v \in V : /\ next[<<x, v>>] = FoldOne(v, lines[x])
                              /\ next[<<x, v>>] \in V
    <2>1. ASSUME NEW x \in S, NEW v \in V PROVE FoldOne(v, lines[x]) \in V
      <3>1. lines[x] \in Nat
        OBVIOUS
      <3>2. v # Refused => v \in Seq(Nat)
        OBVIOUS
      <3>3. v # Refused => Append(v, lines[x]) \in Seq(Nat)
        BY <3>1, <3>2
      <3>4. QED
        BY <3>3 DEF FoldOne
    <2>2. QED
      BY <2>1
  <1>3. \A s \in SUBSET S : s # {} => pick[s] = Max(s) /\ pick[s] \in s
    BY <1>1, MaxOfInterval
  <1> HIDE DEF next, pick, S, V
  <1>4. PICK g : FoldsTo(S, V, start, next, pick, g)
    <2>1. start \in V
      BY DEF V
    <2>2. IsFiniteSet(S)
      BY <1>1, FS_Interval
    <2>3. Foldable(S, V, start, next, pick)
      BY <1>2, <1>3, <2>1, <2>2 DEF Foldable
    <2>4. QED
      BY <2>3, FoldExists
  <1>5. \A s \in SUBSET S : s # {} =>
          next[<<pick[s], g[s \ {pick[s]}]>>] = FoldOne(g[s \ {Max(s)}], lines[Max(s)])
    <2> SUFFICES ASSUME NEW s \in SUBSET S, s # {}
                 PROVE  next[<<pick[s], g[s \ {pick[s]}]>>]
                          = FoldOne(g[s \ {Max(s)}], lines[Max(s)])
      OBVIOUS
    <2>1. pick[s] = Max(s) /\ pick[s] \in S /\ g[s \ {pick[s]}] \in V
      BY <1>3, <1>4 DEF FoldsTo
    <2>2. next[<<pick[s], g[s \ {pick[s]}]>>] = FoldOne(g[s \ {pick[s]}], lines[pick[s]])
      BY <1>2, <2>1
    <2>3. QED
      BY <2>1, <2>2, Zenon
  <1>6. IsFold(start, lines, g)
    BY <1>4, <1>5 DEF FoldsTo, FoldRound, IsFold, S
  <1> DEFINE i == CHOOSE i : IsFold(start, lines, i)
  <1>7. IsFold(start, lines, i)
    BY <1>6
  <1>8. FoldBlocks(start, lines) = i[DOMAIN lines]
    BY Zenon DEF FoldBlocks, FoldLeft, MapThenFoldSet, IsFold, FoldOne
  <1>9. QED
    BY <1>7, <1>8

(* The outcome, line by line: the lines so far, or Refused for good. *)
LineByLine(start, lines, g) ==
  /\ g[1..0] = start
  /\ \A k \in 1..Len(lines) : g[1..k] = FoldOne(g[1..(k-1)], lines[k])

LEMMA FoldRecursion ==
  ASSUME NEW start \in Seq(Nat), NEW lines \in Seq(Nat),
         NEW g, IsFold(start, lines, g)
  PROVE  LineByLine(start, lines, g)
  <1>1. DOMAIN lines = 1..Len(lines) /\ Len(lines) \in Nat
    OBVIOUS
  <1>2. \A s \in SUBSET DOMAIN lines :
          g[s] = IF s = {} THEN start ELSE FoldOne(g[s \ {Max(s)}], lines[Max(s)])
    BY DEF IsFold
  <1>3. g[1..0] = start
    <2>1. 1..0 = {}
      OBVIOUS
    <2>2. {} \in SUBSET DOMAIN lines
      OBVIOUS
    <2>3. g[{}] = start
      BY <1>2, <2>2
    <2>4. QED
      BY <2>1, <2>3
  <1>4. ASSUME NEW k \in 1..Len(lines)
        PROVE  g[1..k] = FoldOne(g[1..(k-1)], lines[k])
    <2>0. k \in Nat /\ 1 <= k /\ k <= Len(lines)
      BY <1>1
    <2>1. 1..k \in SUBSET DOMAIN lines /\ 1..k # {} /\ k \in Nat
      <3>1. k \in 1..k
        BY <2>0
      <3>2. 1..k \subseteq 1..Len(lines)
        BY <1>1, <2>0
      <3>3. QED
        BY <1>1, <2>0, <3>1, <3>2, Zenon
    <2>2. Max(1..k) = k
      <3>1. /\ Max(1..k) \in 1..k
            /\ \A y \in 1..k : y <= Max(1..k)
        <4>1. 1..k \in SUBSET (1..k)
          OBVIOUS
        <4>2. QED
          BY <2>1, <4>1, MaxOfInterval
      <3>2. k \in 1..k
        BY <2>1
      <3>3. QED
        BY <2>1, <3>1, <3>2
    <2>3. (1..k) \ {k} = 1..(k-1)
      BY <2>1
    <2>4. g[1..k] = FoldOne(g[(1..k) \ {Max(1..k)}], lines[Max(1..k)])
      BY <1>2, <2>1
    <2>5. QED
      BY <2>2, <2>3, <2>4
  <1>5. QED
    BY <1>3, <1>4 DEF LineByLine

(* The ticks of the log never go down. *)
TicksRise == \A i, j \in DOMAIN wal : i <= j => wal[i].tick <= wal[j].tick

(* One line more is accepted or refused. *)
LEMMA FoldNext ==
  ASSUME wal \in Seq(Writes), NEW start \in Seq(Nat), NEW o \in Nat, NEW m \in Nat,
         o <= m, m + 1 <= Len(wal)
  PROVE  LET h == start \o Span(o, m) IN
         /\ Folds(h, m + 1) =>
              /\ FoldOne(h, m + 1) = start \o Span(o, m + 1)
              /\ wal[m + 1].block \notin Poison
         /\ ~Folds(h, m + 1) =>
              /\ FoldOne(h, m + 1) = Refused
              /\ Ascending(start, o) /\ TicksRise => wal[m + 1].block \in Poison
  <1> DEFINE h == start \o Span(o, m)
  <1>1. Span(o, m) \in Seq(Nat)
    BY SpanSeq
  <1>2. h \in Seq(Nat) /\ h # Refused
    <2>1. h \in Seq(Nat)
      BY <1>1
    <2>2. QED
      BY <2>1, NodeAssumption
  <1>3. ASSUME Folds(h, m + 1)
        PROVE  /\ FoldOne(h, m + 1) = start \o Span(o, m + 1)
               /\ wal[m + 1].block \notin Poison
    <2>1. Append(h, m + 1) = start \o Span(o, m + 1)
      BY SpanAppend
    <2> HIDE DEF h
    <2>2. QED
      BY <1>2, <1>3, <2>1 DEF FoldOne, Folds
  <1>4. ASSUME ~Folds(h, m + 1)
        PROVE  FoldOne(h, m + 1) = Refused
    BY <1>4 DEF FoldOne
  <1>5. ASSUME ~Folds(h, m + 1), Ascending(start, o), TicksRise,
               wal[m + 1].block \notin Poison
        PROVE  FALSE
    <2>1. Ascending(h, m)
      BY <1>5, AscendingSpan
    <2> HIDE DEF h
    <2>2. h # <<>> /\ ~(wal[m + 1].tick >= wal[Last(h)].tick)
      BY <1>5 DEF Folds
    <2>3. Len(h) \in 1..Len(h) /\ DOMAIN h = 1..Len(h)
      BY <1>2, <2>2
    <2>4. Last(h) \in 1..m
      BY <2>1, <2>3 DEF Last, Ascending
    <2>5. /\ Last(h) \in DOMAIN wal /\ m + 1 \in DOMAIN wal /\ Last(h) <= m + 1
      BY <2>4
    <2>6. wal[Last(h)].tick <= wal[m + 1].tick
      BY <1>5, <2>5 DEF TicksRise
    <2>7. wal[Last(h)].tick \in Nat /\ wal[m + 1].tick \in Nat
      <3>1. wal[Last(h)] \in Writes /\ wal[m + 1] \in Writes
        BY <2>5
      <3>2. QED
        BY <3>1 DEF Writes
    <2>8. QED
      BY <2>2, <2>6, <2>7
  <1>6. QED
    BY <1>3, <1>4, <1>5

(* A stretch without a poisoned block, and one write more. *)
LEMMA CleanLast ==
  \A n, m \in Nat : n <= m => (Clean(n, m + 1) <=> Clean(n, m) /\ wal[m + 1].block \notin Poison)
  <1> SUFFICES ASSUME NEW n \in Nat, NEW m \in Nat, n <= m
               PROVE  Clean(n, m + 1) <=> Clean(n, m) /\ wal[m + 1].block \notin Poison
    OBVIOUS
  <1>1. n + 1..m + 1 = (n + 1..m) \cup {m + 1}
    OBVIOUS
  <1>2. QED
    BY <1>1 DEF Clean

(* Folding a span of the log gives what was there and the span, and meets no *)
(* poisoned block; or it is refused, because of such a block where the ticks *)
(* rise.                                                                     *)
LEMMA FoldBlocksSpan ==
  ASSUME wal \in Seq(Writes), NEW start \in Seq(Nat), NEW o \in Nat,
         NEW m \in Nat, o <= m, m <= Len(wal)
  PROVE  LET h == FoldBlocks(start, Span(o, m)) IN
         \/ h = start \o Span(o, m) /\ Clean(o, m)
         \/ h = Refused /\ (Ascending(start, o) /\ TicksRise => ~Clean(o, m))
  <1> DEFINE lines == Span(o, m)
  <1>1. lines \in Seq(Nat) /\ Len(lines) = m - o
    BY SpanSeq
  <1>2. \A k \in 1..(m - o) : lines[k] = o + k
    BY SpanAt
  <1> HIDE DEF lines
  <1>3. PICK g : IsFold(start, lines, g) /\ FoldBlocks(start, lines) = g[DOMAIN lines]
    BY <1>1, FoldBlocksIs
  <1>4. /\ g[1..0] = start
        /\ \A k \in 1..Len(lines) : g[1..k] = FoldOne(g[1..(k-1)], lines[k])
    <2>1. LineByLine(start, lines, g)
      BY <1>1, <1>3, FoldRecursion
    <2>2. QED
      BY <2>1 DEF LineByLine
  <1> DEFINE P(k) == \/ g[1..k] = start \o Span(o, o + k) /\ Clean(o, o + k)
                     \/ /\ g[1..k] = Refused
                        /\ Ascending(start, o) /\ TicksRise => ~Clean(o, o + k)
             G == {k \in Nat : k <= m - o => P(k)}
  <1>5. 0 \in G
    <2>1. start \o Span(o, o) = start
      BY SpanEmpty, ConcatEmptySeq
    <2>2. Clean(o, o)
      BY DEF Clean
    <2>3. P(0)
      BY <1>4, <2>1, <2>2
    <2>4. QED
      BY <2>3
  <1>6. ASSUME NEW k \in G PROVE k + 1 \in G
    <2> SUFFICES ASSUME k + 1 <= m - o PROVE P(k + 1)
      BY <1>6
    <2>1. k \in Nat /\ P(k)
      BY <1>6
    <2>2. /\ k + 1 \in 1..Len(lines) /\ (k + 1) - 1 = k
          /\ lines[k + 1] = (o + k) + 1 /\ o + (k + 1) = (o + k) + 1
          /\ o + k \in Nat /\ o <= o + k /\ (o + k) + 1 <= Len(wal)
      BY <1>1, <1>2, <2>1
    <2>3. g[1..(k + 1)] = FoldOne(g[1..k], (o + k) + 1)
      BY <1>4, <2>2
    <2>4. Clean(o, (o + k) + 1) <=> Clean(o, o + k) /\ wal[(o + k) + 1].block \notin Poison
      BY <2>2, CleanLast
    <2>5. CASE g[1..k] = Refused
      <3>1. g[1..(k + 1)] = Refused
        BY <2>3, <2>5 DEF FoldOne
      <3>2. Ascending(start, o) /\ TicksRise => ~Clean(o, o + k)
        <4>1. Span(o, o + k) \in Seq(Nat)
          BY <2>2, SpanSeq
        <4>2. start \o Span(o, o + k) # Refused
          <5>1. start \o Span(o, o + k) \in Seq(Nat)
            BY <4>1, ConcatProperties
          <5>2. QED
            BY <5>1, NodeAssumption
        <4>3. QED
          BY <2>1, <2>5, <4>2
      <3>3. QED
        BY <2>2, <2>4, <3>1, <3>2
    <2>6. CASE g[1..k] = start \o Span(o, o + k) /\ Clean(o, o + k)
      <3> DEFINE n == o + k
                 h == start \o Span(o, n)
      <3>1. n \in Nat /\ o <= n /\ n + 1 <= Len(wal)
        BY <2>2
      <3>2. /\ Folds(h, n + 1) => /\ FoldOne(h, n + 1) = start \o Span(o, n + 1)
                                  /\ wal[n + 1].block \notin Poison
            /\ ~Folds(h, n + 1) =>
                 /\ FoldOne(h, n + 1) = Refused
                 /\ Ascending(start, o) /\ TicksRise => wal[n + 1].block \in Poison
        <4> HIDE DEF n
        <4>1. QED
          BY <3>1, FoldNext
      <3>3. g[1..(k + 1)] = FoldOne(h, n + 1) /\ Clean(o, n) /\ o + (k + 1) = n + 1
            /\ (Clean(o, n + 1) <=> Clean(o, n) /\ wal[n + 1].block \notin Poison)
        BY <2>2, <2>3, <2>4, <2>6
      <3> HIDE DEF n, h
      <3>4. \/ g[1..(k + 1)] = start \o Span(o, n + 1) /\ Clean(o, n + 1)
            \/ /\ g[1..(k + 1)] = Refused
               /\ Ascending(start, o) /\ TicksRise => ~Clean(o, n + 1)
        BY <3>2, <3>3, Zenon
      <3>5. QED
        BY <3>3, <3>4, Zenon
    <2>7. QED
      BY <2>1, <2>5, <2>6
  <1>7. G = Nat
    <2> HIDE DEF G
    <2>1. G \in SUBSET Nat
      BY DEF G
    <2>2. QED
      BY <1>5, <1>6, <2>1, NatInductionSet
  <1>8. P(m - o)
    <2>1. m - o \in Nat /\ m - o <= m - o
      OBVIOUS
    <2>2. m - o \in G
      BY <1>7, <2>1
    <2>3. QED
      BY <2>1, <2>2
  <1>9. 1..(m - o) = DOMAIN lines /\ o + (m - o) = m
    BY <1>1
  <1>10. QED
    BY <1>3, <1>8, <1>9 DEF lines

-----------------------------------------------------------------------------
(* What the invariant says of the bases. *)

(* Where the number of a write is its tick, the ticks rise. *)
LEMMA NumberedTicks ==
  ASSUME Numbered, wal \in Seq(Writes)
  PROVE  TicksRise
  <1>1. \A i \in DOMAIN wal : i \in Nat /\ wal[i].tick = i - 1
    BY DEF Numbered
  <1>2. QED
    BY <1>1 DEF TicksRise

IsBase(b) ==
  /\ b.state \in Seq(Nat)
  /\ b.offset \in 0..Len(wal)
  /\ OffsetOnBoundary(b.offset)
  /\ Ascending(b.state, b.offset)

LEMMA BasesTyped ==
  ASSUME TypeOK, Bounded
  PROVE  \A b \in Bases : IsBase(b)
  <1>1. Len(wal) \in Nat
    BY DEF TypeOK
  <1>2. ASSUME NEW b \in Bases PROVE IsBase(b)
    <2>1. CASE b = [state |-> <<>>, offset |-> 0]
      BY <1>1, <2>1 DEF IsBase, OffsetOnBoundary, Ascending
    <2>2. CASE b # [state |-> <<>>, offset |-> 0]
      <3>1. PICK c \in DOMAIN snaps :
              /\ OffsetOnBoundary(snaps[c].offset)
              /\ b = [state |-> snaps[c].state, offset |-> snaps[c].offset]
        BY <2>2 DEF Bases
      <3>2. snaps[c] \in [state : Seq(Nat), offset : Nat, intact : BOOLEAN]
        BY DEF TypeOK
      <3>3. snaps[c].offset <= Len(wal) /\ Ascending(snaps[c].state, snaps[c].offset)
        BY DEF Bounded
      <3>4. b.state = snaps[c].state /\ b.offset = snaps[c].offset
        BY <3>1
      <3>5. QED
        BY <1>1, <3>1, <3>2, <3>3, <3>4 DEF IsBase
    <2>3. QED
      BY <2>1, <2>2
  <1>3. QED
    BY <1>2

(* The genesis State is one of them, and a snapshot behind a whole line.     *)
LEMMA BasesAre ==
  /\ [state |-> <<>>, offset |-> 0] \in Bases
  /\ \A c \in DOMAIN snaps :
       OffsetOnBoundary(snaps[c].offset)
         => [state |-> snaps[c].state, offset |-> snaps[c].offset] \in Bases
  BY DEF Bases

(* How far the log goes. *)
LEMMA EndIs ==
  ASSUME TypeOK
  PROVE  /\ End \in Nat /\ End <= Len(wal) /\ Len(wal) <= End + 1 /\ Len(wal) \in Nat
         /\ OffsetOnBoundary(Len(wal)) => End = Len(wal)
         /\ Unglued => \A o \in 0..Len(wal) : OffsetOnBoundary(o) => o <= End
  <1>1. Len(wal) \in Nat
    BY DEF TypeOK
  <1>2. /\ End \in Nat /\ End <= Len(wal) /\ Len(wal) <= End + 1
        /\ OffsetOnBoundary(Len(wal)) => End = Len(wal)
    BY <1>1 DEF End, OffsetOnBoundary
  <1>3. ASSUME Unglued, NEW o \in 0..Len(wal), OffsetOnBoundary(o) PROVE o <= End
    BY <1>1, <1>2, <1>3
  <1>4. QED
    BY <1>1, <1>2, <1>3

(* A stretch without a poisoned block has none in a part of it. *)
LEMMA CleanParts ==
  \A n, k, m \in Nat :
    n <= k /\ k <= m => (Clean(n, m) <=> Clean(n, k) /\ Clean(k, m))
  <1> SUFFICES ASSUME NEW n \in Nat, NEW k \in Nat, NEW m \in Nat, n <= k, k <= m
               PROVE  Clean(n, m) <=> Clean(n, k) /\ Clean(k, m)
    OBVIOUS
  <1>1. n + 1..m = (n + 1..k) \cup (k + 1..m)
    OBVIOUS
  <1>2. QED
    BY <1>1 DEF Clean

(* A span behind another, and one that has no writes. *)
LEMMA SpanBehind ==
  \A s \in Seq(Nat), n, k, m \in Nat :
    n <= k /\ k <= m => (s \o Span(n, k)) \o Span(k, m) = s \o Span(n, m)
  <1> TAKE s \in Seq(Nat), n \in Nat, k \in Nat, m \in Nat
  <1> HAVE n <= k /\ k <= m
  <1> DEFINE p == Span(n, k)
             q == Span(k, m)
  <1>1. p \in Seq(Nat) /\ q \in Seq(Nat)
    BY SpanSeq
  <1>2. p \o q = Span(n, m)
    BY SpanConcat
  <1> HIDE DEF p, q
  <1>3. (s \o p) \o q = s \o (p \o q)
    BY <1>1, NatConcat
  <1>4. QED
    BY <1>2, <1>3 DEF p, q

LEMMA SpanOfNone ==
  \A s \in Seq(Nat), n \in Nat : s \o Span(n, n) = s
  BY SpanEmpty, ConcatEmptySeq

(* From whichever base it starts, a fold to the end gives the same State. *)
LEMMA BasesMeet ==
  ASSUME TypeOK, Bounded, BasesAgree, NEW a \in Bases, NEW b \in Bases,
         NEW m \in Nat, a.offset <= m, b.offset <= m,
         Clean(a.offset, m), Clean(b.offset, m)
  PROVE  a.state \o Span(a.offset, m) = b.state \o Span(b.offset, m)
  <1>1. /\ a.state \in Seq(Nat) /\ a.offset \in Nat
        /\ b.state \in Seq(Nat) /\ b.offset \in Nat
    BY BasesTyped DEF IsBase
  <1>2. ASSUME NEW x \in Bases, NEW y \in Bases, x.offset <= y.offset, y.offset <= m,
               x.offset \in Nat, y.offset \in Nat, x.state \in Seq(Nat),
               Clean(x.offset, m)
        PROVE  x.state \o Span(x.offset, m) = y.state \o Span(y.offset, m)
    <2>1. Clean(x.offset, y.offset)
      BY <1>2, CleanParts
    <2>2. y.state = x.state \o Span(x.offset, y.offset)
      BY <1>2, <2>1 DEF BasesAgree
    <2>3. (x.state \o Span(x.offset, y.offset)) \o Span(y.offset, m)
            = x.state \o Span(x.offset, m)
      BY <1>2, SpanBehind
    <2>4. QED
      BY <2>2, <2>3, Zenon
  <1>3. CASE a.offset <= b.offset
    BY <1>1, <1>2, <1>3
  <1>4. CASE b.offset <= a.offset
    <2>1. b.state \o Span(b.offset, m) = a.state \o Span(a.offset, m)
      BY <1>1, <1>2, <1>4
    <2>2. QED
      BY <2>1
  <1>5. a.offset <= b.offset \/ b.offset <= a.offset
    BY <1>1
  <1>6. QED
    BY <1>3, <1>4, <1>5, Zenon

-----------------------------------------------------------------------------
(* What open gives. *)

LEMMA ValidNewest ==
  ASSUME TypeOK, Bounded, ValidSnapshots # {}
  PROVE  Max(ValidSnapshots) \in DOMAIN snaps
  <1>1. /\ ValidSnapshots \in SUBSET Nat
        /\ \A c \in ValidSnapshots : c <= Len(wal)
        /\ Len(wal) \in Nat
    <2>1. Len(wal) \in Nat
      BY DEF TypeOK
    <2>2. ASSUME NEW c \in ValidSnapshots PROVE c \in Nat /\ c <= Len(wal)
      <3>1. c \in DOMAIN snaps
        BY DEF ValidSnapshots
      <3>2. c \in Nat /\ snaps[c].offset \in Nat
        BY <3>1 DEF TypeOK
      <3>3. c <= snaps[c].offset /\ snaps[c].offset <= Len(wal)
        BY <3>1 DEF Bounded
      <3>4. QED
        BY <2>1, <3>2, <3>3
    <2>3. QED
      BY <2>1, <2>2
  <1>2. Max(ValidSnapshots) \in ValidSnapshots
    BY <1>1, MaxIsGreatest
  <1>3. QED
    BY <1>2 DEF ValidSnapshots

(* The tail of a snapshot, or the whole log behind the genesis State, folded. *)
TailFold(start, offset) ==
  [lines |-> Len(ParseFrom(offset)), state |-> FoldBlocks(start, ParseFrom(offset))]

LEMMA TailIs ==
  ASSUME TypeOK, NEW s, NEW o \in 0..Len(wal), Ascending(s, o)
  PROVE  /\ TailFold(s, o).lines \in 0..(Len(wal) - o)
         /\ TailFold(s, o).state # Refused => Ascending(TailFold(s, o).state, Len(wal))
  <1>1. wal \in Seq(Writes) /\ s \in Seq(Nat) /\ Len(wal) \in Nat /\ o \in Nat
    BY DEF TypeOK, Ascending
  <1>2. PICK m \in o..Len(wal) : ParseFrom(o) = Span(o, m)
    BY <1>1, ParseIs
  <1>3. m \in Nat /\ o <= m /\ m <= Len(wal)
    BY <1>1
  <1>4. Len(ParseFrom(o)) \in 0..(Len(wal) - o)
    <2>1. Len(Span(o, m)) = m - o
      BY <1>1, <1>3, SpanSeq
    <2>2. QED
      BY <1>1, <1>2, <1>3, <2>1
  <1>5. ASSUME FoldBlocks(s, ParseFrom(o)) # Refused
        PROVE  Ascending(FoldBlocks(s, ParseFrom(o)), Len(wal))
    <2>1. FoldBlocks(s, Span(o, m)) = s \o Span(o, m)
      BY <1>1, <1>2, <1>3, <1>5, FoldBlocksSpan
    <2>2. Ascending(s \o Span(o, m), m)
      BY <1>1, <1>3, AscendingSpan
    <2>3. Ascending(FoldBlocks(s, ParseFrom(o)), m)
      BY <1>2, <2>1, <2>2
    <2>4. QED
      BY <1>1, <1>3, <2>3 DEF Ascending
  <1>6. QED
    BY <1>4, <1>5 DEF TailFold

(* Where nothing is glued to a torn write, the tail goes to the end of the   *)
(* log, and is refused only because of a poisoned block.                     *)
LEMMA TailToEnd ==
  ASSUME TypeOK, Unglued, Numbered, NEW s, NEW o \in 0..Len(wal), Ascending(s, o),
         OffsetOnBoundary(o)
  PROVE  /\ o <= End
         /\ TailFold(s, o).lines = End - o
         /\ \/ TailFold(s, o).state = s \o Span(o, End) /\ Clean(o, End)
            \/ TailFold(s, o).state = Refused /\ ~Clean(o, End)
  <1>1. wal \in Seq(Writes) /\ s \in Seq(Nat) /\ Len(wal) \in Nat /\ o \in Nat
    BY DEF TypeOK, Ascending
  <1>2. End \in Nat /\ o <= End /\ End <= Len(wal) /\ ParseFrom(o) = Span(o, End)
    BY <1>1, ParseIsEnd
  <1>3. TicksRise
    BY <1>1, NumberedTicks
  <1>4. Len(ParseFrom(o)) = End - o
    <2>1. Len(Span(o, End)) = End - o
      BY <1>1, <1>2, SpanSeq
    <2>2. QED
      BY <1>2, <2>1
  <1>5. \/ FoldBlocks(s, ParseFrom(o)) = s \o Span(o, End) /\ Clean(o, End)
        \/ FoldBlocks(s, ParseFrom(o)) = Refused /\ ~Clean(o, End)
    <2>1. \/ FoldBlocks(s, Span(o, End)) = s \o Span(o, End) /\ Clean(o, End)
          \/ /\ FoldBlocks(s, Span(o, End)) = Refused
             /\ Ascending(s, o) /\ TicksRise => ~Clean(o, End)
      BY <1>1, <1>2, FoldBlocksSpan
    <2>2. QED
      BY <1>2, <1>3, <2>1
  <1>6. QED
    BY <1>2, <1>4, <1>5 DEF TailFold

(* The state of a directory that opens is part of the log. *)
Sound(opened) ==
  opened.state # Refused =>
    /\ opened.committed \in 0..Len(wal)
    /\ Ascending(opened.state, Len(wal))

(* It is that of a base with the rest of the log behind it, or is refused    *)
(* for a block of that rest.                                                 *)
FromBase(opened) ==
  /\ opened.committed = End
  /\ \E a \in Bases :
       /\ a.offset <= End
       /\ \/ opened.state = a.state \o Span(a.offset, End) /\ Clean(a.offset, End)
          \/ opened.state = Refused /\ ~Clean(a.offset, End)

LEMMA OpenFullIs ==
  ASSUME TypeOK
  PROVE  Sound(OpenFull) /\ (Unglued /\ Numbered => FromBase(OpenFull))
  <1> DEFINE b == [state |-> <<>>, offset |-> 0]
             t == TailFold(<<>>, 0)
  <1>1. /\ 0 \in 0..Len(wal) /\ Ascending(<<>>, 0) /\ OffsetOnBoundary(0)
        /\ Len(wal) \in Nat
    BY DEF TypeOK, Ascending, OffsetOnBoundary
  <1>2. OpenFull = [committed |-> t.lines, state |-> t.state]
    BY DEF OpenFull, TailFold
  <1>3. b \in Bases /\ b.state = <<>> /\ b.offset = 0
    BY BasesAre
  <1>4. /\ t.lines \in 0..(Len(wal) - 0)
        /\ t.state # Refused => Ascending(t.state, Len(wal))
    BY <1>1, TailIs
  <1>5. ASSUME Unglued, Numbered
        PROVE  /\ 0 <= End
               /\ t.lines = End - 0
               /\ \/ t.state = <<>> \o Span(0, End) /\ Clean(0, End)
                  \/ t.state = Refused /\ ~Clean(0, End)
    BY <1>1, <1>5, TailToEnd
  <1>6. End \in Nat
    BY EndIs
  <1> HIDE DEF t, b
  <1>7. OpenFull.committed = t.lines /\ OpenFull.state = t.state
    BY <1>2
  <1>8. Sound(OpenFull)
    BY <1>1, <1>4, <1>7 DEF Sound
  <1>9. ASSUME Unglued, Numbered PROVE FromBase(OpenFull)
    <2>1. OpenFull.committed = End
      BY <1>5, <1>6, <1>7, <1>9
    <2>2. \/ OpenFull.state = b.state \o Span(b.offset, End) /\ Clean(b.offset, End)
          \/ OpenFull.state = Refused /\ ~Clean(b.offset, End)
      BY <1>3, <1>5, <1>7, <1>9
    <2>3. b.offset <= End
      BY <1>3, <1>5, <1>9
    <2>4. QED
      BY <1>3, <2>1, <2>2, <2>3 DEF FromBase
  <1>10. QED
    BY <1>8, <1>9

LEMMA OpenAtIs ==
  ASSUME TypeOK, Bounded, NEW c \in DOMAIN snaps, OffsetOnBoundary(snaps[c].offset)
  PROVE  Sound(OpenAt(c)) /\ (Unglued /\ Numbered => FromBase(OpenAt(c)))
  <1> DEFINE s == snaps[c].state
             o == snaps[c].offset
             b == [state |-> s, offset |-> o]
             t == TailFold(s, o)
  <1>1. /\ c \in Nat /\ o \in Nat /\ Len(wal) \in Nat
        /\ c <= o /\ o <= Len(wal) /\ Ascending(s, o)
    BY DEF TypeOK, Bounded
  <1>2. OpenAt(c) = [committed |-> c + t.lines, state |-> t.state]
    BY DEF OpenAt, TailFold
  <1>3. b \in Bases /\ b.state = s /\ b.offset = o
    BY BasesAre
  <1>4. o \in 0..Len(wal) /\ OffsetOnBoundary(o)
    BY <1>1
  <1> HIDE DEF s, o
  <1>5. /\ t.lines \in 0..(Len(wal) - o)
        /\ t.state # Refused => Ascending(t.state, Len(wal))
    BY <1>1, <1>4, TailIs
  <1>6. ASSUME Unglued, Numbered
        PROVE  /\ o <= End
               /\ t.lines = End - o
               /\ \/ t.state = s \o Span(o, End) /\ Clean(o, End)
                  \/ t.state = Refused /\ ~Clean(o, End)
    BY <1>1, <1>4, <1>6, TailToEnd
  <1>7. End \in Nat
    BY EndIs
  <1> HIDE DEF t, b
  <1>8. OpenAt(c).committed = c + t.lines /\ OpenAt(c).state = t.state
    BY <1>2
  <1>9. Sound(OpenAt(c))
    BY <1>1, <1>5, <1>8 DEF Sound
  <1>10. ASSUME Unglued, Numbered PROVE FromBase(OpenAt(c))
    <2>1. c = o
      BY <1>4, <1>10 DEF Numbered, o
    <2>2. OpenAt(c).committed = End
      BY <1>1, <1>6, <1>7, <1>8, <1>10, <2>1
    <2>3. \/ OpenAt(c).state = b.state \o Span(b.offset, End) /\ Clean(b.offset, End)
          \/ OpenAt(c).state = Refused /\ ~Clean(b.offset, End)
      BY <1>3, <1>6, <1>8, <1>10
    <2>4. b.offset <= End
      BY <1>3, <1>6, <1>10
    <2>5. QED
      BY <1>3, <2>2, <2>3, <2>4 DEF FromBase
  <1>11. QED
    BY <1>9, <1>10

LEMMA OpenDirIs ==
  ASSUME TypeOK, Bounded
  PROVE  Sound(OpenDir) /\ (Unglued /\ Numbered => FromBase(OpenDir))
  <1> DEFINE c == Max(ValidSnapshots)
  <1>1. CASE ValidSnapshots = {}
    <2>1. OpenDir = OpenFull
      BY <1>1 DEF OpenDir
    <2>2. QED
      BY <2>1, OpenFullIs
  <1>2. CASE ValidSnapshots # {}
    <2>1. c \in DOMAIN snaps
      BY <1>2, ValidNewest
    <2>2. snaps[c].offset \in Nat /\ snaps[c].offset <= Len(wal) /\ Len(wal) \in Nat
      BY <2>1 DEF TypeOK, Bounded
    <2>3. OpenDir = IF OffsetOnBoundary(snaps[c].offset) THEN OpenAt(c) ELSE OpenFull
      BY <1>2, <2>2 DEF OpenDir
    <2>4. CASE OffsetOnBoundary(snaps[c].offset)
      <3>1. OpenDir = OpenAt(c)
        BY <2>3, <2>4
      <3>2. QED
        BY <2>1, <2>4, <3>1, OpenAtIs
    <2>5. CASE ~OffsetOnBoundary(snaps[c].offset)
      <3>1. OpenDir = OpenFull
        BY <2>3, <2>5
      <3>2. QED
        BY <3>1, OpenFullIs
    <2>6. QED
      BY <2>4, <2>5
  <1>3. QED
    BY <1>1, <1>2

-----------------------------------------------------------------------------
(* What the invariant is for. *)

LEMMA InvSurvives ==
  ASSUME IInv
  PROVE  PromisedSurvives
  <1> DEFINE h == OpenDir.state
  <1>1. TypeOK /\ Bounded /\ promised \in Seq(Nat)
    BY DEF IInv, TypeOK
  <1> SUFFICES ASSUME h # Refused
               PROVE  /\ \A i, j \in DOMAIN h : i < j => h[i] < h[j]
                      /\ Unglued => IsPrefix(promised, h) /\ Len(h) <= Len(promised) + 1
    BY DEF PromisedSurvives
  <1>2. Ascending(h, Len(wal))
    BY <1>1, OpenDirIs DEF Sound
  <1>3. ASSUME Unglued
        PROVE  IsPrefix(promised, h) /\ Len(h) <= Len(promised) + 1
    <2>1. Numbered /\ PromisedAgrees
      BY <1>3 DEF IInv, InOrder
    <2>2. PICK a \in Bases : /\ a.offset <= End
                             /\ h = a.state \o Span(a.offset, End)
                             /\ Clean(a.offset, End)
      BY <1>1, <1>3, <2>1, OpenDirIs DEF FromBase
    <2>3. PICK k \in Told : /\ a.offset <= k
                            /\ promised = a.state \o Span(a.offset, k)
      BY <2>1, <2>2 DEF PromisedAgrees
    <2>4. /\ a.state \in Seq(Nat) /\ a.offset \in Nat
          /\ End \in Nat
      BY <1>1, BasesTyped, EndIs DEF IsBase
    <2>5. k \in {End - 1, End}
      BY <2>3 DEF Told
    <2>6. k \in Nat /\ k <= End /\ End <= k + 1
      BY <2>3, <2>4, <2>5
    <2>7. h = promised \o Span(k, End)
      BY <2>2, <2>3, <2>4, <2>6, SpanBehind
    <2>8. Span(k, End) \in Seq(Nat) /\ Len(Span(k, End)) = End - k
      BY <2>4, <2>6, SpanSeq
    <2> DEFINE r == Span(k, End)
    <2> HIDE DEF r, h
    <2>9. /\ r \in Seq(Nat) /\ Len(r) <= 1 /\ h = promised \o r
      <3>1. r \in Seq(Nat) /\ Len(r) = End - k /\ h = promised \o r
        BY <2>7, <2>8 DEF r
      <3>2. End - k <= 1
        BY <2>4, <2>6
      <3>3. QED
        BY <3>1, <3>2
    <2>10. Len(h) = Len(promised) + Len(r) /\ h \in Seq(Nat)
      BY <1>1, <2>9, ConcatProperties
    <2>11. SubSeq(h, 1, Len(promised)) = SubSeq(promised, 1, Len(promised))
      BY <1>1, <2>9, <2>10
    <2>12. QED
      BY <1>1, <2>9, <2>10, <2>11 DEF IsPrefix
  <1>4. QED
    BY <1>2, <1>3 DEF Ascending

LEMMA NoPoisonIsClean ==
  ASSUME TypeOK, NoPoison, NEW n \in Nat, NEW m \in Nat, m <= Len(wal)
  PROVE  Clean(n, m)
  BY DEF NoPoison, Clean, TypeOK

LEMMA InvRecovers ==
  ASSUME IInv
  PROVE  RecoveryEquivalence
  <1> SUFFICES ASSUME Unglued, NoPoison PROVE OpenDir = OpenFull
    BY DEF RecoveryEquivalence
  <1>1. TypeOK /\ Bounded /\ Numbered /\ BasesAgree
    BY DEF IInv, InOrder
  <1>2. End \in Nat /\ End <= Len(wal)
    BY <1>1, EndIs
  <1>3. FromBase(OpenDir) /\ FromBase(OpenFull)
    BY <1>1, OpenDirIs, OpenFullIs
  <1>4. \A a \in Bases : a.state \in Seq(Nat) /\ a.offset \in Nat
    BY <1>1, BasesTyped DEF IsBase
  <1>5. \A a \in Bases : a.offset <= End => Clean(a.offset, End)
    BY <1>1, <1>2, <1>4, NoPoisonIsClean
  <1>6. PICK a \in Bases : a.offset <= End /\ OpenDir.state = a.state \o Span(a.offset, End)
    BY <1>3, <1>5 DEF FromBase
  <1>7. PICK b \in Bases : b.offset <= End /\ OpenFull.state = b.state \o Span(b.offset, End)
    BY <1>3, <1>5 DEF FromBase
  <1>8. a.state \o Span(a.offset, End) = b.state \o Span(b.offset, End)
    BY <1>1, <1>2, <1>5, <1>6, <1>7, BasesMeet
  <1>9. OpenDir.state = OpenFull.state /\ OpenDir.committed = OpenFull.committed
    BY <1>3, <1>6, <1>7, <1>8 DEF FromBase
  <1>10. /\ OpenDir = [committed |-> OpenDir.committed, state |-> OpenDir.state]
         /\ OpenFull = [committed |-> OpenFull.committed, state |-> OpenFull.state]
    BY DEF OpenDir, OpenAt, OpenFull
  <1>11. QED
    BY <1>9, <1>10, Zenon

LEMMA SpanStart ==
  \A m, n \in Nat : n <= m => SubSeq(Span(0, m), 1, n) = Span(0, n)
  <1> SUFFICES ASSUME NEW m \in Nat, NEW n \in Nat, n <= m
               PROVE  SubSeq(Span(0, m), 1, n) = Span(0, n)
    OBVIOUS
  <1>1. Span(0, m) \in Seq(Nat) /\ Len(Span(0, m)) = m
    BY SpanSeq
  <1>2. Span(0, n) \in Seq(Nat) /\ Len(Span(0, n)) = n
    BY SpanSeq
  <1>3. \A i \in 1..n : Span(0, m)[i] = Span(0, n)[i]
    BY DEF Span
  <1> DEFINE s == Span(0, m)
             t == Span(0, n)
  <1> HIDE DEF s, t
  <1>4. /\ s \in Seq(Nat) /\ Len(s) = m /\ t \in Seq(Nat) /\ Len(t) = n
        /\ \A i \in 1..n : s[i] = t[i]
    BY <1>1, <1>2, <1>3 DEF s, t
  <1>5. SubSeq(s, 1, n) = t
    BY <1>4
  <1>6. QED
    BY <1>5 DEF s, t

LEMMA InvObserved ==
  ASSUME IInv
  PROVE  ObserverSeesNoDrift
  <1> SUFFICES ASSUME Unglued, NoPoison, head # Torn
               PROVE  /\ Len(ParseFrom(0)) >= head.count
                      /\ Observed(head.count) = head.state
    BY DEF ObserverSeesNoDrift
  <1>1. TypeOK /\ Numbered /\ HeadAgrees
    BY DEF IInv, InOrder
  <1>2. End \in Nat /\ End <= Len(wal) /\ Len(wal) \in Nat
    BY <1>1, EndIs
  <1>3. head.count \in Nat /\ head.count <= End
    BY <1>1 DEF TypeOK, HeadAgrees
  <1>4. Clean(0, head.count)
    BY <1>1, <1>2, <1>3, NoPoisonIsClean
  <1>5. head.state = Span(0, head.count)
    BY <1>1, <1>4 DEF HeadAgrees
  <1>6. wal \in Seq(Writes) /\ 0 \in 0..Len(wal) /\ OffsetOnBoundary(0)
    BY <1>1, <1>2 DEF TypeOK, OffsetOnBoundary
  <1>7. ParseFrom(0) = Span(0, End)
    BY <1>6, ParseIsEnd
  <1>8. Len(Span(0, End)) = End
    BY <1>2, SpanSeq
  <1> DEFINE n == head.count
  <1> HIDE DEF n
  <1>9. SubSeq(Span(0, End), 1, n) = Span(0, n)
    <2>1. n \in Nat /\ n <= End
      BY <1>3 DEF n
    <2>2. QED
      BY <1>2, <2>1, SpanStart
  <1>10. FoldBlocks(<<>>, Span(0, n)) = Span(0, n)
    <2>1. n \in Nat /\ n <= Len(wal) /\ Clean(0, n)
      BY <1>2, <1>3, <1>4 DEF n
    <2>2. TicksRise
      BY <1>1, <1>6, NumberedTicks
    <2>3. Ascending(<<>>, 0)
      BY DEF Ascending
    <2>4. FoldBlocks(<<>>, Span(0, n)) = <<>> \o Span(0, n)
      <3> DEFINE z == 0
                 e == <<>>
      <3>1. /\ z \in Nat /\ z <= n /\ e \in Seq(Nat)
            /\ Ascending(e, z) /\ Clean(z, n)
        BY <2>1, <2>3
      <3> HIDE DEF z, e
      <3>2. FoldBlocks(e, Span(z, n)) = e \o Span(z, n)
        BY <1>6, <2>1, <2>2, <3>1, FoldBlocksSpan
      <3>3. QED
        BY <3>2 DEF z, e
    <2>5. Span(0, n) \in Seq(Nat)
      BY <2>1, SpanSeq
    <2>6. QED
      BY <2>4, <2>5, ConcatEmptySeq
  <1>11. QED
    BY <1>2, <1>3, <1>5, <1>7, <1>8, <1>9, <1>10 DEF Observed, n

-----------------------------------------------------------------------------
(* What a step leaves alone. *)

LEMMA SameLog ==
  ASSUME wal' = wal
  PROVE  /\ End' = End
         /\ Unglued' <=> Unglued
         /\ \A o : OffsetOnBoundary(o)' <=> OffsetOnBoundary(o)
         /\ \A n, m : Clean(n, m)' <=> Clean(n, m)
  <1>1. End' = End
    BY DEF End
  <1>2. Unglued' <=> Unglued
    BY DEF Unglued
  <1>3. \A o : OffsetOnBoundary(o)' <=> OffsetOnBoundary(o)
    BY DEF OffsetOnBoundary
  <1>4. \A n, m : Clean(n, m)' <=> Clean(n, m)
    BY DEF Clean
  <1>5. QED
    BY <1>1, <1>2, <1>3, <1>4

(* The log is the same, and no snapshot is new. *)
NoNewSnapshot ==
  /\ wal' = wal
  /\ \A c \in DOMAIN snaps' : /\ c \in DOMAIN snaps
                              /\ snaps'[c].state = snaps[c].state
                              /\ snaps'[c].offset = snaps[c].offset

LEMMA FewerBases ==
  ASSUME NoNewSnapshot
  PROVE  Bases' \subseteq Bases
  <1> DEFINE z == [state |-> <<>>, offset |-> 0]
  <1>1. ASSUME NEW b \in Bases' PROVE b \in Bases
    <2>1. CASE b = z
      BY <2>1, BasesAre
    <2>2. CASE b # z
      <3>1. PICK c \in DOMAIN snaps' :
              /\ OffsetOnBoundary(snaps[c].offset)'
              /\ b = [state |-> snaps'[c].state, offset |-> snaps'[c].offset]
        BY <2>2 DEF Bases
      <3>2. /\ c \in DOMAIN snaps
            /\ b = [state |-> snaps[c].state, offset |-> snaps[c].offset]
            /\ OffsetOnBoundary(snaps[c].offset)
        BY <3>1 DEF NoNewSnapshot, OffsetOnBoundary
      <3>3. QED
        BY <3>2, BasesAre
    <2>3. QED
      BY <2>1, <2>2
  <1>2. QED
    BY <1>1

SnapsBounded ==
  \A c \in DOMAIN snaps : /\ c <= snaps[c].offset
                          /\ snaps[c].offset <= Len(wal)
                          /\ Ascending(snaps[c].state, snaps[c].offset)

LEMMA SnapsStayBounded ==
  ASSUME Bounded, NoNewSnapshot
  PROVE  SnapsBounded'
  <1>1. ASSUME NEW c \in DOMAIN snaps'
        PROVE  /\ c <= snaps'[c].offset
               /\ snaps'[c].offset <= Len(wal')
               /\ Ascending(snaps'[c].state, snaps'[c].offset)
    <2>1. /\ c \in DOMAIN snaps /\ wal' = wal
          /\ snaps'[c].state = snaps[c].state /\ snaps'[c].offset = snaps[c].offset
      BY DEF NoNewSnapshot
    <2>2. QED
      BY <2>1 DEF Bounded
  <1>2. QED
    BY <1>1 DEF SnapsBounded

(* The part of the order that is about the files of the log. *)
FilesInOrder ==
  /\ \A i \in DOMAIN wal : wal[i].tick = i - 1
  /\ \A c \in DOMAIN snaps : OffsetOnBoundary(snaps[c].offset) => c = snaps[c].offset
  /\ BasesAgree

LEMMA FilesStayInOrder ==
  ASSUME IInv, NoNewSnapshot, Unglued'
  PROVE  /\ Unglued /\ InOrder /\ FilesInOrder'
         /\ End' = End /\ Bases' \subseteq Bases
  <1>1. wal' = wal
    BY DEF NoNewSnapshot
  <1>2. Unglued /\ InOrder
    BY <1>1, SameLog DEF IInv
  <1>3. Bases' \subseteq Bases
    BY FewerBases
  <1>4. (\A i \in DOMAIN wal : wal[i].tick = i - 1)'
    BY <1>1, <1>2 DEF InOrder, Numbered
  <1>5. (\A c \in DOMAIN snaps : OffsetOnBoundary(snaps[c].offset) => c = snaps[c].offset)'
    <2>1. ASSUME NEW c \in DOMAIN snaps', OffsetOnBoundary(snaps[c].offset)'
          PROVE  c = snaps'[c].offset
      <3>1. /\ c \in DOMAIN snaps /\ snaps'[c].offset = snaps[c].offset
        BY DEF NoNewSnapshot
      <3>2. OffsetOnBoundary(snaps[c].offset)
        BY <1>1, <2>1, <3>1 DEF OffsetOnBoundary
      <3>3. QED
        BY <1>2, <3>1, <3>2 DEF InOrder, Numbered
    <2>2. QED
      BY <2>1
  <1>6. BasesAgree'
    <2>1. ASSUME NEW a \in Bases', NEW b \in Bases',
                 a.offset <= b.offset, Clean(a.offset, b.offset)'
          PROVE  b.state = a.state \o Span(a.offset, b.offset)
      <3>1. Clean(a.offset, b.offset)
        BY <1>1, <2>1, SameLog
      <3>2. QED
        BY <1>2, <1>3, <2>1, <3>1 DEF InOrder, BasesAgree
    <2>2. QED
      BY <2>1 DEF BasesAgree
  <1>7. End' = End
    BY <1>1, SameLog
  <1>8. QED
    BY <1>2, <1>3, <1>4, <1>5, <1>6, <1>7 DEF FilesInOrder

(* What is said of the State in memory, of the one the caller was told of    *)
(* and of head.json stays true as long as these do not change.               *)
LEMMA LiveStays ==
  ASSUME NoNewSnapshot, up, LiveAgrees, live' = live, Folded' = Folded
  PROVE  LiveAgrees'
  <1>1. Bases' \subseteq Bases
    BY FewerBases
  <1>2. \A b \in Bases : Clean(b.offset, Folded)' <=> Clean(b.offset, Folded)
    BY SameLog DEF NoNewSnapshot
  <1>3. QED
    BY <1>1, <1>2 DEF LiveAgrees

LEMMA PromisedStays ==
  ASSUME NoNewSnapshot, PromisedAgrees, promised' = promised, Told \subseteq Told'
  PROVE  PromisedAgrees'
  <1>1. Bases' \subseteq Bases
    BY FewerBases
  <1>2. \A b \in Bases : Clean(b.offset, End)' <=> Clean(b.offset, End)
    BY SameLog DEF NoNewSnapshot
  <1>3. ASSUME NEW b \in Bases', Clean(b.offset, End)'
        PROVE  \E k \in Told' : b.offset <= k /\ promised' = b.state \o Span(b.offset, k)
    BY <1>1, <1>2, <1>3 DEF PromisedAgrees
  <1>4. QED
    BY <1>3 DEF PromisedAgrees

LEMMA HeadStays ==
  ASSUME wal' = wal, HeadAgrees, head' = head
  PROVE  HeadAgrees'
  <1>1. /\ End' = End
        /\ \A k : Clean(0, k)' <=> Clean(0, k)
    BY SameLog
  <1>2. QED
    BY <1>1 DEF HeadAgrees

-----------------------------------------------------------------------------
(* The actions, one by one. *)

(* The directory that OvtNode.create leaves, with or without a process. *)
Fresh ==
  /\ wal = <<>> /\ snaps = <<>> /\ head = [count |-> 0, state |-> <<>>]
  /\ up \in BOOLEAN /\ pc = "idle" /\ committed = 0 /\ live = <<>> /\ promised = <<>>

LEMMA FreshOrdered ==
  ASSUME Fresh
  PROVE  IInv
  <1>1. wal = <<>> /\ Len(wal) = 0 /\ DOMAIN wal = {}
    BY DEF Fresh
  <1>2. snaps = <<>> /\ DOMAIN snaps = {}
    BY DEF Fresh
  <1>3. End = 0
    BY <1>1 DEF End
  <1>4. TypeOK
    BY <1>1, <1>2 DEF Fresh, TypeOK
  <1>5. Bounded
    BY <1>1, <1>2 DEF Fresh, Bounded, Ascending
  <1>6. ToldOfLive
    BY DEF Fresh, ToldOfLive
  <1>7. Bases = {[state |-> <<>>, offset |-> 0]}
    BY <1>2 DEF Bases
  <1>8. \A b \in Bases : b.offset = 0 /\ b.state = <<>>
    BY <1>7
  <1> DEFINE z == 0
  <1>9. Span(0, 0) = <<>>
    <2>1. z \in Nat
      OBVIOUS
    <2> HIDE DEF z
    <2>2. Span(z, z) = <<>>
      BY <2>1, SpanEmpty
    <2>3. QED
      BY <2>2 DEF z
  <1>10. <<>> \o Span(0, 0) = <<>>
    BY <1>9
  <1>11. Numbered
    BY <1>1, <1>2, <1>3 DEF Fresh, Numbered
  <1>12. BasesAgree
    BY <1>8, <1>10 DEF BasesAgree
  <1>13. LiveAgrees
    <2>1. Folded = 0
      BY <1>3 DEF Fresh, Folded
    <2>2. ASSUME NEW b \in Bases
          PROVE  b.offset <= Folded /\ live = b.state \o Span(b.offset, Folded)
      <3>1. b.offset = 0 /\ b.state = <<>> /\ live = <<>>
        BY <1>8 DEF Fresh
      <3>2. live = b.state \o Span(b.offset, Folded)
        BY <1>10, <2>1, <3>1, Zenon
      <3>3. QED
        BY <2>1, <3>1, <3>2
    <2>3. QED
      BY <2>2 DEF LiveAgrees
  <1>14. PromisedAgrees
    <2>1. 0 \in Told
      BY <1>3 DEF Fresh, Told
    <2>2. ASSUME NEW b \in Bases
          PROVE  b.offset <= 0 /\ promised = b.state \o Span(b.offset, 0)
      <3>1. b.offset = 0 /\ b.state = <<>> /\ promised = <<>>
        BY <1>8 DEF Fresh
      <3>2. promised = b.state \o Span(b.offset, 0)
        BY <1>10, <3>1, Zenon
      <3>3. QED
        BY <3>1, <3>2
    <2>3. QED
      BY <2>1, <2>2 DEF PromisedAgrees
  <1>15. HeadAgrees
    BY <1>3, <1>9 DEF Fresh, HeadAgrees
  <1>16. QED
    BY <1>4, <1>5, <1>6, <1>11, <1>12, <1>13, <1>14, <1>15 DEF IInv, InOrder

LEMMA ApplyTickOrdered ==
  ASSUME IInv, ApplyTick
  PROVE  IInv'
  <1> DEFINE n == Len(wal)
  <1>1. /\ pc = "appended" /\ pc' = "applied" /\ live' = Append(live, n) /\ up
        /\ UNCHANGED <<wal, snaps, head, up, committed, promised>>
    BY DEF ApplyTick, disk, IInv, TypeOK
  <1>2. TypeOK /\ Bounded /\ NoNewSnapshot
    BY <1>1 DEF IInv, NoNewSnapshot
  <1>3. /\ n \in Nat /\ n > 0 /\ wal[n].written = "line"
        /\ Ascending(live, n - 1) /\ live \in Seq(Nat)
    BY <1>1, <1>2 DEF Bounded, TypeOK
  <1>4. End = n /\ OffsetOnBoundary(n)
    BY <1>3 DEF End, OffsetOnBoundary
  <1>5. TypeOK'
    BY <1>1, <1>2, <1>3 DEF TypeOK
  <1>6. Ascending(live', n)
    <2> HIDE DEF n
    <2>1. /\ DOMAIN live' = 1..Len(live) + 1 /\ Len(live) \in Nat
          /\ live'[Len(live) + 1] = n
          /\ \A i \in 1..Len(live) : live'[i] = live[i]
      BY <1>1, <1>3
    <2>2. /\ \A i \in 1..Len(live) : live[i] \in 1..n - 1
          /\ \A i, j \in 1..Len(live) : i < j => live[i] < live[j]
      BY <1>3 DEF Ascending
    <2>3. ASSUME NEW i \in DOMAIN live' PROVE live'[i] \in 1..n
      <3>1. CASE i \in 1..Len(live)
        <4>1. live'[i] \in 1..n - 1
          BY <2>1, <2>2, <3>1
        <4>2. QED
          BY <1>3, <4>1
      <3>2. CASE i = Len(live) + 1
        BY <1>3, <2>1, <3>2
      <3>3. QED
        BY <2>1, <3>1, <3>2
    <2>4. ASSUME NEW i \in DOMAIN live', NEW j \in DOMAIN live', i < j
          PROVE  live'[i] < live'[j]
      <3>1. i \in 1..Len(live)
        BY <2>1, <2>4
      <3>2. CASE j \in 1..Len(live)
        BY <2>1, <2>2, <2>4, <3>1, <3>2
      <3>3. CASE j = Len(live) + 1
        BY <1>3, <2>1, <2>2, <3>1, <3>3
      <3>4. QED
        BY <2>1, <3>2, <3>3
    <2>5. live' \in Seq(Nat)
      BY <1>1, <1>3
    <2>6. QED
      BY <2>3, <2>4, <2>5 DEF Ascending
  <1>7. Bounded'
    <2>1. SnapsBounded'
      BY <1>2, SnapsStayBounded
    <2>2. committed' <= Len(wal)'
      BY <1>1, <1>2 DEF Bounded
    <2>3. QED
      BY <1>1, <1>3, <1>6, <2>1, <2>2 DEF Bounded, SnapsBounded
  <1>8. ToldOfLive'
    BY <1>1 DEF ToldOfLive
  <1>9. ASSUME Unglued' PROVE InOrder'
    <2>1. /\ Unglued /\ InOrder /\ FilesInOrder' /\ End' = End /\ Bases' \subseteq Bases
      BY <1>2, <1>9, FilesStayInOrder
    <2>2. Numbered'
      BY <1>1, <2>1 DEF FilesInOrder, InOrder, Numbered
    <2>3. Folded = n - 1 /\ Folded' = n
      BY <1>1, <1>4, <2>1 DEF Folded
    <2>4. \A b \in Bases : b.state \in Seq(Nat) /\ b.offset \in Nat
      BY <1>2, BasesTyped DEF IsBase
    <2>5. \A b \in Bases : b.offset <= n - 1
      BY <1>1, <2>1, <2>3 DEF InOrder, LiveAgrees
    <2>6. ASSUME NEW b \in Bases', Clean(b.offset, n)
          PROVE  live' = b.state \o Span(b.offset, n)
      <3>1. b \in Bases /\ b.state \in Seq(Nat) /\ b.offset \in Nat /\ b.offset <= n - 1
        BY <2>1, <2>4, <2>5
      <3>3. Clean(b.offset, n - 1)
        BY <1>3, <2>6, <3>1, CleanParts
      <3>4. live = b.state \o Span(b.offset, n - 1)
        BY <1>1, <2>1, <2>3, <3>1, <3>3 DEF InOrder, LiveAgrees
      <3> DEFINE m == n - 1
                 s == b.state
      <3>5. m \in Nat /\ m + 1 = n
        BY <1>3
      <3>6. s \in Seq(Nat) /\ b.offset <= m /\ live = s \o Span(b.offset, m)
        BY <3>1, <3>4
      <3> HIDE DEF m, n, s
      <3>7. Append(s \o Span(b.offset, m), m + 1) = s \o Span(b.offset, m + 1)
        BY <3>1, <3>5, <3>6, SpanAppend
      <3>8. QED
        BY <1>1, <3>5, <3>6, <3>7 DEF s
    <2>7. LiveAgrees'
      <3>1. \A b \in Bases' : b.offset <= n
        BY <1>3, <2>1, <2>4, <2>5
      <3>2. \A b \in Bases' : Clean(b.offset, Folded)' <=> Clean(b.offset, n)
        BY <1>1, <2>3, SameLog
      <3>3. QED
        BY <2>3, <2>6, <3>1, <3>2 DEF LiveAgrees
    <2>8. PromisedAgrees'
      <3>1. Told' = Told
        BY <1>1, <2>1 DEF Told
      <3>2. QED
        BY <1>1, <1>2, <2>1, <3>1, PromisedStays DEF InOrder
    <2>9. HeadAgrees'
      BY <1>1, <2>1, HeadStays DEF InOrder
    <2>10. QED
      BY <2>1, <2>2, <2>7, <2>8, <2>9 DEF InOrder, FilesInOrder
  <1>10. QED
    BY <1>5, <1>7, <1>8, <1>9 DEF IInv

LEMMA ApplyThrowsOrdered ==
  ASSUME IInv, ApplyThrows
  PROVE  IInv'
  <1> DEFINE n == Len(wal)
             m == n - 1
  <1>1. /\ pc = "appended" /\ pc' = "idle" /\ ~Folds(live, n) /\ up
        /\ UNCHANGED <<wal, snaps, head, up, committed, live, promised>>
    BY DEF ApplyThrows, disk, IInv, TypeOK
  <1>2. TypeOK /\ Bounded /\ NoNewSnapshot
    BY <1>1 DEF IInv, NoNewSnapshot
  <1>3. /\ n \in Nat /\ m \in Nat /\ m + 1 = n /\ m <= n /\ wal[n].written = "line"
        /\ Ascending(live, m) /\ live \in Seq(Nat)
    BY <1>1, <1>2 DEF Bounded, TypeOK
  <1>4. End = n
    BY <1>3 DEF End
  <1>5. TypeOK'
    BY <1>1, <1>2 DEF TypeOK
  <1>6. Bounded'
    <2>1. SnapsBounded'
      BY <1>2, SnapsStayBounded
    <2>2. committed' <= Len(wal)' /\ Ascending(live', n)
      BY <1>1, <1>2, <1>3 DEF Bounded, Ascending
    <2>3. QED
      BY <1>1, <2>1, <2>2 DEF Bounded, SnapsBounded
  <1>7. ToldOfLive'
    BY <1>1 DEF ToldOfLive, IInv
  <1>8. ASSUME Unglued' PROVE InOrder'
    <2>1. /\ Unglued /\ InOrder /\ FilesInOrder' /\ End' = End /\ Bases' \subseteq Bases
      BY <1>2, <1>8, FilesStayInOrder
    <2>2. Numbered'
      BY <1>1, <2>1 DEF FilesInOrder, InOrder, Numbered
    <2>3. Folded = m /\ Folded' = n
      BY <1>1, <1>4, <2>1 DEF Folded
    <2>4. TicksRise
      BY <1>2, <2>1, NumberedTicks DEF InOrder, TypeOK
    <2>5. ASSUME NEW b \in Bases PROVE b.offset \in Nat /\ b.offset <= n /\ ~Clean(b.offset, n)
      <3>1. /\ b.state \in Seq(Nat) /\ b.offset \in Nat /\ Ascending(b.state, b.offset)
        BY <1>2, BasesTyped DEF IsBase
      <3>2. b.offset <= m
        BY <1>1, <2>1, <2>3 DEF InOrder, LiveAgrees
      <3>3. ASSUME Clean(b.offset, n) PROVE FALSE
        <4>1. Clean(b.offset, m + 1)
          BY <1>3, <3>3, Zenon
        <4>2. Clean(b.offset, m) /\ wal[m + 1].block \notin Poison
          BY <1>3, <3>1, <3>2, <4>1, CleanLast
        <4>3. live = b.state \o Span(b.offset, m)
          BY <1>1, <2>1, <2>3, <4>2 DEF InOrder, LiveAgrees
        <4>4. ~Folds(b.state \o Span(b.offset, m), m + 1)
          BY <1>1, <1>3, <4>3, Zenon
        <4>5. wal \in Seq(Writes) /\ m + 1 <= Len(wal)
          BY <1>2, <1>3 DEF TypeOK
        <4> HIDE DEF m, n
        <4>6. wal[m + 1].block \in Poison
          BY <1>3, <2>4, <3>1, <3>2, <4>4, <4>5, FoldNext
        <4>7. QED
          BY <4>2, <4>6
      <3>4. QED
        BY <1>3, <3>1, <3>2, <3>3
    <2>6. LiveAgrees'
      <3>1. \A b \in Bases' : Clean(b.offset, Folded)' <=> Clean(b.offset, n)
        BY <1>1, <2>3, SameLog
      <3>2. QED
        BY <2>1, <2>3, <2>5, <3>1 DEF LiveAgrees
    <2>7. PromisedAgrees'
      <3>1. \A b \in Bases' : Clean(b.offset, End)' <=> Clean(b.offset, n)
        BY <1>1, <1>4, <2>1, SameLog
      <3>2. QED
        BY <2>1, <2>5, <3>1 DEF PromisedAgrees
    <2>8. HeadAgrees'
      BY <1>1, <2>1, HeadStays DEF InOrder
    <2>9. QED
      BY <2>1, <2>2, <2>6, <2>7, <2>8 DEF InOrder, FilesInOrder
  <1>9. QED
    BY <1>5, <1>6, <1>7, <1>8 DEF IInv

LEMMA WriteHeadOrdered ==
  ASSUME IInv, WriteHead
  PROVE  IInv'
  <1>1. /\ pc = "applied" /\ pc' = "idle" /\ up
        /\ head' = [count |-> committed, state |-> live] /\ promised' = live
        /\ UNCHANGED <<wal, snaps, up, committed, live>>
    BY DEF WriteHead, IInv, TypeOK
  <1>2. TypeOK /\ Bounded /\ NoNewSnapshot
    BY <1>1 DEF IInv, NoNewSnapshot
  <1>3. TypeOK'
    BY <1>1, <1>2 DEF TypeOK
  <1>4. Bounded'
    <2>1. SnapsBounded'
      BY <1>2, SnapsStayBounded
    <2>2. committed' <= Len(wal)' /\ Ascending(live', Len(wal)')
      BY <1>1, <1>2 DEF Bounded
    <2>3. QED
      BY <1>1, <2>1, <2>2 DEF Bounded, SnapsBounded
  <1>5. ToldOfLive'
    BY <1>1 DEF ToldOfLive
  <1>6. ASSUME Unglued' PROVE InOrder'
    <2>1. /\ Unglued /\ InOrder /\ FilesInOrder' /\ End' = End /\ Bases' \subseteq Bases
      BY <1>2, <1>6, FilesStayInOrder
    <2>2. Numbered' /\ committed = End
      BY <1>1, <2>1 DEF FilesInOrder, InOrder, Numbered
    <2>3. Folded = End /\ Folded' = Folded /\ Told' = {End} /\ End \in Nat
      BY <1>1, <1>2, <2>1, EndIs DEF Folded, Told
    <2>4. LiveAgrees'
      BY <1>1, <1>2, <2>1, <2>3, LiveStays DEF InOrder
    <2>5. \A b \in Bases :
            b.offset <= End /\ (Clean(b.offset, End) => live = b.state \o Span(b.offset, End))
      BY <1>1, <2>1, <2>3 DEF InOrder, LiveAgrees
    <2>6. PromisedAgrees'
      <3>1. \A b \in Bases' : Clean(b.offset, End)' <=> Clean(b.offset, End)
        BY <1>1, <2>1, SameLog
      <3>2. QED
        BY <1>1, <2>1, <2>3, <2>5, <3>1 DEF PromisedAgrees
    <2>7. HeadAgrees'
      <3>1. Clean(0, End) => live = <<>> \o Span(0, End)
        BY <2>5, BasesAre
      <3>2. <<>> \o Span(0, End) = Span(0, End)
        BY <2>3, SpanSeq, ConcatEmptySeq
      <3>3. head'.count = End /\ head'.state = live
        BY <1>1, <2>2
      <3>4. Clean(0, head.count)' <=> Clean(0, End)
        BY <1>1, <3>3, SameLog
      <3>5. QED
        BY <2>1, <2>3, <3>1, <3>2, <3>3, <3>4 DEF HeadAgrees
    <2>8. QED
      BY <2>1, <2>2, <2>4, <2>6, <2>7 DEF InOrder, FilesInOrder
  <1>7. QED
    BY <1>3, <1>4, <1>5, <1>6 DEF IInv

(* The process stops, with head.json as it was or cut short. *)
LEMMA StopOrdered ==
  ASSUME IInv, Stop, UNCHANGED <<wal, snaps, promised>>, head' \in {head, Torn}
  PROVE  IInv'
  <1>1. up' = FALSE /\ pc' = "idle" /\ committed' = 0 /\ live' = <<>>
    BY DEF Stop
  <1>2. TypeOK /\ Bounded /\ NoNewSnapshot
    BY DEF IInv, NoNewSnapshot
  <1>3. TypeOK'
    <2>1. head' \in [count : Nat, state : Seq(Nat)] \cup {Torn}
      BY <1>2 DEF TypeOK
    <2>2. wal' \in Seq(Writes) /\ live' \in Seq(Nat) /\ promised' \in Seq(Nat)
      BY <1>1, <1>2 DEF TypeOK
    <2>3. QED
      BY <1>1, <1>2, <2>1, <2>2 DEF TypeOK
  <1>4. Bounded'
    <2>1. SnapsBounded'
      BY <1>2, SnapsStayBounded
    <2>2. committed' <= Len(wal)' /\ Ascending(live', Len(wal)')
      BY <1>1, <1>2 DEF TypeOK, Ascending
    <2>3. QED
      BY <1>1, <2>1, <2>2 DEF Bounded, SnapsBounded
  <1>5. ToldOfLive'
    BY <1>1 DEF ToldOfLive
  <1>6. ASSUME Unglued' PROVE InOrder'
    <2>1. /\ Unglued /\ InOrder /\ FilesInOrder' /\ End' = End /\ Bases' \subseteq Bases
      BY <1>2, <1>6, FilesStayInOrder
    <2>2. Numbered' /\ LiveAgrees'
      BY <1>1, <2>1 DEF FilesInOrder, Numbered, LiveAgrees
    <2>3. Told \subseteq Told'
      BY <1>1, <2>1 DEF Told
    <2>4. PromisedAgrees'
      BY <1>2, <2>1, <2>3, PromisedStays DEF InOrder
    <2>5. HeadAgrees'
      <3>1. CASE head' = head
        BY <2>1, <3>1, HeadStays DEF InOrder
      <3>2. CASE head' = Torn
        BY <3>2 DEF HeadAgrees
      <3>3. QED
        BY <3>1, <3>2
    <2>6. QED
      BY <2>1, <2>2, <2>4, <2>5 DEF InOrder, FilesInOrder
  <1>7. QED
    BY <1>3, <1>4, <1>5, <1>6 DEF IInv

(* A snapshot is removed, or goes bad. *)
LEMMA SnapshotLostOrdered ==
  ASSUME IInv, NoNewSnapshot, UNCHANGED <<head, up, committed, live, promised>>,
         DOMAIN snaps' \subseteq Nat,
         snaps' \in [DOMAIN snaps' -> [state : Seq(Nat), offset : Nat, intact : BOOLEAN]],
         (pc \in {"idle", "pruning"} /\ pc' \in {"idle", "pruning"}) \/ pc' = pc,
         pc' # "idle" => pc # "idle"
  PROVE  IInv'
  <1>1. wal' = wal
    BY DEF NoNewSnapshot
  <1>2. TypeOK /\ Bounded
    BY DEF IInv
  <1>3. TypeOK'
    BY <1>1, <1>2 DEF TypeOK
  <1>4. /\ (pc' \in {"appended", "applied"}) <=> (pc \in {"appended", "applied"})
        /\ (pc' = "appended") <=> (pc = "appended")
        /\ (pc' = "applied") <=> (pc = "applied")
    OBVIOUS
  <1>5. Bounded'
    <2>1. SnapsBounded'
      BY <1>2, SnapsStayBounded
    <2>2. QED
      BY <1>1, <1>2, <1>4, <2>1 DEF Bounded, SnapsBounded
  <1>6. ToldOfLive'
    BY <1>4 DEF ToldOfLive, IInv
  <1>7. ASSUME Unglued' PROVE InOrder'
    <2>1. /\ Unglued /\ InOrder /\ FilesInOrder' /\ End' = End /\ Bases' \subseteq Bases
      BY <1>7, FilesStayInOrder
    <2>2. Numbered'
      BY <2>1 DEF FilesInOrder, InOrder, Numbered
    <2>3. Told' = Told /\ Folded' = Folded
      BY <1>4, <2>1 DEF Told, Folded
    <2>4. LiveAgrees'
      <3>1. CASE up
        BY <2>1, <2>3, <3>1, LiveStays DEF InOrder
      <3>2. CASE ~up
        BY <3>2 DEF LiveAgrees
      <3>3. QED
        BY <3>1, <3>2
    <2>5. PromisedAgrees'
      BY <2>1, <2>3, PromisedStays DEF InOrder
    <2>6. HeadAgrees'
      BY <1>1, <2>1, HeadStays DEF InOrder
    <2>7. QED
      BY <2>1, <2>2, <2>4, <2>5, <2>6 DEF InOrder, FilesInOrder
  <1>8. QED
    BY <1>3, <1>5, <1>6, <1>7 DEF IInv

LEMMA PruneOrdered ==
  ASSUME IInv, Prune
  PROVE  IInv'
  <1>1. /\ pc = "pruning" /\ pc' \in {"idle", "pruning"}
        /\ UNCHANGED <<wal, head, up, committed, live, promised>>
    BY DEF Prune
  <1>2. DOMAIN snaps \subseteq Nat
        /\ snaps \in [DOMAIN snaps -> [state : Seq(Nat), offset : Nat, intact : BOOLEAN]]
    BY DEF IInv, TypeOK
  <1>3. CASE Excess = {}
    <2>1. snaps' = snaps
      BY <1>3 DEF Prune
    <2>2. NoNewSnapshot
      BY <1>1, <2>1 DEF NoNewSnapshot
    <2>3. QED
      BY <1>1, <1>2, <2>1, <2>2, SnapshotLostOrdered
  <1>4. CASE Excess # {}
    <2> DEFINE kept == DOMAIN snaps \ {Max(Excess)}
    <2>1. snaps' = [c \in kept |-> snaps[c]]
      BY <1>4 DEF Prune, Restrict
    <2>2. kept \subseteq DOMAIN snaps
      OBVIOUS
    <2> HIDE DEF kept
    <2>3. NoNewSnapshot
      BY <1>1, <2>1, <2>2 DEF NoNewSnapshot
    <2>4. /\ DOMAIN snaps' \subseteq Nat
          /\ snaps' \in [DOMAIN snaps' -> [state : Seq(Nat), offset : Nat, intact : BOOLEAN]]
      BY <1>2, <2>1, <2>2
    <2>5. QED
      BY <1>1, <2>3, <2>4, SnapshotLostOrdered
  <1>5. QED
    BY <1>3, <1>4

LEMMA RotOrdered ==
  ASSUME IInv, NEW covered \in DOMAIN snaps, Rot(covered)
  PROVE  IInv'
  <1>1. /\ snaps' = [snaps EXCEPT ![covered].intact = FALSE]
        /\ UNCHANGED <<wal, head, up, pc, committed, live, promised>>
    BY DEF Rot, process
  <1>2. DOMAIN snaps \subseteq Nat
        /\ snaps \in [DOMAIN snaps -> [state : Seq(Nat), offset : Nat, intact : BOOLEAN]]
    BY DEF IInv, TypeOK
  <1>3. /\ DOMAIN snaps' = DOMAIN snaps
        /\ \A c \in DOMAIN snaps : snaps'[c].state = snaps[c].state
                                   /\ snaps'[c].offset = snaps[c].offset
    BY <1>1, <1>2
  <1>4. NoNewSnapshot
    BY <1>1, <1>3 DEF NoNewSnapshot
  <1>5. snaps' \in [DOMAIN snaps' -> [state : Seq(Nat), offset : Nat, intact : BOOLEAN]]
    BY <1>1, <1>2
  <1>6. QED
    BY <1>1, <1>2, <1>3, <1>4, <1>5, SnapshotLostOrdered

LEMMA OpenOrdered ==
  ASSUME IInv, NEW opened, Open(opened), Sound(opened),
         Unglued /\ Numbered => FromBase(opened)
  PROVE  IInv'
  <1>1. /\ ~up /\ up' = TRUE /\ opened.state # Refused
        /\ committed' = opened.committed /\ live' = opened.state /\ promised' = opened.state
        /\ UNCHANGED <<wal, snaps, head, pc>>
    BY DEF Open, disk
  <1>2. TypeOK /\ Bounded /\ NoNewSnapshot /\ pc = "idle"
    BY <1>1 DEF IInv, NoNewSnapshot, TypeOK
  <1>3. opened.committed \in 0..Len(wal) /\ Ascending(opened.state, Len(wal))
    BY <1>1 DEF Sound
  <1>4. TypeOK'
    BY <1>1, <1>2, <1>3 DEF TypeOK, Ascending
  <1>5. Bounded'
    <2>1. SnapsBounded'
      BY <1>2, SnapsStayBounded
    <2>2. committed' <= Len(wal)' /\ Ascending(live', Len(wal)')
      BY <1>1, <1>3
    <2>3. QED
      BY <1>1, <1>2, <2>1, <2>2 DEF Bounded, SnapsBounded
  <1>6. ToldOfLive'
    BY <1>1 DEF ToldOfLive
  <1>7. ASSUME Unglued' PROVE InOrder'
    <2>1. /\ Unglued /\ InOrder /\ FilesInOrder' /\ End' = End /\ Bases' \subseteq Bases
      BY <1>2, <1>7, FilesStayInOrder
    <2>2. /\ Numbered /\ BasesAgree /\ End \in Nat
      BY <1>2, <2>1, EndIs DEF InOrder
    <2>3. PICK a \in Bases : /\ opened.committed = End /\ a.offset <= End
                             /\ opened.state = a.state \o Span(a.offset, End)
                             /\ Clean(a.offset, End)
      BY <1>1, <2>1, <2>2 DEF FromBase
    <2>4. Numbered'
      BY <1>1, <2>1, <2>3 DEF FilesInOrder, Numbered
    <2>5. Folded' = End /\ Told' = {End}
      BY <1>1, <1>2, <2>1 DEF Folded, Told
    <2>6. ASSUME NEW b \in Bases
          PROVE  /\ b.offset <= End
                 /\ Clean(b.offset, End) => opened.state = b.state \o Span(b.offset, End)
      <3>1. b.offset \in 0..Len(wal) /\ OffsetOnBoundary(b.offset)
        BY <1>2, BasesTyped DEF IsBase
      <3>2. b.offset <= End
        BY <1>2, <2>1, <3>1, EndIs
      <3>3. QED
        BY <1>2, <2>2, <2>3, <3>2, BasesMeet
    <2>7. \A b \in Bases' : /\ Clean(b.offset, Folded)' <=> Clean(b.offset, End)
                            /\ Clean(b.offset, End)' <=> Clean(b.offset, End)
      BY <1>1, <2>1, <2>5, SameLog
    <2>8. LiveAgrees'
      BY <1>1, <2>1, <2>5, <2>6, <2>7 DEF LiveAgrees
    <2>9. PromisedAgrees'
      <3>1. ASSUME NEW b \in Bases', Clean(b.offset, End)'
            PROVE  b.offset <= End /\ promised' = b.state \o Span(b.offset, End)
        BY <1>1, <2>1, <2>6, <2>7, <3>1
      <3>2. QED
        BY <2>5, <3>1 DEF PromisedAgrees
    <2>10. HeadAgrees'
      BY <1>1, <2>1, HeadStays DEF InOrder
    <2>11. QED
      BY <2>1, <2>4, <2>8, <2>9, <2>10 DEF InOrder, FilesInOrder
  <1>8. QED
    BY <1>4, <1>5, <1>6, <1>7 DEF IInv

(* A new snapshot is one more base, if a line ends where the log does. *)
LEMMA PublishedIs ==
  ASSUME TypeOK, PublishSnapshot
  PROVE  /\ DOMAIN snaps' = DOMAIN snaps \cup {committed}
         /\ snaps'[committed] = [state |-> live, offset |-> Len(wal), intact |-> TRUE]
         /\ \A c \in DOMAIN snaps : c # committed => snaps'[c] = snaps[c]
         /\ snaps' \in [DOMAIN snaps' -> [state : Seq(Nat), offset : Nat, intact : BOOLEAN]]
  <1> DEFINE r == [state |-> live, offset |-> Len(wal), intact |-> TRUE]
  <1>1. r \in [state : Seq(Nat), offset : Nat, intact : BOOLEAN]
    BY DEF TypeOK
  <1>2. snaps' = [c \in DOMAIN snaps \cup {committed} |->
                    IF c = committed THEN r ELSE snaps[c]]
    BY DEF PublishSnapshot
  <1> HIDE DEF r
  <1>4. snaps \in [DOMAIN snaps -> [state : Seq(Nat), offset : Nat, intact : BOOLEAN]]
    BY DEF TypeOK
  <1>5. /\ DOMAIN snaps' = DOMAIN snaps \cup {committed}
        /\ snaps'[committed] = r
        /\ \A c \in DOMAIN snaps : c # committed => snaps'[c] = snaps[c]
    BY <1>2
  <1>6. snaps' \in [DOMAIN snaps' -> [state : Seq(Nat), offset : Nat, intact : BOOLEAN]]
    BY <1>1, <1>2, <1>4
  <1>7. QED
    BY <1>5, <1>6 DEF r

LEMMA PublishedBases ==
  ASSUME TypeOK, PublishSnapshot, NEW b \in Bases'
  PROVE  \/ b \in Bases
         \/ b = [state |-> live, offset |-> Len(wal)] /\ OffsetOnBoundary(Len(wal))
  <1> DEFINE z == [state |-> <<>>, offset |-> 0]
  <1>1. CASE b = z
    BY <1>1, BasesAre
  <1>2. CASE b # z
    <2>1. PICK c \in DOMAIN snaps' :
            /\ OffsetOnBoundary(snaps[c].offset)'
            /\ b = [state |-> snaps'[c].state, offset |-> snaps'[c].offset]
      BY <1>2 DEF Bases
    <2>2. wal' = wal
      BY DEF PublishSnapshot
    <2>3. OffsetOnBoundary(snaps'[c].offset)
      BY <2>1, <2>2 DEF OffsetOnBoundary
    <2>4. CASE c = committed
      <3>1. snaps'[c] = [state |-> live, offset |-> Len(wal), intact |-> TRUE]
        BY <2>4, PublishedIs
      <3>2. snaps'[c].state = live /\ snaps'[c].offset = Len(wal)
        BY <3>1
      <3>3. QED
        BY <2>1, <2>3, <3>2
    <2>5. CASE c # committed
      <3>1. c \in DOMAIN snaps /\ snaps'[c] = snaps[c]
        BY <2>5, PublishedIs
      <3>2. QED
        BY <2>1, <2>3, <3>1, BasesAre
    <2>6. QED
      BY <2>4, <2>5
  <1>3. QED
    BY <1>1, <1>2

LEMMA PublishSnapshotOrdered ==
  ASSUME IInv, PublishSnapshot
  PROVE  IInv'
  <1> DEFINE n == Len(wal)
             new == [state |-> live, offset |-> n]
  <1>1. /\ up /\ pc = "idle" /\ pc' = "pruning"
        /\ UNCHANGED <<wal, head, up, committed, live, promised>>
    BY DEF PublishSnapshot
  <1>2. TypeOK /\ Bounded /\ n \in Nat /\ committed \in Nat
    BY DEF IInv, TypeOK
  <1>3. /\ DOMAIN snaps' = DOMAIN snaps \cup {committed}
        /\ snaps'[committed] = [state |-> live, offset |-> n, intact |-> TRUE]
        /\ \A c \in DOMAIN snaps : c # committed => snaps'[c] = snaps[c]
        /\ snaps' \in [DOMAIN snaps' -> [state : Seq(Nat), offset : Nat, intact : BOOLEAN]]
    BY <1>2, PublishedIs
  <1>4. TypeOK'
    BY <1>1, <1>2, <1>3 DEF TypeOK
  <1>5. committed <= n /\ Ascending(live, n)
    BY <1>1, <1>2 DEF Bounded
  <1>6. Bounded'
    <2>1. ASSUME NEW c \in DOMAIN snaps'
          PROVE  /\ c <= snaps'[c].offset
                 /\ snaps'[c].offset <= n
                 /\ Ascending(snaps'[c].state, snaps'[c].offset)
      <3>1. CASE c = committed
        <4>1. snaps'[c].state = live /\ snaps'[c].offset = n
          BY <1>3, <3>1
        <4>2. QED
          BY <1>2, <1>5, <3>1, <4>1
      <3>2. CASE c # committed
        BY <1>2, <1>3, <3>2 DEF Bounded
      <3>3. QED
        BY <3>1, <3>2
    <2>2. QED
      BY <1>1, <1>5, <2>1 DEF Bounded
  <1>7. promised = live /\ ToldOfLive'
    BY <1>1 DEF ToldOfLive, IInv
  <1>8. ASSUME Unglued' PROVE InOrder'
    <2>1. /\ End' = End /\ Unglued
          /\ \A o : OffsetOnBoundary(o)' <=> OffsetOnBoundary(o)
          /\ \A i, j : Clean(i, j)' <=> Clean(i, j)
      BY <1>1, <1>8, SameLog
    <2>2. InOrder
      BY <2>1 DEF IInv
    <2>3. /\ End \in Nat /\ committed = End /\ (OffsetOnBoundary(n) => End = n)
      BY <1>1, <1>2, <2>2, EndIs DEF InOrder, Numbered
    <2>4. Folded = End /\ Folded' = End /\ Told' = {End} /\ Told = {End}
      BY <1>1, <2>1 DEF Folded, Told
    <2>5. Numbered'
      <3>1. ASSUME NEW c \in DOMAIN snaps', OffsetOnBoundary(snaps[c].offset)'
            PROVE  c = snaps'[c].offset
        <4>1. OffsetOnBoundary(snaps'[c].offset)
          BY <1>1, <3>1 DEF OffsetOnBoundary
        <4>2. CASE c = committed
          <5>1. snaps'[c].offset = n
            BY <1>3, <4>2
          <5>2. QED
            BY <2>3, <4>1, <4>2, <5>1
        <4>3. CASE c # committed
          BY <1>3, <2>2, <4>1, <4>3 DEF InOrder, Numbered
        <4>4. QED
          BY <4>2, <4>3
      <3>2. (\A i \in DOMAIN wal : wal[i].tick = i - 1)'
        BY <1>1, <2>2 DEF InOrder, Numbered
      <3>3. QED
        BY <1>1, <2>1, <2>3, <3>1, <3>2 DEF Numbered
    <2>6. \A b \in Bases : /\ b.state \in Seq(Nat) /\ b.offset \in Nat /\ b.offset <= n
      BY <1>2, BasesTyped DEF IsBase
    <2>7. \A b \in Bases : /\ b.offset <= End
                           /\ Clean(b.offset, End) => live = b.state \o Span(b.offset, End)
      BY <1>1, <2>2, <2>4 DEF InOrder, LiveAgrees
    <2>8. new.state = live /\ new.offset = n /\ live \in Seq(Nat)
      BY <1>2 DEF TypeOK
    <2>9. live \o Span(n, n) = live
      BY <1>2, <2>8, SpanOfNone
    <2>10. \A b \in Bases' : b \in Bases \/ (b = new /\ End = n)
      BY <1>2, <2>3, PublishedBases
    <2> HIDE DEF new, n
    <2>11. ASSUME NEW b \in Bases'
           PROVE  /\ b.offset <= End
                  /\ Clean(b.offset, End) => live = b.state \o Span(b.offset, End)
      <3>1. CASE b \in Bases
        BY <2>7, <3>1
      <3>2. CASE b = new /\ End = n
        <4>1. b.state = live /\ b.offset = n
          BY <2>8, <3>2
        <4>2. live = b.state \o Span(b.offset, End)
          BY <2>9, <3>2, <4>1, Zenon
        <4>3. QED
          BY <2>3, <3>2, <4>1, <4>2
      <3>3. QED
        BY <2>10, <3>1, <3>2
    <2>12. LiveAgrees'
      BY <1>1, <2>1, <2>4, <2>11 DEF LiveAgrees
    <2>13. PromisedAgrees'
      <3>1. ASSUME NEW b \in Bases', Clean(b.offset, End)'
            PROVE  b.offset <= End /\ promised' = b.state \o Span(b.offset, End)
        BY <1>1, <1>7, <2>1, <2>11, <3>1
      <3>2. QED
        BY <2>4, <3>1 DEF PromisedAgrees
    <2>14. BasesAgree'
      <3>1. ASSUME NEW a \in Bases', NEW b \in Bases',
                   a.offset <= b.offset, Clean(a.offset, b.offset)'
            PROVE  b.state = a.state \o Span(a.offset, b.offset)
        <4>1. Clean(a.offset, b.offset)
          BY <2>1, <3>1
        <4>2. CASE a \in Bases /\ b \in Bases
          BY <2>2, <3>1, <4>1, <4>2 DEF InOrder, BasesAgree
        <4>3. CASE b = new /\ End = n
          BY <2>8, <2>11, <4>1, <4>3
        <4>4. CASE a = new /\ End = n /\ b \in Bases
          <5>1. b.offset = n /\ a.offset = n /\ a.state = live
            BY <1>2, <2>6, <2>8, <3>1, <4>4
          <5>2. Clean(b.offset, End)
            BY <1>2, <4>4, <5>1 DEF Clean
          <5>3. live = b.state \o Span(n, n)
            BY <2>7, <4>4, <5>1, <5>2
          <5>4. b.state \o Span(n, n) = b.state
            BY <1>2, <2>6, <4>4, SpanOfNone
          <5>5. QED
            BY <2>9, <5>1, <5>3, <5>4
        <4>5. QED
          BY <2>10, <4>2, <4>3, <4>4
      <3>2. QED
        BY <3>1 DEF BasesAgree
    <2>15. HeadAgrees'
      BY <1>1, <2>2, HeadStays DEF InOrder
    <2>16. QED
      BY <2>5, <2>12, <2>13, <2>14, <2>15 DEF InOrder
  <1>9. QED
    BY <1>4, <1>6, <1>7, <1>8 DEF IInv

(* One more write: it can only be told apart from the end of the log, and    *)
(* where nothing is glued to a torn write, all those before it are whole.    *)
LogGrows(x) ==
  /\ x \in Writes
  /\ x.tick = committed
  /\ up
  /\ wal' = Append(wal, x)
  /\ UNCHANGED <<snaps, head, promised>>

LEMMA GrownLog ==
  ASSUME TypeOK, NEW x, LogGrows(x)
  PROVE  /\ wal' \in Seq(Writes)
         /\ Len(wal') = Len(wal) + 1 /\ Len(wal) \in Nat
         /\ wal'[Len(wal) + 1] = x
         /\ \A i \in 1..Len(wal) : wal'[i] = wal[i]
         /\ \A o \in 0..Len(wal) : OffsetOnBoundary(o)' <=> OffsetOnBoundary(o)
         /\ \A n, m \in Nat : m <= Len(wal) => (Clean(n, m)' <=> Clean(n, m))
  <1>1. /\ wal' \in Seq(Writes)
        /\ Len(wal') = Len(wal) + 1 /\ Len(wal) \in Nat
        /\ wal'[Len(wal) + 1] = x
        /\ \A i \in 1..Len(wal) : wal'[i] = wal[i]
    BY DEF TypeOK, LogGrows
  <1>2. \A o \in 0..Len(wal) : OffsetOnBoundary(o)' <=> OffsetOnBoundary(o)
    BY <1>1 DEF OffsetOnBoundary
  <1>3. \A n, m \in Nat : m <= Len(wal) => (Clean(n, m)' <=> Clean(n, m))
    <2> SUFFICES ASSUME NEW n \in Nat, NEW m \in Nat, m <= Len(wal)
                 PROVE  Clean(n, m)' <=> Clean(n, m)
      OBVIOUS
    <2>1. \A i \in n + 1..m : wal'[i] = wal[i]
      BY <1>1
    <2>2. QED
      BY <2>1 DEF Clean
  <1>4. QED
    BY <1>1, <1>2, <1>3

LEMMA GrownBases ==
  ASSUME TypeOK, Bounded, NEW x, LogGrows(x)
  PROVE  Bases' = Bases
  <1>1. \A c \in DOMAIN snaps : snaps[c].offset \in 0..Len(wal)
    BY DEF TypeOK, Bounded
  <1>2. \A c \in DOMAIN snaps : OffsetOnBoundary(snaps[c].offset)' <=> OffsetOnBoundary(snaps[c].offset)
    <2>1. snaps' = snaps
      BY DEF LogGrows
    <2>2. \A o \in 0..Len(wal) : OffsetOnBoundary(o)' <=> OffsetOnBoundary(o)
      BY GrownLog
    <2>3. QED
      BY <1>1, <2>1, <2>2 DEF OffsetOnBoundary
  <1>3. snaps' = snaps
    BY DEF LogGrows
  <1>4. {d \in DOMAIN snaps' : OffsetOnBoundary(snaps[d].offset)'}
          = {d \in DOMAIN snaps : OffsetOnBoundary(snaps[d].offset)}
    BY <1>2, <1>3
  <1>5. QED
    BY <1>3, <1>4 DEF Bases

LEMMA GrownOrder ==
  ASSUME IInv, NEW x, LogGrows(x), Unglued'
  PROVE  /\ Unglued /\ InOrder /\ FilesInOrder'
         /\ End = Len(wal) /\ committed = End
         /\ End' = IF x.written = "part" THEN End ELSE End + 1
  <1>1. TypeOK /\ Bounded /\ up
    BY DEF IInv, LogGrows
  <1>2. /\ wal' \in Seq(Writes)
        /\ Len(wal') = Len(wal) + 1 /\ Len(wal) \in Nat
        /\ wal'[Len(wal) + 1] = x
        /\ \A i \in 1..Len(wal) : wal'[i] = wal[i]
    BY <1>1, GrownLog
  <1>3. \A i \in 1..Len(wal) : wal[i].written = "line"
    BY <1>2 DEF Unglued
  <1>4. Unglued /\ End = Len(wal)
    BY <1>2, <1>3 DEF Unglued, End
  <1>5. InOrder /\ committed = End
    BY <1>1, <1>4 DEF IInv, InOrder, Numbered
  <1>6. End' = IF x.written = "part" THEN End ELSE End + 1
    BY <1>2, <1>4 DEF End
  <1>7. Bases' = Bases
    BY <1>1, GrownBases
  <1>8. (\A i \in DOMAIN wal : wal[i].tick = i - 1)'
    <2>1. DOMAIN wal' = 1..Len(wal) + 1 /\ DOMAIN wal = 1..Len(wal)
      BY <1>1, <1>2 DEF TypeOK
    <2>2. x.tick = Len(wal)
      BY <1>4, <1>5 DEF LogGrows
    <2>3. ASSUME NEW i \in 1..Len(wal) + 1 PROVE wal'[i].tick = i - 1
      <3>1. CASE i = Len(wal) + 1
        BY <1>2, <2>2, <3>1
      <3>2. CASE i # Len(wal) + 1
        <4>1. i \in 1..Len(wal)
          BY <1>2, <3>2
        <4>2. QED
          BY <1>2, <1>5, <2>1, <4>1 DEF InOrder, Numbered
      <3>3. QED
        BY <3>1, <3>2
    <2>4. QED
      BY <2>1, <2>3
  <1>9. (\A c \in DOMAIN snaps : OffsetOnBoundary(snaps[c].offset) => c = snaps[c].offset)'
    <2>1. snaps' = snaps
      BY DEF LogGrows
    <2>2. ASSUME NEW c \in DOMAIN snaps, OffsetOnBoundary(snaps[c].offset)'
          PROVE  c = snaps[c].offset
      <3>1. snaps[c].offset \in 0..Len(wal)
        BY <1>1 DEF TypeOK, Bounded
      <3>2. OffsetOnBoundary(snaps[c].offset)
        BY <1>2, <2>1, <2>2, <3>1 DEF OffsetOnBoundary
      <3>3. QED
        BY <1>5, <3>2 DEF InOrder, Numbered
    <2>3. QED
      BY <2>1, <2>2
  <1>10. BasesAgree'
    <2>1. ASSUME NEW a \in Bases', NEW b \in Bases',
                 a.offset <= b.offset, Clean(a.offset, b.offset)'
          PROVE  b.state = a.state \o Span(a.offset, b.offset)
      <3>1. a \in Bases /\ b \in Bases
        BY <1>7
      <3>2. a.offset \in Nat /\ b.offset \in Nat /\ b.offset <= Len(wal)
        BY <1>1, <3>1, BasesTyped DEF IsBase
      <3>3. Clean(a.offset, b.offset)
        BY <1>1, <2>1, <3>2, GrownLog
      <3>4. QED
        BY <1>5, <2>1, <3>1, <3>3 DEF InOrder, BasesAgree
    <2>2. QED
      BY <2>1 DEF BasesAgree
  <1>11. QED
    BY <1>4, <1>5, <1>6, <1>8, <1>9, <1>10 DEF FilesInOrder

(* What was told and what head.json claims is behind by at most that write.  *)
LEMMA GrownPromise ==
  ASSUME IInv, NEW x, LogGrows(x), Unglued', pc = "idle", End \in Told'
  PROVE  PromisedAgrees' /\ HeadAgrees'
  <1>1. TypeOK /\ Bounded /\ up /\ head' = head /\ promised' = promised
    BY DEF IInv, LogGrows
  <1>2. /\ InOrder /\ End = Len(wal)
        /\ End' = IF x.written = "part" THEN End ELSE End + 1
    BY GrownOrder
  <1>3. /\ Len(wal) \in Nat /\ Len(wal') = Len(wal) + 1
        /\ End \in Nat /\ End' \in Nat /\ End <= End'
    BY <1>1, <1>2, GrownLog
  <1>4. Bases' = Bases
    BY <1>1, GrownBases
  <1>5. ASSUME NEW b \in Bases', Clean(b.offset, End)'
        PROVE  b.offset <= End /\ promised' = b.state \o Span(b.offset, End)
    <2>1. b \in Bases /\ b.offset \in Nat /\ b.offset <= End
      BY <1>1, <1>2, <1>4, BasesTyped DEF IsBase
    <2>2. \A i \in b.offset + 1..End' : wal'[i].block \notin Poison
      BY <1>5 DEF Clean
    <2>3. \A i \in b.offset + 1..End : wal[i].block \notin Poison
      <3>1. \A i \in b.offset + 1..End : i \in b.offset + 1..End' /\ i \in 1..Len(wal)
        BY <1>2, <1>3, <2>1
      <3>2. QED
        BY <1>1, <2>2, <3>1, GrownLog
    <2>4. Clean(b.offset, End)
      BY <2>3 DEF Clean
    <2>5. Told = {End}
      BY <1>1 DEF Told
    <2>6. QED
      BY <1>1, <1>2, <2>1, <2>4, <2>5 DEF InOrder, PromisedAgrees
  <1>6. PromisedAgrees'
    BY <1>5 DEF PromisedAgrees
  <1>7. HeadAgrees'
    <2> SUFFICES ASSUME head # Torn, Clean(0, head.count)'
                 PROVE  head.state = Span(0, head.count)
      <3>1. head # Torn => head.count \in Nat /\ head.count <= End
        BY <1>1, <1>2 DEF TypeOK, InOrder, HeadAgrees
      <3>2. QED
        BY <1>1, <1>3, <3>1 DEF HeadAgrees
    <2>1. head.count \in Nat /\ head.count <= Len(wal)
      BY <1>1, <1>2 DEF TypeOK, InOrder, HeadAgrees
    <2>2. Clean(0, head.count)
      BY <1>1, <2>1, GrownLog
    <2>3. QED
      BY <1>2, <2>2 DEF InOrder, HeadAgrees
  <1>8. QED
    BY <1>6, <1>7

LEMMA GrownBounds ==
  ASSUME IInv, NEW x, LogGrows(x)
  PROVE  SnapsBounded'
  <1>1. TypeOK /\ Bounded /\ snaps' = snaps
    BY DEF IInv, LogGrows
  <1>2. Len(wal) \in Nat /\ Len(wal') = Len(wal) + 1
    BY <1>1, GrownLog
  <1>3. ASSUME NEW c \in DOMAIN snaps
        PROVE  /\ c <= snaps[c].offset
               /\ snaps[c].offset <= Len(wal')
               /\ Ascending(snaps[c].state, snaps[c].offset)
    <2>1. snaps[c].offset \in Nat /\ snaps[c].offset <= Len(wal)
      BY <1>1 DEF TypeOK, Bounded
    <2>2. QED
      BY <1>1, <1>2, <2>1 DEF Bounded
  <1>4. QED
    BY <1>1, <1>3 DEF SnapsBounded

LEMMA AppendLineOrdered ==
  ASSUME IInv, NEW b \in Blocks, AppendLine(b)
  PROVE  IInv'
  <1> DEFINE x == [tick |-> committed, block |-> b, written |-> "line"]
  <1>1. /\ up /\ pc = "idle" /\ pc' = "appended" /\ up' = up /\ live' = live
        /\ committed' = committed + 1 /\ wal' = Append(wal, x)
        /\ UNCHANGED <<snaps, head, promised>>
    BY DEF AppendLine, Write
  <1>2. TypeOK /\ Bounded
    BY DEF IInv
  <1>3. x \in Writes /\ x.tick = committed /\ x.written = "line"
    BY <1>2 DEF Writes, TypeOK
  <1> HIDE DEF x
  <1>4. LogGrows(x)
    BY <1>1, <1>3 DEF LogGrows
  <1>5. /\ wal' \in Seq(Writes)
        /\ Len(wal') = Len(wal) + 1 /\ Len(wal) \in Nat
        /\ wal'[Len(wal) + 1] = x
    BY <1>2, <1>4, GrownLog
  <1>6. TypeOK'
    BY <1>1, <1>2, <1>5 DEF TypeOK
  <1>7. Bounded'
    <2>1. SnapsBounded'
      BY <1>4, GrownBounds
    <2>2. Ascending(live', Len(wal') - 1)
      BY <1>1, <1>2, <1>5 DEF Bounded
    <2>3. committed' <= Len(wal')
      BY <1>1, <1>2, <1>5 DEF Bounded, TypeOK
    <2>4. Len(wal') > 0 /\ wal'[Len(wal')].written = "line"
      BY <1>3, <1>5
    <2>5. QED
      BY <1>1, <2>1, <2>2, <2>3, <2>4 DEF Bounded, SnapsBounded
  <1>8. ToldOfLive'
    BY <1>1 DEF ToldOfLive, IInv
  <1>9. ASSUME Unglued' PROVE InOrder'
    <2>1. /\ Unglued /\ InOrder /\ FilesInOrder'
          /\ End = Len(wal) /\ committed = End
          /\ End' = IF x.written = "part" THEN End ELSE End + 1
      BY <1>4, <1>9, GrownOrder
    <2>2. End' = End + 1 /\ End \in Nat
      BY <1>2, <1>3, <2>1, EndIs
    <2>3. Numbered'
      BY <1>1, <2>1, <2>2 DEF FilesInOrder, Numbered
    <2>4. Folded = End /\ Folded' = End /\ Told' = {End}
      BY <1>1, <2>2 DEF Folded, Told
    <2>5. PromisedAgrees' /\ HeadAgrees'
      BY <1>1, <1>4, <1>9, <2>4, GrownPromise
    <2>6. LiveAgrees'
      <3>1. Bases' = Bases
        BY <1>2, <1>4, GrownBases
      <3>2. ASSUME NEW a \in Bases'
            PROVE  /\ a.offset <= End
                   /\ Clean(a.offset, Folded)' => live' = a.state \o Span(a.offset, End)
        <4>1. a \in Bases /\ a.offset \in Nat
          BY <1>2, <3>1, BasesTyped DEF IsBase
        <4>2. Clean(a.offset, Folded)' <=> Clean(a.offset, End)
          BY <1>2, <1>4, <2>1, <2>2, <2>4, <4>1, GrownLog
        <4>3. QED
          BY <1>1, <2>1, <2>4, <4>1, <4>2 DEF InOrder, LiveAgrees
      <3>3. QED
        BY <2>4, <3>2 DEF LiveAgrees
    <2>7. QED
      BY <2>1, <2>3, <2>5, <2>6 DEF InOrder, FilesInOrder
  <1>10. QED
    BY <1>6, <1>7, <1>8, <1>9 DEF IInv

LEMMA CrashInAppendOrdered ==
  ASSUME IInv, NEW b \in Blocks, NEW written \in Tears, CrashInAppend(b, written)
  PROVE  IInv'
  <1> DEFINE x == [tick |-> committed, block |-> b, written |-> written]
  <1>1. /\ up /\ pc = "idle" /\ pc' = "idle" /\ up' = FALSE /\ live' = <<>>
        /\ committed' = 0 /\ wal' = Append(wal, x)
        /\ UNCHANGED <<snaps, head, promised>>
    BY DEF CrashInAppend, Write, Stop
  <1>2. TypeOK /\ Bounded
    BY DEF IInv
  <1>3. x \in Writes /\ x.tick = committed
    <2>1. written \in {"line", "part", "text"}
      BY NodeAssumption
    <2>2. QED
      BY <1>2, <2>1 DEF Writes, TypeOK
  <1> HIDE DEF x
  <1>4. LogGrows(x)
    BY <1>1, <1>3 DEF LogGrows
  <1>5. wal' \in Seq(Writes) /\ Len(wal') = Len(wal) + 1 /\ Len(wal) \in Nat
    BY <1>2, <1>4, GrownLog
  <1>6. TypeOK'
    <2>1. live' \in Seq(Nat) /\ committed' \in Nat /\ wal' \in Seq(Writes)
      BY <1>1, <1>5
    <2>2. /\ head' \in [count : Nat, state : Seq(Nat)] \cup {Torn}
          /\ promised' \in Seq(Nat) /\ DOMAIN snaps' \subseteq Nat
          /\ snaps' \in [DOMAIN snaps' -> [state : Seq(Nat), offset : Nat, intact : BOOLEAN]]
      BY <1>1, <1>2 DEF TypeOK
    <2>3. QED
      BY <1>1, <2>1, <2>2 DEF TypeOK
  <1>7. Bounded'
    <2>1. SnapsBounded'
      BY <1>4, GrownBounds
    <2>2. committed' <= Len(wal') /\ Ascending(live', Len(wal'))
      BY <1>1, <1>5 DEF Ascending
    <2>3. QED
      BY <1>1, <2>1, <2>2 DEF Bounded, SnapsBounded
  <1>8. ToldOfLive'
    BY <1>1 DEF ToldOfLive
  <1>9. ASSUME Unglued' PROVE InOrder'
    <2>1. /\ FilesInOrder'
          /\ End' = IF x.written = "part" THEN End ELSE End + 1
      BY <1>4, <1>9, GrownOrder
    <2>2. Numbered' /\ LiveAgrees'
      BY <1>1, <2>1 DEF FilesInOrder, Numbered, LiveAgrees
    <2>3. End \in Told'
      <3>1. End \in Nat
        BY <1>2, EndIs
      <3>2. Told' = {End' - 1, End'}
        BY <1>1 DEF Told
      <3>3. QED
        BY <2>1, <3>1, <3>2
    <2>4. PromisedAgrees' /\ HeadAgrees'
      BY <1>1, <1>4, <1>9, <2>3, GrownPromise
    <2>5. QED
      BY <2>1, <2>2, <2>4 DEF InOrder, FilesInOrder
  <1>10. QED
    BY <1>6, <1>7, <1>8, <1>9 DEF IInv

-----------------------------------------------------------------------------
(* The theorems. *)

LEMMA StepOrdered ==
  ASSUME IInv, [Next]_vars
  PROVE  IInv'
  <1>1. ASSUME NEW b \in Blocks, AppendLine(b) PROVE IInv'
    BY <1>1, AppendLineOrdered
  <1>2. CASE ApplyTick
    BY <1>2, ApplyTickOrdered
  <1>3. CASE ApplyThrows
    BY <1>3, ApplyThrowsOrdered
  <1>4. CASE WriteHead
    BY <1>4, WriteHeadOrdered
  <1>5. CASE PublishSnapshot
    BY <1>5, PublishSnapshotOrdered
  <1>6. CASE Prune
    BY <1>6, PruneOrdered
  <1>7. CASE Crash
    <2>1. Stop /\ UNCHANGED <<wal, snaps, promised>> /\ head' \in {head, Torn}
      BY <1>7 DEF Crash, disk
    <2>2. QED
      BY <2>1, StopOrdered
  <1>8. ASSUME NEW b \in Blocks, NEW written \in Tears, CrashInAppend(b, written)
        PROVE  IInv'
    BY <1>8, CrashInAppendOrdered
  <1>9. CASE CrashInWriteHead
    <2>1. Stop /\ UNCHANGED <<wal, snaps, promised>> /\ head' \in {head, Torn}
      BY <1>9 DEF CrashInWriteHead
    <2>2. QED
      BY <2>1, StopOrdered
  <1>10. ASSUME NEW covered \in DOMAIN snaps, Rot(covered) PROVE IInv'
    BY <1>10, RotOrdered
  <1>11. CASE Open(OpenDir)
    <2>1. Sound(OpenDir) /\ (Unglued /\ Numbered => FromBase(OpenDir))
      BY OpenDirIs DEF IInv
    <2>2. QED
      BY <1>11, <2>1, OpenOrdered
  <1>12. CASE Open(OpenFull)
    <2>1. Sound(OpenFull) /\ (Unglued /\ Numbered => FromBase(OpenFull))
      BY OpenFullIs DEF IInv
    <2>2. QED
      BY <1>12, <2>1, OpenOrdered
  <1>13. CASE UNCHANGED vars
    <2>1. UNCHANGED <<wal, snaps, head, up, pc, committed, live, promised>>
      BY <1>13 DEF vars, disk, process
    <2>2. NoNewSnapshot
      BY <2>1 DEF NoNewSnapshot
    <2>3. /\ DOMAIN snaps' \subseteq Nat
          /\ snaps' \in [DOMAIN snaps' -> [state : Seq(Nat), offset : Nat, intact : BOOLEAN]]
      BY <2>1 DEF IInv, TypeOK
    <2>4. QED
      BY <2>1, <2>2, <2>3, SnapshotLostOrdered
  <1>14. QED
    BY <1>1, <1>2, <1>3, <1>4, <1>5, <1>6, <1>7, <1>8, <1>9, <1>10, <1>11, <1>12, <1>13
       DEF Next

LEMMA Ordered ==
  Spec => []IInv
  <1>1. Init => IInv
    BY FreshOrdered DEF Init, Fresh
  <1>2. IInv /\ [Next]_vars => IInv'
    BY StepOrdered
  <1>3. QED
    BY <1>1, <1>2, PTL DEF Spec

(* What a caller was told of is never lost, and an open brings back at most  *)
(* the tick in doubt besides (OvtNode.open after any crash).                 *)
THEOREM NodePromisedSurvives == Spec => []PromisedSurvives
  <1>1. IInv => PromisedSurvives
    BY InvSurvives
  <1>2. QED
    BY <1>1, Ordered, PTL

(* The newest snapshot and its tail give what a full replay gives (the       *)
(* recovery equivalence of the crash matrix).                                *)
THEOREM NodeRecovers == Spec => []RecoveryEquivalence
  <1>1. IInv => RecoveryEquivalence
    BY InvRecovers
  <1>2. QED
    BY <1>1, Ordered, PTL

(* An observer re-derives head.json from the log (LiveObserver.observe).     *)
THEOREM NodeShowsNoDrift == Spec => []ObserverSeesNoDrift
  <1>1. IInv => ObserverSeesNoDrift
    BY InvObserved
  <1>2. QED
    BY <1>1, Ordered, PTL

-----------------------------------------------------------------------------
(* The daemon.  Unlike what is said of the order, the bound on the tail has  *)
(* to hold whatever was glued to a torn write, so it goes by what of the log *)
(* is still read.                                                            *)

(* How many writes a full replay reads. *)
Parsed == Len(ParseFrom(0))

ParsedFacts ==
  /\ Parsed \in 0..Len(wal)
  /\ \A i \in 1..Parsed : Parses(i)
  /\ Parsed < Len(wal) => ~Parses(Parsed + 1)

LEMMA ParsedIs == wal \in Seq(Writes) => ParsedFacts
  <1> SUFFICES ASSUME wal \in Seq(Writes) PROVE ParsedFacts
    OBVIOUS
  <1>1. 0 \in 0..Len(wal) /\ Len(wal) \in Nat
    OBVIOUS
  <1>2. PICK m \in 0..Len(wal) : /\ ParseFrom(0) = Span(0, m)
                                 /\ \A i \in 0+1..m : Parses(i)
                                 /\ m < Len(wal) => ~Parses(m + 1)
    BY <1>1, ParseIs
  <1>3. Len(Span(0, m)) = m - 0
    BY <1>1, SpanSeq
  <1>4. Parsed = m
    BY <1>1, <1>2, <1>3 DEF Parsed
  <1>5. QED
    BY <1>1, <1>2, <1>4 DEF ParsedFacts

LEMMA ParsedIsNext == (wal \in Seq(Writes) => ParsedFacts)'
  BY ParsedIs, PTL

(* One more write is read, or some less: behind a torn one nothing is. *)
LEMMA GrownParsed ==
  ASSUME TypeOK, NEW x, LogGrows(x)
  PROVE  /\ Parsed \in 0..Len(wal) /\ Parsed' \in Nat
         /\ Parsed' <= Parsed \/ (Parsed = Len(wal) /\ Parsed' = Len(wal) + 1)
  <1>1. /\ wal' \in Seq(Writes) /\ wal \in Seq(Writes)
        /\ Len(wal') = Len(wal) + 1 /\ Len(wal) \in Nat
        /\ \A i \in 1..Len(wal) : wal'[i] = wal[i]
    BY GrownLog DEF TypeOK
  <1>2. ParsedFacts /\ ParsedFacts'
    BY <1>1, ParsedIs, ParsedIsNext
  <1>3. Parsed \in 0..Len(wal) /\ Parsed' \in 0..Len(wal) + 1
    BY <1>1, <1>2 DEF ParsedFacts
  <1>4. ASSUME Parsed' > Parsed, Parsed < Len(wal) PROVE FALSE
    <2>0. PICK i \in Nat : i = Parsed + 1
      BY <1>3
    <2>1. i \in 1..Parsed' /\ i \in 1..Len(wal) /\ i # Len(wal') /\ i - 1 \in 0..Len(wal)
      BY <1>1, <1>3, <1>4, <2>0
    <2>2. Parses(i)'
      BY <1>2, <2>1 DEF ParsedFacts
    <2>3. ~Parses(i)
      BY <1>2, <1>4, <2>0 DEF ParsedFacts
    <2>4. wal'[i] = wal[i] /\ (i - 1 # 0 => wal'[i - 1] = wal[i - 1])
      BY <1>1, <2>1
    <2>5. OffsetOnBoundary(i - 1)' <=> OffsetOnBoundary(i - 1)
      BY <2>4 DEF OffsetOnBoundary
    <2>6. OffsetOnBoundary(i - 1) /\ wal[i].written = "line"
      BY <2>1, <2>2, <2>4, <2>5 DEF Parses
    <2>7. QED
      BY <2>3, <2>6 DEF Parses
  <1>5. QED
    BY <1>1, <1>3, <1>4

(* The tail of a snapshot joins what is read before it. *)
LEMMA TailReads ==
  ASSUME TypeOK, NEW o \in 0..Len(wal)
  PROVE  /\ Len(ParseFrom(o)) \in Nat
         /\ Parsed \in Nat
         /\ o <= Parsed => Parsed <= o + Len(ParseFrom(o))
         /\ o = Len(wal) => Len(ParseFrom(o)) = 0
  <1>1. wal \in Seq(Writes) /\ Len(wal) \in Nat /\ o \in Nat
    BY DEF TypeOK
  <1>2. ParsedFacts
    BY <1>1, ParsedIs
  <1>3. PICK m \in o..Len(wal) : /\ ParseFrom(o) = Span(o, m)
                                 /\ \A i \in o+1..m : Parses(i)
                                 /\ m < Len(wal) => ~Parses(m + 1)
    BY <1>1, ParseIs
  <1>4. Len(Span(o, m)) = m - o
    <2>1. m \in Nat /\ o <= m
      BY <1>1
    <2>2. QED
      BY <1>1, <2>1, SpanSeq
  <1>5. Len(ParseFrom(o)) = m - o
    BY <1>3, <1>4
  <1>6. Parsed \in 0..Len(wal)
    BY <1>2 DEF ParsedFacts
  <1>7. ASSUME o <= Parsed, Parsed > m PROVE FALSE
    <2>1. m + 1 \in 1..Parsed /\ m < Len(wal)
      BY <1>1, <1>3, <1>6, <1>7
    <2>2. Parses(m + 1)
      BY <1>2, <2>1 DEF ParsedFacts
    <2>3. QED
      BY <1>3, <2>1, <2>2
  <1>8. QED
    BY <1>1, <1>3, <1>5, <1>6, <1>7

-----------------------------------------------------------------------------
(* Whole multiples of the cadence. *)

LEMMA NextMultiple ==
  ASSUME NEW c \in Nat, NEW k \in Nat \ {0}, (c + 1) % k # 0
  PROVE  c % k \in 0..k - 1 /\ (c + 1) % k = (c % k) + 1
  <1>1. /\ c % k \in 0..k - 1 /\ (c + 1) % k \in 0..k - 1
        /\ c \div k \in Int /\ (c + 1) \div k \in Int
    OBVIOUS
  <1>2. c = k * (c \div k) + (c % k) /\ c + 1 = k * ((c + 1) \div k) + ((c + 1) % k)
    OBVIOUS
  <1> DEFINE p == c \div k
             q == (c + 1) \div k
             r == c % k
             t == (c + 1) % k
  <1> SUFFICES t = r + 1
    BY <1>1
  <1>3. /\ p \in Int /\ q \in Int /\ r \in Int /\ t \in Int /\ k \in Int /\ k >= 1
        /\ 0 <= r /\ r <= k - 1 /\ 1 <= t /\ t <= k - 1
        /\ k * q + t = k * p + r + 1
    BY <1>1, <1>2
  <1> HIDE DEF p, q, r, t
  <1>4. ASSUME q >= p + 1 PROVE FALSE
    <2>1. k * q >= k * (p + 1)
      BY <1>3, <1>4
    <2>2. k * (p + 1) = k * p + k
      BY <1>3
    <2>3. QED
      BY <1>3, <2>1, <2>2
  <1>5. ASSUME q <= p - 1 PROVE FALSE
    <2>1. k * q <= k * (p - 1)
      BY <1>3, <1>5
    <2>2. k * (p - 1) = k * p - k
      BY <1>3
    <2>3. QED
      BY <1>3, <2>1, <2>2
  <1>6. q = p
    BY <1>3, <1>4, <1>5
  <1>7. QED
    BY <1>3, <1>6

-----------------------------------------------------------------------------
(* The callbacks of the daemon. *)

(* The loop of Among over the list m. *)
KeepOne(good, kept, x) == IF x \in good THEN Append(kept, x) ELSE kept

IsAmong(m, good, g) ==
  g = [s \in SUBSET DOMAIN m |->
         IF s = {} THEN <<>> ELSE KeepOne(good, g[s \ {Max(s)}], m[Max(s)])]

(* The same, entry by entry. *)
EntryByEntry(m, good, f) ==
  /\ f[0] = <<>>
  /\ \A k \in 1..Len(m) : f[k] = KeepOne(good, f[k - 1], m[k])

LEMMA KeepTyped ==
  ASSUME NEW T, NEW m \in Seq(T), NEW good
  PROVE  /\ <<>> \in Seq(T)
         /\ \A x \in DOMAIN m, v \in Seq(T) : KeepOne(good, v, m[x]) \in Seq(T)
  <1>1. ASSUME NEW x \in DOMAIN m, NEW v \in Seq(T)
        PROVE  KeepOne(good, v, m[x]) \in Seq(T)
    <2>1. m[x] \in T
      OBVIOUS
    <2>2. Append(v, m[x]) \in Seq(T)
      BY <2>1
    <2>3. QED
      BY <2>2 DEF KeepOne
  <1>2. QED
    BY <1>1

(* The loop ends. *)
LEMMA AmongExists ==
  ASSUME NEW T, NEW m \in Seq(T), NEW good
  PROVE  \E g : IsAmong(m, good, g)
  <1> DEFINE S == DOMAIN m
             V == Seq(T)
             next == [p \in S \X V |-> KeepOne(good, p[2], m[p[1]])]
             pick == [s \in SUBSET S |-> Max(s)]
  <1>1. S = 1..Len(m) /\ Len(m) \in Nat
    OBVIOUS
  <1>2. \A x \in S, v \in V : /\ next[<<x, v>>] = KeepOne(good, v, m[x])
                              /\ next[<<x, v>>] \in V
    BY KeepTyped
  <1>3. \A s \in SUBSET S : s # {} => pick[s] = Max(s) /\ pick[s] \in s
    BY <1>1, MaxOfInterval
  <1>4. <<>> \in V /\ IsFiniteSet(S)
    BY <1>1, KeepTyped, FS_Interval
  <1> HIDE DEF next, pick, S, V
  <1>5. PICK g : FoldsTo(S, V, <<>>, next, pick, g)
    <2>1. Foldable(S, V, <<>>, next, pick)
      BY <1>2, <1>3, <1>4 DEF Foldable
    <2>2. QED
      BY <2>1, FoldExists
  <1>6. ASSUME NEW s \in SUBSET S, s # {}
        PROVE  next[<<pick[s], g[s \ {pick[s]}]>>]
                 = KeepOne(good, g[s \ {Max(s)}], m[Max(s)])
    <2>1. pick[s] = Max(s) /\ pick[s] \in S /\ g[s \ {pick[s]}] \in V
      BY <1>3, <1>5, <1>6 DEF FoldsTo
    <2>2. next[<<pick[s], g[s \ {pick[s]}]>>] = KeepOne(good, g[s \ {pick[s]}], m[pick[s]])
      BY <1>2, <2>1
    <2>3. QED
      BY <2>1, <2>2, Zenon
  <1>7. IsAmong(m, good, g)
    BY <1>5, <1>6 DEF FoldsTo, FoldRound, IsAmong, S
  <1>8. QED
    BY <1>7

(* Max takes the entries one by one from the front. *)
LEMMA AmongIs ==
  ASSUME NEW T, NEW m \in Seq(T), NEW good
  PROVE  \E f : EntryByEntry(m, good, f) /\ Among(m, good) = f[Len(m)]
  <1> DEFINE h == CHOOSE h : IsAmong(m, good, h)
             f == [k \in 0..Len(m) |-> h[1..k]]
  <1>1. IsAmong(m, good, h)
    BY AmongExists
  <1>2. Among(m, good) = h[DOMAIN m]
    BY Zenon DEF Among, FoldLeft, MapThenFoldSet, IsAmong, KeepOne
  <1>3. DOMAIN m = 1..Len(m) /\ Len(m) \in Nat
    OBVIOUS
  <1>4. \A s \in SUBSET DOMAIN m :
          h[s] = IF s = {} THEN <<>> ELSE KeepOne(good, h[s \ {Max(s)}], m[Max(s)])
    BY <1>1 DEF IsAmong
  <1> HIDE DEF h
  <1>5. f[0] = <<>>
    <2>1. 1..0 = {} /\ {} \in SUBSET DOMAIN m
      OBVIOUS
    <2>2. h[{}] = <<>>
      BY <1>4, <2>1
    <2>3. QED
      BY <1>3, <2>1, <2>2
  <1>6. ASSUME NEW k \in 1..Len(m)
        PROVE  f[k] = KeepOne(good, f[k - 1], m[k])
    <2>0. k \in Nat /\ 1 <= k /\ k <= Len(m) /\ k - 1 \in 0..Len(m) /\ k \in 0..Len(m)
      BY <1>3
    <2>1. 1..k \in SUBSET DOMAIN m /\ 1..k # {} /\ k \in 1..k
      <3>1. k \in 1..k
        BY <2>0
      <3>2. 1..k \subseteq 1..Len(m)
        BY <1>3, <2>0
      <3>3. QED
        BY <1>3, <3>1, <3>2, Zenon
    <2>2. Max(1..k) = k
      <3>1. /\ Max(1..k) \in 1..k
            /\ \A y \in 1..k : y <= Max(1..k)
        <4>1. 1..k \in SUBSET (1..k)
          OBVIOUS
        <4>2. QED
          BY <2>0, <2>1, <4>1, MaxOfInterval
      <3>2. QED
        BY <2>0, <2>1, <3>1
    <2>3. (1..k) \ {k} = 1..(k-1)
      BY <2>0
    <2>4. h[1..k] = KeepOne(good, h[(1..k) \ {Max(1..k)}], m[Max(1..k)])
      BY <1>4, <2>1
    <2>5. h[1..k] = KeepOne(good, h[1..(k-1)], m[k])
      BY <2>2, <2>3, <2>4
    <2>6. QED
      BY <2>0, <2>5
  <1>7. f[Len(m)] = h[DOMAIN m]
    BY <1>3
  <1>8. QED
    BY <1>2, <1>5, <1>6, <1>7 DEF EntryByEntry

(* Nothing is among nothing, and the last entry comes last. *)
LEMMA AmongEmpty ==
  ASSUME NEW good
  PROVE  Among(<<>>, good) = <<>>
  <1>1. <<>> \in Seq({}) /\ Len(<<>>) = 0
    OBVIOUS
  <1>2. PICK f : EntryByEntry(<<>>, good, f) /\ Among(<<>>, good) = f[Len(<<>>)]
    BY <1>1, AmongIs
  <1>3. QED
    BY <1>1, <1>2 DEF EntryByEntry

LEMMA AmongAppend ==
  ASSUME NEW T, NEW m \in Seq(T), NEW x \in T, NEW good
  PROVE  Among(Append(m, x), good) = KeepOne(good, Among(m, good), x)
  <1>1. PICK n : n = Append(m, x)
    OBVIOUS
  <1>2. /\ n \in Seq(T) /\ Len(m) \in Nat /\ Len(n) = Len(m) + 1 /\ n[Len(n)] = x
        /\ \A k \in 1..Len(m) : n[k] = m[k]
    BY <1>1
  <1>3. PICK f : EntryByEntry(m, good, f) /\ Among(m, good) = f[Len(m)]
    BY AmongIs
  <1>4. PICK g : EntryByEntry(n, good, g) /\ Among(n, good) = g[Len(n)]
    BY <1>2, AmongIs
  <1> DEFINE G == {k \in Nat : k <= Len(m) => f[k] = g[k]}
  <1>5. 0 \in G
    BY <1>3, <1>4 DEF EntryByEntry
  <1>6. ASSUME NEW k \in G
        PROVE  k + 1 \in G
    <2>1. SUFFICES ASSUME k + 1 <= Len(m) PROVE f[k + 1] = g[k + 1]
      OBVIOUS
    <2>2. k \in Nat /\ k <= Len(m) /\ f[k] = g[k]
      BY <1>2, <2>1
    <2>3. k + 1 \in 1..Len(m) /\ k + 1 \in 1..Len(n) /\ (k + 1) - 1 = k
      BY <1>2, <2>1, <2>2
    <2>4. f[k + 1] = KeepOne(good, f[k], m[k + 1]) /\ g[k + 1] = KeepOne(good, g[k], n[k + 1])
      BY <1>3, <1>4, <2>3 DEF EntryByEntry
    <2>5. QED
      BY <1>2, <2>2, <2>3, <2>4
  <1>7. G = Nat
    <2> HIDE DEF G
    <2>1. G \in SUBSET Nat
      BY DEF G
    <2>2. QED
      BY <1>5, <1>6, <2>1, NatInductionSet
  <1>8. f[Len(m)] = g[Len(m)]
    BY <1>2, <1>7
  <1>9. Len(n) \in 1..Len(n) /\ Len(n) - 1 = Len(m)
    BY <1>2
  <1>10. g[Len(n)] = KeepOne(good, g[Len(m)], x)
    BY <1>2, <1>4, <1>9 DEF EntryByEntry
  <1>11. QED
    BY <1>1, <1>3, <1>4, <1>8, <1>10

(* What is among a list is of its kind, from it, and once where it is once. *)
Once(m) == \A i, j \in DOMAIN m : m[i] = m[j] => i = j

AmongFacts(T, m, good) ==
  /\ Among(m, good) \in Seq(T)
  /\ \A x : (\E i \in DOMAIN Among(m, good) : Among(m, good)[i] = x) =>
              \E j \in DOMAIN m : m[j] = x
  /\ Once(m) => Once(Among(m, good))

LEMMA AmongTyped ==
  ASSUME NEW T, NEW m \in Seq(T), NEW good
  PROVE  AmongFacts(T, m, good)
  <1> DEFINE G == {p \in Seq(T) : AmongFacts(T, p, good)}
  <1>1. <<>> \in G
    <2>1. PICK none : none = <<>>
      OBVIOUS
    <2>2. none \in Seq(T) /\ DOMAIN none = {} /\ Among(none, good) = none
      BY <2>1, AmongEmpty
    <2>3. AmongFacts(T, none, good)
      BY <2>2 DEF AmongFacts, Once
    <2>4. QED
      BY <2>1, <2>2, <2>3
  <1>2. ASSUME NEW p \in G, NEW x \in T
        PROVE  Append(p, x) \in G
    <2>1. PICK q : q = Append(p, x)
      OBVIOUS
    <2>2. p \in Seq(T) /\ q \in Seq(T) /\ AmongFacts(T, p, good)
      BY <2>1
    <2>3. PICK a : a = Among(p, good)
      OBVIOUS
    <2>4. Among(q, good) = KeepOne(good, a, x)
      BY <2>1, <2>2, <2>3, AmongAppend
    <2>5. /\ DOMAIN p = 1..Len(p) /\ DOMAIN q = 1..Len(p)+1 /\ Len(p) \in Nat
          /\ q[Len(p) + 1] = x /\ \A i \in 1..Len(p) : q[i] = p[i]
      BY <2>1, <2>2
    <2>6. /\ a \in Seq(T)
          /\ \A y : (\E i \in DOMAIN a : a[i] = y) => \E j \in DOMAIN p : p[j] = y
          /\ Once(p) => Once(a)
      BY <2>2, <2>3 DEF AmongFacts
    <2>7. Once(q) => Once(p) /\ \A j \in DOMAIN p : p[j] # x
      BY <2>5 DEF Once
    <2>8. CASE x \notin good
      <3>1. Among(q, good) = a
        BY <2>4, <2>8 DEF KeepOne
      <3>2. \A y : (\E i \in DOMAIN a : a[i] = y) => \E j \in DOMAIN q : q[j] = y
        <4>1. ASSUME NEW j \in DOMAIN p PROVE j \in DOMAIN q /\ q[j] = p[j]
          BY <2>5
        <4>2. ASSUME NEW i \in DOMAIN a PROVE \E j \in DOMAIN q : q[j] = a[i]
          <5>1. PICK j \in DOMAIN p : p[j] = a[i]
            BY <2>6
          <5>2. QED
            BY <4>1, <5>1
        <4>3. QED
          BY <4>2
      <3>3. AmongFacts(T, q, good)
        <4>1. Once(q) => Once(a)
          BY <2>6, <2>7
        <4>2. a \in Seq(T)
          BY <2>6
        <4>3. QED
          BY <3>1, <3>2, <4>1, <4>2, Zenon DEF AmongFacts
      <3>4. QED
        BY <2>1, <2>2, <3>3
    <2>9. CASE x \in good
      <3>1. PICK b : b = Append(a, x)
        OBVIOUS
      <3>2. Among(q, good) = b
        BY <2>4, <2>9, <3>1 DEF KeepOne
      <3>3. /\ b \in Seq(T) /\ DOMAIN a = 1..Len(a) /\ DOMAIN b = 1..Len(a)+1 /\ Len(a) \in Nat
            /\ b[Len(a) + 1] = x /\ \A i \in 1..Len(a) : b[i] = a[i]
        BY <2>6, <3>1
      <3>4. ASSUME NEW i \in DOMAIN b PROVE \E j \in DOMAIN q : q[j] = b[i]
        <4>1. CASE i = Len(a) + 1
          <5>1. b[i] = x
            BY <3>3, <4>1
          <5>2. Len(p) + 1 \in DOMAIN q /\ q[Len(p) + 1] = x
            BY <2>5
          <5>3. QED
            BY <5>1, <5>2
        <4>2. CASE i # Len(a) + 1
          <5>1. i \in DOMAIN a /\ b[i] = a[i]
            BY <3>3, <4>2
          <5>2. PICK j \in DOMAIN p : p[j] = a[i]
            BY <2>6, <5>1
          <5>3. QED
            BY <2>5, <5>1, <5>2
        <4>3. QED
          BY <4>1, <4>2
      <3>5. ASSUME Once(q) PROVE Once(b)
        <4>1. Once(a) /\ \A j \in DOMAIN p : p[j] # x
          BY <2>6, <2>7, <3>5
        <4>2. \A i \in DOMAIN a : a[i] # x
          BY <2>6, <4>1
        <4>3. QED
          BY <3>3, <4>1, <4>2 DEF Once
      <3>6. AmongFacts(T, q, good)
        BY <3>2, <3>3, <3>4, <3>5 DEF AmongFacts
      <3>7. QED
        BY <2>1, <2>2, <3>6
    <2>10. QED
      BY <2>8, <2>9
  <1>3. G = Seq(T)
    <2> HIDE DEF G
    <2>1. G \in SUBSET Seq(T)
      BY DEF G
    <2>2. QED
      BY <1>1, <1>2, <2>1, SeqInductionSet
  <1>4. QED
    BY <1>3

(* What a drain leaves behind are submissions. *)
LEMMA LeftTyped ==
  ASSUME mempool \in Seq(Submissions)
  PROVE  LeftBehind \in Seq(Submissions)
  <1>1. AmongFacts(Submissions, mempool, Submissions \ OnePerAgent)
    BY AmongTyped
  <1>2. QED
    BY <1>1 DEF AmongFacts, LeftBehind

DaemonTypes ==
  /\ state \in {"STOPPED", "RUNNING", "SHUTTING_DOWN"}
  /\ job \in {"idle", "append", "apply", "head", "snapshot", "prune", "flush"}
  /\ mempool \in Seq(Submissions)
  /\ batch \in SUBSET Submissions
  /\ late \in BOOLEAN

(* A callback runs in a process, and does what the node is about to do. *)
JobsMatch ==
  /\ up <=> state # "STOPPED"
  /\ state = "STOPPED" => job = "idle"
  /\ state = "RUNNING" => job # "flush"
  /\ job \in {"idle", "append", "flush", "snapshot"} => pc = "idle"
  /\ job = "apply" => pc = "appended"
  /\ job = "head" => pc = "applied"
  /\ job = "prune" => pc = "pruning"

LEMMA DrainTyped ==
  ASSUME DaemonTypes, Drain
  PROVE  mempool' \in Seq(Submissions) /\ batch' \in SUBSET Submissions /\ job' = "append"
  <1>1. \A i \in DOMAIN mempool : mempool[i] \in Submissions
    BY DEF DaemonTypes
  <1>2. OnePerAgent \in SUBSET Submissions
    BY <1>1 DEF OnePerAgent
  <1>3. QED
    BY <1>2, LeftTyped DEF Drain, DaemonTypes

(* Every step of the daemon is one of the durable node, or leaves it alone. *)
LEMMA DaemonStepIs ==
  ASSUME IInv, DaemonTypes, JobsMatch, [DaemonNext]_dvars
  PROVE  [Next]_vars
  <1>1. CASE Start
    BY <1>1 DEF Start, Next
  <1>2. CASE AppendBatch
    <2>1. batch \in Blocks
      BY DaemonAssumption DEF DaemonTypes
    <2>2. QED
      BY <1>2, <2>1 DEF AppendBatch, Next
  <1>3. CASE ApplyBatch
    BY <1>3 DEF ApplyBatch, Next
  <1>4. CASE PublishHead
    BY <1>4 DEF PublishHead, Next
  <1>5. CASE Snapshot
    BY <1>5 DEF Snapshot, Next
  <1>6. CASE PruneOne
    BY <1>6 DEF PruneOne, Next
  <1>7. CASE Pruned
    <2>1. pc = "pruning" /\ up
      BY <1>7 DEF Pruned, JobsMatch
    <2>2. CASE state = "SHUTTING_DOWN"
      <3>1. Crash
        BY <1>7, <2>1, <2>2 DEF Pruned, Crash
      <3>2. QED
        BY <3>1 DEF Next
    <2>3. CASE state # "SHUTTING_DOWN"
      <3>1. Prune
        BY <1>7, <2>1, <2>3 DEF Pruned, Prune, disk
      <3>2. QED
        BY <3>1 DEF Next
    <2>4. QED
      BY <2>2, <2>3
  <1>8. CASE UncaughtException
    <2>1. up
      BY <1>8 DEF UncaughtException, JobsMatch
    <2>2. Crash
      BY <1>8, <2>1 DEF UncaughtException, Crash
    <2>3. QED
      BY <2>2 DEF Next
  <1>9. CASE KilledBetween
    BY <1>9 DEF KilledBetween, Next
  <1>10. ASSUME NEW written \in Tears, KilledInAppend(written) PROVE [Next]_vars
    <2>1. batch \in Blocks
      BY DaemonAssumption DEF DaemonTypes
    <2>2. QED
      BY <1>10, <2>1 DEF KilledInAppend, Next
  <1>11. CASE KilledInWriteHead
    BY <1>11 DEF KilledInWriteHead, Next
  <1>12. CASE \/ \E s \in Submissions : Submit(s)
              \/ OnTick \/ Shutdown \/ Flush
              \/ UNCHANGED dvars
    <2>1. UNCHANGED vars
      BY <1>12 DEF Submit, OnTick, Shutdown, Flush, dvars, node
    <2>2. QED
      BY <2>1
  <1>13. QED
    BY <1>1, <1>2, <1>3, <1>4, <1>5, <1>6, <1>7, <1>8, <1>9, <1>10, <1>11, <1>12
       DEF DaemonNext, Callback

-----------------------------------------------------------------------------
(* The newest snapshot, and what the directory opens to. *)

Newest(n) == n \in DOMAIN snaps /\ \A d \in DOMAIN snaps : d <= n

(* Nothing rots while the daemon is looked at. *)
AllIntact == \A c \in DOMAIN snaps : snaps[c].intact

NewestFacts ==
  /\ DOMAIN snaps = {} => ValidSnapshots = {} /\ NewestCovered = 0
  /\ DOMAIN snaps # {} => \E n \in Nat : Newest(n)
  /\ \A n : Newest(n) => /\ n \in Nat
                         /\ ValidSnapshots # {}
                         /\ Max(ValidSnapshots) = n
                         /\ NewestCovered = n

LEMMA NewestIs == TypeOK /\ Bounded /\ AllIntact => NewestFacts
  <1> SUFFICES ASSUME TypeOK, Bounded, AllIntact PROVE NewestFacts
    OBVIOUS
  <1>1. ValidSnapshots = DOMAIN snaps
    BY DEF ValidSnapshots, AllIntact
  <1>2. Len(wal) \in Nat /\ DOMAIN snaps \in SUBSET Nat
    BY DEF TypeOK
  <1>3. \A c \in DOMAIN snaps : c <= Len(wal)
    <2>1. ASSUME NEW c \in DOMAIN snaps PROVE c <= Len(wal)
      <3>1. c <= snaps[c].offset /\ snaps[c].offset <= Len(wal)
        BY DEF Bounded
      <3>2. c \in Nat /\ snaps[c].offset \in Nat
        BY DEF TypeOK
      <3>3. QED
        BY <1>2, <3>1, <3>2
    <2>2. QED
      BY <2>1
  <1>4. DOMAIN snaps = {} => NewestCovered = 0
    BY <1>1 DEF NewestCovered
  <1> DEFINE m == Max(DOMAIN snaps)
  <1>5. DOMAIN snaps # {} => m \in DOMAIN snaps /\ (\A d \in DOMAIN snaps : d <= m)
    BY <1>2, <1>3, MaxIsGreatest
  <1>6. DOMAIN snaps # {} => NewestCovered = m
    BY <1>1 DEF NewestCovered
  <1> HIDE DEF m
  <1>7. ASSUME NEW n, Newest(n) PROVE n = m /\ DOMAIN snaps # {} /\ n \in Nat
    BY <1>2, <1>5, <1>7 DEF Newest
  <1>8. DOMAIN snaps # {} => Newest(m) /\ m \in Nat
    BY <1>2, <1>5 DEF Newest
  <1>9. QED
    BY <1>1, <1>4, <1>6, <1>7, <1>8 DEF NewestFacts, m

LEMMA NewestIsNext == (TypeOK /\ Bounded /\ AllIntact => NewestFacts)'
  BY NewestIs, PTL

LEMMA OpensAs ==
  ASSUME TypeOK, Bounded, AllIntact
  PROVE  /\ OpenFull.committed = Parsed
         /\ DOMAIN snaps = {} => OpenDir = OpenFull
         /\ \A n : Newest(n) =>
              /\ snaps[n].offset \in 0..Len(wal)
              /\ OpenAt(n).committed = n + Len(ParseFrom(snaps[n].offset))
              /\ OpenDir = IF OffsetOnBoundary(snaps[n].offset) THEN OpenAt(n) ELSE OpenFull
  <1>1. NewestFacts
    BY NewestIs
  <1>2. OpenFull.committed = Parsed
    BY DEF OpenFull, Parsed
  <1>3. DOMAIN snaps = {} => OpenDir = OpenFull
    BY <1>1 DEF OpenDir, NewestFacts
  <1>4. ASSUME NEW n, Newest(n)
        PROVE  /\ snaps[n].offset \in 0..Len(wal)
               /\ OpenAt(n).committed = n + Len(ParseFrom(snaps[n].offset))
               /\ OpenDir = IF OffsetOnBoundary(snaps[n].offset) THEN OpenAt(n) ELSE OpenFull
    <2>1. n \in DOMAIN snaps /\ Max(ValidSnapshots) = n /\ ValidSnapshots # {}
      BY <1>1, <1>4 DEF NewestFacts, Newest
    <2>2. Len(wal) \in Nat /\ snaps[n].offset \in Nat /\ snaps[n].offset <= Len(wal)
      BY <2>1 DEF TypeOK, Bounded
    <2>3. OpenAt(n).committed = n + Len(ParseFrom(snaps[n].offset))
      BY DEF OpenAt
    <2>4. OpenDir = IF OffsetOnBoundary(snaps[n].offset) THEN OpenAt(n) ELSE OpenFull
      BY <2>1, <2>2 DEF OpenDir
    <2>5. QED
      BY <2>2, <2>3, <2>4
  <1>5. QED
    BY <1>2, <1>3, <1>4

-----------------------------------------------------------------------------
(* What the files and the count of a running daemon keep to, glued or not. *)

(* A snapshot covers all that is read of the log up to its offset, *)
ReadsCovered == \A c \in DOMAIN snaps : c >= Parsed \/ c >= snaps[c].offset

(* the count is that of all that is read, or more, *)
CountsReads == up => committed >= Parsed

(* and a snapshot ahead of the count is one that no open will use. *)
PastNewest ==
  up => \A n : Newest(n) /\ OffsetOnBoundary(snaps[n].offset) => committed >= n

FilesKept == AllIntact /\ ReadsCovered /\ CountsReads /\ PastNewest

LEMMA SameParsed ==
  ASSUME wal' = wal
  PROVE  Parsed' = Parsed
  BY DEF Parsed, ParseFrom, Parses, OffsetOnBoundary

LEMMA FilesStay ==
  ASSUME FilesKept, UNCHANGED <<wal, snaps>>, up' => up /\ committed' = committed
  PROVE  /\ FilesKept'
         /\ NewestCovered' = NewestCovered
         /\ \A n : Newest(n)' <=> Newest(n)
  <1>1. Parsed' = Parsed
    BY SameParsed
  <1>2. \A n : Newest(n)' <=> Newest(n)
    BY DEF Newest
  <1>3. NewestCovered' = NewestCovered
    BY DEF NewestCovered, ValidSnapshots
  <1>4. AllIntact' /\ ReadsCovered' /\ CountsReads'
    BY <1>1 DEF FilesKept, AllIntact, ReadsCovered, CountsReads
  <1>5. PastNewest'
    BY <1>2 DEF FilesKept, PastNewest, OffsetOnBoundary
  <1>6. QED
    BY <1>2, <1>3, <1>4, <1>5 DEF FilesKept

LEMMA FilesGrow ==
  ASSUME IInv, FilesKept, NEW x, LogGrows(x), up' => up /\ committed' = committed + 1
  PROVE  FilesKept' /\ NewestCovered' = NewestCovered
  <1>1. TypeOK /\ Bounded /\ snaps' = snaps /\ up /\ committed \in Nat
        /\ Len(wal) \in Nat /\ DOMAIN snaps \subseteq Nat
    BY DEF IInv, LogGrows, TypeOK
  <1>2. /\ Parsed \in 0..Len(wal) /\ Parsed' \in Nat
        /\ Parsed' <= Parsed \/ (Parsed = Len(wal) /\ Parsed' = Len(wal) + 1)
    BY <1>1, GrownParsed
  <1>3. \A c \in DOMAIN snaps : c \in Nat /\ snaps[c].offset \in 0..Len(wal)
    BY <1>1 DEF TypeOK, Bounded
  <1>4. ReadsCovered'
    <2>1. ASSUME NEW c \in DOMAIN snaps PROVE c >= Parsed' \/ c >= snaps[c].offset
      <3>1. c >= Parsed \/ c >= snaps[c].offset
        BY DEF FilesKept, ReadsCovered
      <3>2. QED
        BY <1>1, <1>2, <1>3, <3>1
    <2>2. QED
      BY <1>1, <2>1 DEF ReadsCovered
  <1>5. CountsReads'
    <2>1. committed >= Parsed
      BY <1>1 DEF FilesKept, CountsReads
    <2>2. QED
      BY <1>1, <1>2, <2>1 DEF CountsReads
  <1>6. \A n : Newest(n)' <=> Newest(n)
    BY <1>1 DEF Newest
  <1>7. \A o \in 0..Len(wal) : OffsetOnBoundary(o)' <=> OffsetOnBoundary(o)
    BY <1>1, GrownLog
  <1>8. PastNewest'
    <2>1. SUFFICES ASSUME up', NEW n, Newest(n)', OffsetOnBoundary(snaps[n].offset)'
                   PROVE  committed' >= n
      BY DEF PastNewest
    <2>2. Newest(n) /\ n \in DOMAIN snaps /\ snaps'[n].offset = snaps[n].offset
      BY <1>1, <1>6, <2>1 DEF Newest
    <2>3. OffsetOnBoundary(snaps[n].offset)
      BY <1>3, <2>1, <2>2, GrownLog, <1>1 DEF OffsetOnBoundary
    <2>4. committed >= n /\ n \in Nat
      BY <1>1, <1>3, <2>2, <2>3 DEF FilesKept, PastNewest
    <2>5. QED
      BY <1>1, <2>1, <2>4
  <1>9. NewestCovered' = NewestCovered
    BY <1>1 DEF NewestCovered, ValidSnapshots
  <1>10. QED
    BY <1>1, <1>4, <1>5, <1>8, <1>9 DEF FilesKept, AllIntact

(* A snapshot is taken. *)
LEMMA FilesTake ==
  ASSUME IInv, IInv', FilesKept, PublishSnapshot
  PROVE  /\ FilesKept'
         /\ NewestCovered' >= committed
         /\ \E n : /\ Newest(n)' /\ n >= committed
                   /\ n = committed => snaps'[n].offset = Len(wal)
  <1>1. /\ TypeOK /\ Bounded /\ up /\ committed \in Nat /\ Len(wal) \in Nat
        /\ DOMAIN snaps \subseteq Nat /\ (TypeOK /\ Bounded)'
    BY DEF IInv, TypeOK, PublishSnapshot
  <1>2. UNCHANGED <<wal, up, committed>>
    BY DEF PublishSnapshot
  <1>3. /\ DOMAIN snaps' = DOMAIN snaps \cup {committed}
        /\ snaps'[committed] = [state |-> live, offset |-> Len(wal), intact |-> TRUE]
        /\ \A c \in DOMAIN snaps : c # committed => snaps'[c] = snaps[c]
    BY DEF PublishSnapshot
  <1>4. Parsed' = Parsed /\ Parsed \in 0..Len(wal) /\ committed >= Parsed
    BY <1>1, <1>2, SameParsed, ParsedIs DEF TypeOK, ParsedFacts, FilesKept, CountsReads
  <1>5. AllIntact'
    BY <1>3 DEF FilesKept, AllIntact
  <1>6. ReadsCovered' /\ CountsReads'
    BY <1>2, <1>3, <1>4 DEF FilesKept, ReadsCovered, CountsReads
  <1>7. PastNewest'
    <2>1. SUFFICES ASSUME NEW n, Newest(n)', OffsetOnBoundary(snaps[n].offset)'
                   PROVE  committed >= n
      BY <1>2 DEF PastNewest
    <2>2. CASE n = committed
      BY <1>1, <2>2
    <2>3. CASE n # committed
      <3>1. Newest(n) /\ snaps'[n] = snaps[n]
        BY <1>3, <2>1, <2>3 DEF Newest
      <3>2. OffsetOnBoundary(snaps[n].offset)
        BY <1>2, <2>1, <3>1 DEF OffsetOnBoundary
      <3>3. QED
        BY <1>1, <3>1, <3>2 DEF FilesKept, PastNewest
    <2>4. QED
      BY <2>2, <2>3
  <1>8. NewestFacts'
    BY <1>1, <1>5, NewestIsNext
  <1>9. PICK n : Newest(n)'
    BY <1>3, <1>8 DEF NewestFacts
  <1>10. n >= committed /\ NewestCovered' = n
    BY <1>3, <1>8, <1>9 DEF NewestFacts, Newest
  <1>11. QED
    BY <1>3, <1>5, <1>6, <1>7, <1>9, <1>10 DEF FilesKept

(* Pruning leaves the newest. *)
LEMMA FilesPrune ==
  ASSUME IInv, IInv', FilesKept, Prune, Excess # {}
  PROVE  /\ FilesKept'
         /\ NewestCovered' = NewestCovered
         /\ \A n : Newest(n) => Newest(n)' /\ snaps'[n] = snaps[n]
  <1>1. /\ (TypeOK /\ Bounded)' /\ TypeOK /\ Bounded /\ AllIntact
        /\ Len(wal) \in Nat /\ DOMAIN snaps \subseteq Nat
    BY DEF IInv, TypeOK, FilesKept
  <1>2. NewestFacts
    BY <1>1, NewestIs
  <1>3. PICK n : Newest(n)
    <2>1. DOMAIN snaps # {}
      BY DEF Excess
    <2>2. QED
      BY <1>2, <2>1 DEF NewestFacts
  <1>4. PICK m : m = Max(Excess)
    OBVIOUS
  <1>5. m \in Excess
    <2>1. Excess \subseteq DOMAIN snaps
      BY DEF Excess
    <2>2. \A c \in Excess : c \in Nat /\ c <= Len(wal)
      <3>1. ASSUME NEW c \in DOMAIN snaps PROVE c \in Nat /\ c <= Len(wal)
        <4>1. c \in Nat /\ snaps[c].offset \in Nat
          BY <1>1 DEF TypeOK
        <4>2. c <= snaps[c].offset /\ snaps[c].offset <= Len(wal)
          BY <1>1 DEF Bounded
        <4>3. QED
          BY <1>1, <4>1, <4>2
      <3>2. QED
        BY <2>1, <3>1
    <2>3. QED
      BY <1>1, <1>4, <2>2, MaxIsGreatest
  <1>6. m # n
    <2>1. ASSUME m = n PROVE FALSE
      <3>1. {d \in DOMAIN snaps : d > n} = {}
        BY <1>1, <1>3 DEF Newest
      <3>2. Cardinality({d \in DOMAIN snaps : d > n}) = 0
        BY <3>1, FS_EmptySet
      <3>3. QED
        BY <1>5, <2>1, <3>2, NodeAssumption DEF Excess
    <2>2. QED
      BY <2>1
  <1>7. /\ snaps' = [c \in DOMAIN snaps \ {m} |-> snaps[c]]
        /\ UNCHANGED <<wal, up, committed>>
    BY <1>4 DEF Prune, Restrict
  <1>8. DOMAIN snaps' = DOMAIN snaps \ {m} /\ \A c \in DOMAIN snaps' : snaps'[c] = snaps[c]
    BY <1>7
  <1>9. Newest(n)' /\ snaps'[n] = snaps[n]
    BY <1>3, <1>6, <1>8 DEF Newest
  <1>10. AllIntact'
    BY <1>1, <1>8 DEF AllIntact
  <1>11. NewestFacts'
    BY <1>1, <1>10, NewestIsNext
  <1>12. /\ NewestCovered = n /\ NewestCovered' = n
         /\ \A k : Newest(k) => k = n
         /\ \A k : Newest(k)' => k = n
    BY <1>2, <1>3, <1>9, <1>11 DEF NewestFacts
  <1>13. Parsed' = Parsed
    BY <1>7, SameParsed
  <1>14. ReadsCovered' /\ CountsReads'
    BY <1>7, <1>8, <1>13 DEF FilesKept, ReadsCovered, CountsReads
  <1>15. PastNewest'
    <2>1. SUFFICES ASSUME up', NEW k, Newest(k)', OffsetOnBoundary(snaps[k].offset)'
                   PROVE  committed' >= k
      BY DEF PastNewest
    <2>2. k = n /\ OffsetOnBoundary(snaps[n].offset)
      BY <1>7, <1>9, <1>12, <2>1 DEF OffsetOnBoundary
    <2>3. QED
      BY <1>3, <1>7, <2>1, <2>2 DEF FilesKept, PastNewest
  <1>16. QED
    BY <1>9, <1>10, <1>12, <1>14, <1>15 DEF FilesKept

(* An open counts at least what is read. *)
LEMMA OpensPast ==
  ASSUME TypeOK, Bounded, FilesKept
  PROVE  /\ OpenDir.committed >= Parsed
         /\ \A n : Newest(n) /\ OffsetOnBoundary(snaps[n].offset) => OpenDir.committed >= n
  <1>1. /\ AllIntact /\ wal \in Seq(Writes) /\ Len(wal) \in Nat
        /\ DOMAIN snaps \subseteq Nat
    BY DEF FilesKept, TypeOK
  <1>2. NewestFacts /\ ParsedFacts
    BY <1>1, NewestIs, ParsedIs
  <1>3. Parsed \in 0..Len(wal)
    BY <1>2 DEF ParsedFacts
  <1>4. CASE DOMAIN snaps = {}
    <2>1. OpenDir.committed = Parsed
      BY <1>1, <1>4, OpensAs
    <2>2. QED
      BY <1>3, <1>4, <2>1 DEF Newest
  <1>5. CASE DOMAIN snaps # {}
    <2>1. PICK n : n \in Nat /\ Newest(n) /\ \A k : Newest(k) => k = n
      BY <1>2, <1>5 DEF NewestFacts
    <2>2. PICK o : o = snaps[n].offset
      OBVIOUS
    <2>3. /\ o \in 0..Len(wal) /\ OpenFull.committed = Parsed
          /\ OpenAt(n).committed = n + Len(ParseFrom(o))
          /\ OpenDir = IF OffsetOnBoundary(o) THEN OpenAt(n) ELSE OpenFull
      BY <1>1, <2>1, <2>2, OpensAs
    <2>4. /\ Len(ParseFrom(o)) \in Nat
          /\ o <= Parsed => Parsed <= o + Len(ParseFrom(o))
      BY <2>3, TailReads
    <2>5. n >= Parsed \/ n >= o
      BY <2>1, <2>2 DEF FilesKept, ReadsCovered, Newest
    <2>6. CASE OffsetOnBoundary(o)
      <3>1. OpenDir.committed = n + Len(ParseFrom(o))
        BY <2>3, <2>6
      <3>2. QED
        BY <1>1, <1>3, <2>1, <2>3, <2>4, <2>5, <3>1
    <2>7. CASE ~OffsetOnBoundary(o)
      <3>1. OpenDir.committed = Parsed
        BY <2>3, <2>7
      <3>2. QED
        BY <1>3, <2>1, <2>2, <2>7, <3>1
    <2>8. QED
      BY <2>6, <2>7
  <1>6. QED
    BY <1>4, <1>5

LEMMA FilesOpen ==
  ASSUME IInv, FilesKept, Open(OpenDir)
  PROVE  /\ FilesKept'
         /\ NewestCovered' = NewestCovered
  <1>1. UNCHANGED <<wal, snaps>> /\ committed' = OpenDir.committed
    BY DEF Open, disk
  <1>2. TypeOK /\ Bounded
    BY DEF IInv
  <1>3. Parsed' = Parsed
    BY <1>1, SameParsed
  <1>4. NewestCovered' = NewestCovered
    BY <1>1 DEF NewestCovered, ValidSnapshots
  <1>5. AllIntact' /\ ReadsCovered' /\ CountsReads'
    BY <1>1, <1>2, <1>3, OpensPast DEF FilesKept, AllIntact, ReadsCovered, CountsReads
  <1>6. \A n : (Newest(n)' <=> Newest(n))
    BY <1>1 DEF Newest
  <1>7. PastNewest'
    <2>1. SUFFICES ASSUME NEW n, Newest(n), OffsetOnBoundary(snaps[n].offset)'
                   PROVE  committed' >= n
      BY <1>6 DEF PastNewest
    <2>2. OffsetOnBoundary(snaps[n].offset)
      BY <1>1, <2>1 DEF OffsetOnBoundary
    <2>3. QED
      BY <1>1, <1>2, <2>1, <2>2, OpensPast
  <1>8. QED
    BY <1>4, <1>5, <1>7 DEF FilesKept

-----------------------------------------------------------------------------
(* What the lifecycle of the daemon adds. *)

(* A callback that prunes has taken its snapshot, and has counted no more, *)
LastTaken ==
  job = "prune" =>
    \E n : /\ Newest(n) /\ n >= committed
           /\ n = committed => snaps[n].offset = Len(wal)

(* so a shutdown leaves nothing to read behind the newest, *)
Restable ==
  state = "STOPPED" /\ ~late =>
    \/ wal = <<>> /\ DOMAIN snaps = {}
    \/ \E n : /\ Newest(n) /\ n >= Parsed
              /\ OffsetOnBoundary(snaps[n].offset) => snaps[n].offset = Len(wal)

(* and the newest covers the last whole multiple of the cadence. *)
Covers(count) == NewestCovered >= count - (count % Cadence)

CadenceKept ==
  state = "RUNNING" /\ ~late =>
    /\ job \in {"idle", "append"} => Covers(committed)
    /\ job \in {"apply", "head"} => committed > 0 /\ Covers(committed - 1)
    /\ job = "prune" => NewestCovered >= committed

DInv == DaemonTypes /\ JobsMatch /\ FilesKept /\ LastTaken /\ Restable /\ CadenceKept

(* What is counted is covered whole when the newest is not behind it. *)
LEMMA CoversAll ==
  ASSUME NEW c \in Nat, NEW n \in Nat, n >= c
  PROVE  n >= c - (c % Cadence)
  <1>1. Cadence \in Nat \ {0}
    BY DaemonAssumption
  <1>2. c % Cadence \in 0..Cadence - 1
    BY <1>1
  <1>3. QED
    BY <1>2

LEMMA InitKept ==
  ASSUME DaemonInit
  PROVE  IInv /\ DInv
  <1>1. Fresh /\ up = FALSE
    BY DEF DaemonInit, Fresh
  <1>2. IInv
    BY <1>1, FreshOrdered
  <1>3. DOMAIN snaps = {}
    BY <1>1 DEF Fresh
  <1>4. FilesKept
    BY <1>1, <1>3 DEF FilesKept, AllIntact, ReadsCovered, CountsReads, PastNewest
  <1>5. DaemonTypes
    <2>1. mempool = <<>> /\ <<>> \in Seq(Submissions)
      BY DEF DaemonInit
    <2>2. QED
      BY <2>1 DEF DaemonInit, DaemonTypes
  <1>6. JobsMatch /\ LastTaken /\ CadenceKept
    BY <1>1 DEF DaemonInit, JobsMatch, LastTaken, CadenceKept
  <1>7. Restable
    BY <1>1, <1>3 DEF Fresh, Restable
  <1>8. QED
    BY <1>2, <1>4, <1>5, <1>6, <1>7 DEF DInv

LEMMA StartKept ==
  ASSUME IInv, DInv, Start
  PROVE  DInv'
  <1>1. /\ state = "STOPPED" /\ job = "idle" /\ pc = "idle"
        /\ state' = "RUNNING" /\ up' /\ pc' = pc /\ committed' = OpenDir.committed
        /\ UNCHANGED <<wal, snaps, mempool, batch, job, accepted, late>>
    BY DEF Start, Open, disk, DInv, JobsMatch
  <1>2. Open(OpenDir) /\ TypeOK /\ Bounded /\ FilesKept /\ AllIntact
    BY DEF Start, IInv, DInv, FilesKept
  <1>3. FilesKept' /\ NewestCovered' = NewestCovered
    BY <1>2, FilesOpen
  <1>4. DaemonTypes'
    BY <1>1 DEF DInv, DaemonTypes
  <1>5. JobsMatch' /\ LastTaken' /\ Restable'
    BY <1>1 DEF JobsMatch, LastTaken, Restable
  <1>6. CadenceKept'
    <2>1. SUFFICES ASSUME ~late PROVE Covers(committed)'
      BY <1>1 DEF CadenceKept
    <2>2. NewestFacts /\ ParsedFacts
      BY <1>2, NewestIs, ParsedIs DEF TypeOK
    <2>3. Parsed \in Nat
      BY <1>2, <2>2 DEF ParsedFacts, TypeOK
    <2>4. /\ OpenDir.committed \in Nat /\ NewestCovered \in Nat
          /\ NewestCovered >= OpenDir.committed
      <3>1. CASE wal = <<>> /\ DOMAIN snaps = {}
        <4>1. OpenDir.committed = Parsed /\ NewestCovered = 0
          BY <1>2, <2>2, <3>1, OpensAs DEF NewestFacts
        <4>2. Parsed = 0
          BY <2>2, <3>1 DEF ParsedFacts
        <4>3. QED
          BY <4>1, <4>2
      <3>2. CASE \E n : /\ Newest(n) /\ n >= Parsed
                        /\ OffsetOnBoundary(snaps[n].offset) => snaps[n].offset = Len(wal)
        <4>1. PICK n : /\ Newest(n) /\ n >= Parsed
                       /\ OffsetOnBoundary(snaps[n].offset) => snaps[n].offset = Len(wal)
          BY <3>2
        <4>2. n \in Nat /\ NewestCovered = n
          BY <2>2, <4>1 DEF NewestFacts
        <4>3. PICK o : o = snaps[n].offset
          OBVIOUS
        <4>4. /\ o \in 0..Len(wal) /\ OpenFull.committed = Parsed
              /\ OpenAt(n).committed = n + Len(ParseFrom(o))
              /\ OpenDir = IF OffsetOnBoundary(o) THEN OpenAt(n) ELSE OpenFull
          BY <1>2, <4>1, <4>3, OpensAs
        <4>5. o = Len(wal) => Len(ParseFrom(o)) = 0
          BY <1>2, <4>4, TailReads
        <4>6. CASE OffsetOnBoundary(o)
          <5>1. OpenDir.committed = n + Len(ParseFrom(o)) /\ Len(ParseFrom(o)) = 0
            BY <4>1, <4>3, <4>4, <4>5, <4>6
          <5>2. QED
            BY <4>2, <5>1
        <4>7. CASE ~OffsetOnBoundary(o)
          <5>1. OpenDir.committed = Parsed
            BY <4>4, <4>7
          <5>2. QED
            BY <2>3, <4>1, <4>2, <5>1
        <4>8. QED
          BY <4>6, <4>7
      <3>3. QED
        BY <1>1, <2>1, <3>1, <3>2 DEF DInv, Restable
    <2>5. QED
      BY <1>1, <1>3, <2>4, CoversAll DEF Covers
  <1>7. QED
    BY <1>3, <1>4, <1>5, <1>6 DEF DInv

(* Between two callbacks, and on entering one, no file is touched. *)
LEMMA IntakeKept ==
  ASSUME IInv, DInv,
         \/ \E s \in Submissions : Submit(s)
         \/ OnTick \/ Shutdown \/ Flush \/ UNCHANGED dvars
  PROVE  DInv'
  <1>1. UNCHANGED vars /\ UNCHANGED late
    BY DEF Submit, OnTick, Shutdown, Flush, dvars, node, daemon
  <1>2. UNCHANGED <<wal, snaps, up, pc, committed>>
    BY <1>1 DEF vars, disk, process
  <1>3. /\ FilesKept' /\ NewestCovered' = NewestCovered
        /\ \A n : Newest(n)' <=> Newest(n)
    BY <1>2, FilesStay DEF DInv
  <1>4. DaemonTypes /\ JobsMatch
    BY DEF DInv
  <1>5. CASE \E s \in Submissions : Submit(s)
    <2>1. PICK s \in Submissions : Submit(s)
      BY <1>5
    <2>2. Append(mempool, s) \in Seq(Submissions)
      BY <1>4 DEF DaemonTypes
    <2>3. DaemonTypes' /\ JobsMatch'
      BY <1>2, <1>4, <2>1, <2>2 DEF Submit, DaemonTypes, JobsMatch
    <2>4. LastTaken' /\ Restable' /\ CadenceKept'
      BY <1>2, <1>3, <2>1 DEF Submit, DInv, LastTaken, Restable, CadenceKept, Covers
    <2>5. QED
      BY <1>3, <2>3, <2>4 DEF DInv
  <1>6. CASE OnTick
    <2>1. mempool' \in Seq(Submissions) /\ batch' \in SUBSET Submissions /\ job' = "append"
      BY <1>4, <1>6, DrainTyped DEF OnTick
    <2>2. DaemonTypes' /\ JobsMatch'
      BY <1>2, <1>4, <1>6, <2>1 DEF OnTick, DaemonTypes, JobsMatch
    <2>3. LastTaken' /\ Restable' /\ CadenceKept'
      BY <1>2, <1>3, <1>6, <2>1 DEF OnTick, DInv, LastTaken, Restable, CadenceKept, Covers
    <2>4. QED
      BY <1>3, <2>2, <2>3 DEF DInv
  <1>7. CASE Shutdown
    <2>1. DaemonTypes' /\ JobsMatch'
      BY <1>2, <1>4, <1>7 DEF Shutdown, DaemonTypes, JobsMatch
    <2>2. LastTaken' /\ Restable' /\ CadenceKept'
      BY <1>7 DEF Shutdown, LastTaken, Restable, CadenceKept
    <2>3. QED
      BY <1>3, <2>1, <2>2 DEF DInv
  <1>8. CASE Flush
    <2>1. state = "SHUTTING_DOWN" /\ state' = state
      BY <1>4, <1>8 DEF Flush, DaemonTypes, JobsMatch
    <2>2. /\ mempool' \in Seq(Submissions) /\ batch' \in SUBSET Submissions
          /\ job' \in {"append", "snapshot"}
      <3>1. CASE Drain
        BY <1>4, <3>1, DrainTyped
      <3>2. CASE job' = "snapshot" /\ UNCHANGED <<mempool, batch>>
        BY <1>4, <3>2 DEF DaemonTypes
      <3>3. QED
        BY <1>8, <3>1, <3>2 DEF Flush
    <2>3. DaemonTypes' /\ JobsMatch'
      BY <1>1, <1>2, <1>4, <1>8, <2>1, <2>2 DEF Flush, DaemonTypes, JobsMatch
    <2>4. LastTaken' /\ Restable' /\ CadenceKept'
      BY <2>1, <2>2 DEF LastTaken, Restable, CadenceKept
    <2>5. QED
      BY <1>3, <2>3, <2>4 DEF DInv
  <1>9. CASE UNCHANGED dvars
    <2>1. UNCHANGED <<state, mempool, batch, job, late>>
      BY <1>9 DEF dvars, daemon
    <2>2. DaemonTypes' /\ JobsMatch'
      BY <1>2, <1>4, <2>1 DEF DaemonTypes, JobsMatch
    <2>3. Parsed' = Parsed
      BY <1>2, SameParsed
    <2>4. LastTaken' /\ CadenceKept'
      BY <1>2, <1>3, <2>1 DEF DInv, LastTaken, CadenceKept, Covers
    <2>5. Restable'
      BY <1>2, <1>3, <2>1, <2>3 DEF DInv, Restable, OffsetOnBoundary
    <2>6. QED
      BY <1>3, <2>2, <2>4, <2>5 DEF DInv
  <1>10. QED
    BY <1>5, <1>6, <1>7, <1>8, <1>9

LEMMA AppendKept ==
  ASSUME IInv, DInv, AppendBatch
  PROVE  DInv'
  <1> DEFINE x == [tick |-> committed, block |-> batch, written |-> "line"]
  <1>1. /\ job = "append" /\ job' = "apply" /\ batch' = {} /\ up /\ up' = up
        /\ wal' = Append(wal, x) /\ committed' = committed + 1 /\ pc' = "appended"
        /\ UNCHANGED <<snaps, head, promised, state, mempool, late>>
    BY DEF AppendBatch, AppendLine, Write
  <1>2. TypeOK /\ DaemonTypes /\ JobsMatch /\ FilesKept
    BY DEF IInv, DInv
  <1>3. x \in Writes
    BY <1>2, DaemonAssumption DEF Writes, TypeOK, DaemonTypes
  <1>4. x.tick = committed
    OBVIOUS
  <1> HIDE DEF x
  <1>5. LogGrows(x)
    BY <1>1, <1>3, <1>4 DEF LogGrows
  <1>6. FilesKept' /\ NewestCovered' = NewestCovered
    BY <1>1, <1>2, <1>5, FilesGrow
  <1>7. DaemonTypes' /\ JobsMatch' /\ LastTaken' /\ Restable'
    BY <1>1, <1>2 DEF DaemonTypes, JobsMatch, LastTaken, Restable
  <1>8. CadenceKept'
    <2>1. SUFFICES ASSUME state = "RUNNING", ~late
                   PROVE  committed' > 0 /\ NewestCovered >= (committed' - 1) - ((committed' - 1) % Cadence)
      BY <1>1, <1>6 DEF CadenceKept, Covers
    <2>2. committed \in Nat /\ committed' - 1 = committed
      BY <1>1, <1>2 DEF TypeOK
    <2>3. NewestCovered >= committed - (committed % Cadence)
      BY <1>1, <2>1 DEF DInv, CadenceKept, Covers
    <2>4. QED
      BY <1>1, <2>2, <2>3
  <1>9. QED
    BY <1>6, <1>7, <1>8 DEF DInv

LEMMA ApplyKept ==
  ASSUME IInv, DInv, ApplyBatch
  PROVE  DInv'
  <1>1. /\ job = "apply" /\ job' = "head" /\ pc' = "applied"
        /\ UNCHANGED <<wal, snaps, up, committed, state, mempool, batch, late>>
    BY DEF ApplyBatch, ApplyTick, disk
  <1>2. FilesKept' /\ NewestCovered' = NewestCovered
    BY <1>1, FilesStay DEF DInv
  <1>3. DaemonTypes' /\ JobsMatch' /\ LastTaken' /\ Restable'
    BY <1>1 DEF DInv, DaemonTypes, JobsMatch, LastTaken, Restable
  <1>4. CadenceKept'
    BY <1>1, <1>2 DEF DInv, CadenceKept, Covers
  <1>5. QED
    BY <1>2, <1>3, <1>4 DEF DInv

(* A tick whose count is no multiple of the cadence takes no snapshot, and   *)
(* then the last multiple is the one before.                                 *)
LEMMA HeadKept ==
  ASSUME IInv, DInv, PublishHead
  PROVE  DInv'
  <1>1. /\ job = "head" /\ pc' = "idle"
        /\ UNCHANGED <<wal, snaps, up, committed, state, mempool, batch, late>>
    BY DEF PublishHead, WriteHead
  <1>2. /\ job' \in {"flush", "snapshot", "idle"}
        /\ job' = "flush" => state # "RUNNING"
        /\ job' = "idle" /\ state = "RUNNING" => ~SnapshotDue(committed, Cadence)
    BY DEF PublishHead
  <1>3. state # "STOPPED"
    BY <1>1 DEF DInv, JobsMatch
  <1>4. FilesKept' /\ NewestCovered' = NewestCovered
    BY <1>1, FilesStay DEF DInv
  <1>5. DaemonTypes' /\ JobsMatch' /\ LastTaken' /\ Restable'
    BY <1>1, <1>2, <1>3 DEF DInv, DaemonTypes, JobsMatch, LastTaken, Restable
  <1>6. CadenceKept'
    <2>1. SUFFICES ASSUME state = "RUNNING", ~late, job' = "idle"
                   PROVE  NewestCovered >= committed - (committed % Cadence)
      BY <1>1, <1>2, <1>4 DEF CadenceKept, Covers
    <2>2. committed \in Nat /\ Cadence \in Nat \ {0}
      BY DaemonAssumption DEF IInv, TypeOK
    <2>3. /\ committed > 0
          /\ NewestCovered >= (committed - 1) - ((committed - 1) % Cadence)
      BY <1>1, <2>1 DEF DInv, CadenceKept, Covers
    <2>4. PICK c \in Nat : c = committed - 1
      BY <2>2, <2>3
    <2>5. (c + 1) % Cadence # 0
      <3>1. committed % Cadence # 0
        BY <1>2, <2>1, <2>3 DEF SnapshotDue
      <3>2. c + 1 = committed
        BY <2>2, <2>4
      <3>3. QED
        BY <3>1, <3>2
    <2>6. c % Cadence \in 0..Cadence - 1 /\ (c + 1) % Cadence = (c % Cadence) + 1
      BY <2>2, <2>5, NextMultiple
    <2>7. c + 1 = committed /\ NewestCovered >= c - (c % Cadence)
      BY <2>2, <2>3, <2>4
    <2>8. committed - (committed % Cadence) = c - (c % Cadence)
      <3>1. committed % Cadence = (c % Cadence) + 1
        BY <2>6, <2>7
      <3>2. QED
        BY <2>2, <2>6, <2>7, <3>1
    <2>9. QED
      BY <2>7, <2>8
  <1>7. QED
    BY <1>4, <1>5, <1>6 DEF DInv

LEMMA SnapshotKept ==
  ASSUME IInv, IInv', DInv, Snapshot
  PROVE  DInv'
  <1>1. /\ job' = "prune" /\ pc' = "pruning" /\ late' = FALSE
        /\ PublishSnapshot
        /\ UNCHANGED <<wal, up, committed, state, mempool, batch>>
    BY DEF Snapshot, PublishSnapshot
  <1>2. /\ FilesKept' /\ NewestCovered' >= committed
        /\ \E n : /\ Newest(n)' /\ n >= committed
                  /\ n = committed => snaps'[n].offset = Len(wal)
    BY <1>1, FilesTake DEF DInv
  <1>3. state # "STOPPED"
    BY DEF Snapshot, DInv, JobsMatch
  <1>4. DaemonTypes' /\ JobsMatch' /\ Restable'
    BY <1>1, <1>3 DEF DInv, DaemonTypes, JobsMatch, Restable
  <1>5. LastTaken' /\ CadenceKept'
    BY <1>1, <1>2 DEF LastTaken, CadenceKept
  <1>6. QED
    BY <1>2, <1>4, <1>5 DEF DInv

LEMMA PruneKept ==
  ASSUME IInv, IInv', DInv, PruneOne
  PROVE  DInv'
  <1>1. /\ job = "prune" /\ Prune /\ Excess # {}
        /\ UNCHANGED <<state, mempool, batch, job, late>>
    BY DEF PruneOne, daemon
  <1>2. UNCHANGED <<wal, up, pc, committed>>
    BY <1>1 DEF Prune
  <1>3. /\ FilesKept' /\ NewestCovered' = NewestCovered
        /\ \A n : Newest(n) => Newest(n)' /\ snaps'[n] = snaps[n]
    BY <1>1, FilesPrune DEF DInv
  <1>4. state # "STOPPED"
    BY <1>1 DEF DInv, JobsMatch
  <1>5. DaemonTypes' /\ JobsMatch' /\ Restable'
    BY <1>1, <1>2, <1>4 DEF DInv, DaemonTypes, JobsMatch, Restable
  <1>6. LastTaken'
    <2>1. PICK n : /\ Newest(n) /\ n >= committed
                   /\ n = committed => snaps[n].offset = Len(wal)
      BY <1>1 DEF DInv, LastTaken
    <2>2. /\ Newest(n)' /\ n >= committed'
          /\ n = committed' => snaps'[n].offset = Len(wal')
      BY <1>2, <1>3, <2>1
    <2>3. QED
      BY <2>2 DEF LastTaken
  <1>7. CadenceKept'
    BY <1>1, <1>2, <1>3 DEF DInv, CadenceKept, Covers
  <1>8. QED
    BY <1>3, <1>5, <1>6, <1>7 DEF DInv

(* The last file is pruned: a tick goes back to waiting, a shutdown stops.   *)
LEMMA PrunedKept ==
  ASSUME IInv, DInv, Pruned
  PROVE  DInv'
  <1>1. /\ job = "prune" /\ job' = "idle" /\ pc' = "idle" /\ up
        /\ UNCHANGED <<wal, snaps, mempool, batch, late>>
        /\ state # "STOPPED"
    BY DEF Pruned, disk, Stop, DInv, JobsMatch
  <1>2. up' => up /\ committed' = committed
    BY DEF Pruned, Stop
  <1>3. /\ FilesKept' /\ NewestCovered' = NewestCovered
        /\ \A n : Newest(n)' <=> Newest(n)
    BY <1>1, <1>2, FilesStay DEF DInv
  <1>4. DaemonTypes' /\ JobsMatch'
    BY <1>1 DEF Pruned, Stop, DInv, DaemonTypes, JobsMatch
  <1>5. LastTaken'
    BY <1>1 DEF LastTaken
  <1>6. CASE state = "SHUTTING_DOWN"
    <2>1. state' = "STOPPED"
      BY <1>6 DEF Pruned
    <2>2. Restable'
      <3>1. PICK n : /\ Newest(n) /\ n >= committed
                     /\ n = committed => snaps[n].offset = Len(wal)
        BY <1>1 DEF DInv, LastTaken
      <3>2. TypeOK /\ Bounded /\ AllIntact /\ committed >= Parsed
        BY <1>1 DEF IInv, DInv, FilesKept, CountsReads
      <3>3. NewestFacts /\ ParsedFacts
        BY <3>2, NewestIs, ParsedIs DEF TypeOK
      <3>4. n \in Nat /\ committed \in Nat /\ Parsed \in Nat
        BY <3>1, <3>2, <3>3 DEF NewestFacts, ParsedFacts, TypeOK
      <3>5. n >= Parsed
        BY <3>1, <3>2, <3>4
      <3>6. OffsetOnBoundary(snaps[n].offset) => snaps[n].offset = Len(wal)
        <4>1. SUFFICES ASSUME OffsetOnBoundary(snaps[n].offset)
                       PROVE  snaps[n].offset = Len(wal)
          OBVIOUS
        <4>2. committed >= n
          BY <1>1, <3>1, <4>1 DEF DInv, FilesKept, PastNewest
        <4>3. QED
          BY <3>1, <3>4, <4>2
      <3>7. Parsed' = Parsed
        BY <1>1, SameParsed
      <3>8. /\ Newest(n)' /\ n >= Parsed'
            /\ OffsetOnBoundary(snaps[n].offset)' => snaps'[n].offset = Len(wal')
        BY <1>1, <1>3, <3>1, <3>5, <3>6, <3>7 DEF OffsetOnBoundary
      <3>9. QED
        BY <3>8 DEF Restable
    <2>3. CadenceKept'
      BY <2>1 DEF CadenceKept
    <2>4. QED
      BY <1>3, <1>4, <1>5, <2>2, <2>3 DEF DInv
  <1>7. CASE state # "SHUTTING_DOWN"
    <2>1. state' = state /\ committed' = committed
      BY <1>7 DEF Pruned
    <2>2. Restable'
      BY <1>1, <2>1 DEF Restable
    <2>3. CadenceKept'
      <3>1. SUFFICES ASSUME state = "RUNNING", ~late PROVE Covers(committed)'
        BY <1>1, <2>1 DEF CadenceKept
      <3>2. NewestCovered >= committed
        BY <1>1, <3>1 DEF DInv, CadenceKept
      <3>3. TypeOK /\ Bounded /\ AllIntact
        BY DEF IInv, DInv, FilesKept
      <3>4. NewestFacts
        BY <3>3, NewestIs
      <3>5. NewestCovered \in Nat /\ committed \in Nat
        <4>1. NewestCovered \in Nat
          BY <3>4 DEF NewestFacts
        <4>2. committed \in Nat
          BY <3>3 DEF TypeOK
        <4>3. QED
          BY <4>1, <4>2
      <3>6. QED
        BY <1>3, <2>1, <3>2, <3>5, CoversAll DEF Covers
    <2>4. QED
      BY <1>3, <1>4, <1>5, <2>2, <2>3 DEF DInv
  <1>8. QED
    BY <1>6, <1>7

(* However the process ends, only the files are left. *)
LEMMA GoneKept ==
  ASSUME IInv, DInv, Gone, ~up', pc' = "idle", FilesKept'
  PROVE  DInv'
  <1>1. /\ state' = "STOPPED" /\ mempool' = <<>> /\ batch' = {} /\ job' = "idle"
        /\ late' = TRUE
    BY DEF Gone
  <1>2. mempool' \in Seq(Submissions)
    BY <1>1
  <1>3. DaemonTypes'
    BY <1>1, <1>2 DEF DaemonTypes
  <1>4. JobsMatch' /\ LastTaken' /\ Restable' /\ CadenceKept'
    BY <1>1 DEF JobsMatch, LastTaken, Restable, CadenceKept
  <1>5. QED
    BY <1>3, <1>4 DEF DInv

LEMMA EndKept ==
  ASSUME IInv, DInv,
         \/ KilledBetween \/ KilledInWriteHead \/ UncaughtException
         \/ \E written \in Tears : KilledInAppend(written)
  PROVE  DInv'
  <1>1. CASE KilledBetween \/ KilledInWriteHead \/ UncaughtException
    <2>1. /\ Gone /\ up' = FALSE /\ pc' = "idle"
          /\ UNCHANGED <<wal, snaps>>
      BY <1>1 DEF KilledBetween, Crash, KilledInWriteHead, CrashInWriteHead,
                  UncaughtException, Stop, disk
    <2>2. FilesKept'
      BY <2>1, FilesStay DEF DInv
    <2>3. QED
      BY <2>1, <2>2, GoneKept
  <1>2. ASSUME NEW written \in Tears, KilledInAppend(written) PROVE DInv'
    <2> DEFINE x == [tick |-> committed, block |-> batch, written |-> written]
    <2>1. /\ Gone /\ up /\ up' = FALSE /\ pc' = "idle" /\ wal' = Append(wal, x)
          /\ UNCHANGED <<snaps, head, promised>>
      BY <1>2 DEF KilledInAppend, CrashInAppend, Write, Stop
    <2>2. x \in Writes /\ x.tick = committed
      <3>1. committed \in Nat /\ batch \in Blocks
        BY DaemonAssumption DEF IInv, TypeOK, DInv, DaemonTypes
      <3>2. written \in {"line", "part", "text"}
        BY NodeAssumption
      <3>3. QED
        BY <3>1, <3>2 DEF Writes
    <2> HIDE DEF x
    <2>3. LogGrows(x)
      BY <2>1, <2>2 DEF LogGrows
    <2>4. FilesKept'
      BY <2>1, <2>3, FilesGrow DEF DInv
    <2>5. QED
      BY <2>1, <2>4, GoneKept
  <1>3. QED
    BY <1>1, <1>2

-----------------------------------------------------------------------------
(* The theorems. *)

LEMMA DaemonKept ==
  ASSUME IInv, DInv, [DaemonNext]_dvars
  PROVE  IInv' /\ DInv' /\ [Next]_vars
  <1>1. [Next]_vars
    BY DaemonStepIs DEF DInv
  <1>2. IInv'
    BY <1>1, StepOrdered
  <1>3. DInv'
    <2>1. CASE Start
      BY <2>1, StartKept
    <2>2. CASE \/ \E s \in Submissions : Submit(s)
               \/ OnTick \/ Shutdown \/ Flush \/ UNCHANGED dvars
      BY <2>2, IntakeKept
    <2>3. CASE AppendBatch
      BY <2>3, AppendKept
    <2>4. CASE ApplyBatch
      BY <2>4, ApplyKept
    <2>5. CASE PublishHead
      BY <2>5, HeadKept
    <2>6. CASE Snapshot
      BY <1>2, <2>6, SnapshotKept
    <2>7. CASE PruneOne
      BY <1>2, <2>7, PruneKept
    <2>8. CASE Pruned
      BY <2>8, PrunedKept
    <2>9. CASE \/ KilledBetween \/ KilledInWriteHead \/ UncaughtException
               \/ \E written \in Tears : KilledInAppend(written)
      BY <2>9, EndKept
    <2>10. QED
      BY <2>1, <2>2, <2>3, <2>4, <2>5, <2>6, <2>7, <2>8, <2>9 DEF DaemonNext, Callback
  <1>4. QED
    BY <1>1, <1>2, <1>3

LEMMA DaemonOrdered ==
  DaemonSpec => [](IInv /\ DInv)
  <1>1. IInv /\ DInv /\ [DaemonNext]_dvars => (IInv /\ DInv)'
    BY DaemonKept
  <1>2. QED
    BY <1>1, InitKept, PTL DEF DaemonSpec

LEMMA NewestCounts ==
  ASSUME IInv, DInv
  PROVE  NewestCovered \in Nat
  <1>1. NewestFacts
    BY NewestIs DEF IInv, DInv, FilesKept
  <1>2. CASE DOMAIN snaps = {}
    BY <1>1, <1>2 DEF NewestFacts
  <1>3. CASE DOMAIN snaps # {}
    <2>1. PICK n \in Nat : Newest(n)
      BY <1>1, <1>3 DEF NewestFacts
    <2>2. QED
      BY <1>1, <2>1 DEF NewestFacts
  <1>4. QED
    BY <1>2, <1>3

LEMMA InvTail ==
  ASSUME IInv, DInv
  PROVE  TailWithinCadence
  <1>1. SUFFICES ASSUME state = "RUNNING", job = "idle", ~late
                 PROVE  committed - NewestCovered < Cadence
    BY DEF TailWithinCadence
  <1>2. NewestCovered >= committed - (committed % Cadence)
    BY <1>1 DEF DInv, CadenceKept, Covers
  <1>3. TypeOK /\ Bounded /\ AllIntact
    BY DEF IInv, DInv, FilesKept
  <1>4. NewestCovered \in Nat
    BY NewestCounts
  <1>5. committed \in Nat /\ Cadence \in Nat \ {0}
    BY <1>3, DaemonAssumption DEF TypeOK
  <1>6. committed % Cadence \in 0..Cadence - 1
    BY <1>5
  <1>7. QED
    BY <1>2, <1>4, <1>5, <1>6

LEMMA InvInstant ==
  ASSUME IInv, DInv
  PROVE  RestartIsInstant
  <1>1. SUFFICES ASSUME state = "STOPPED", ~late, wal # <<>>,
                        OffsetOnBoundary(Len(wal)), Unglued
                 PROVE  /\ TailTicks = 0
                        /\ OpenDir = [committed |-> NewestCovered, state |-> promised]
    BY DEF RestartIsInstant
  <1>2. /\ TypeOK /\ Bounded /\ AllIntact /\ Numbered /\ PromisedAgrees /\ ~up
        /\ wal \in Seq(Writes) /\ Len(wal) \in Nat
    BY <1>1 DEF IInv, InOrder, DInv, FilesKept, JobsMatch, TypeOK
  <1>3. PICK n : /\ Newest(n) /\ n >= Parsed
                 /\ OffsetOnBoundary(snaps[n].offset) => snaps[n].offset = Len(wal)
    BY <1>1 DEF DInv, Restable
  <1>4. n \in Nat /\ NewestCovered = n /\ n \in DOMAIN snaps
    BY <1>2, <1>3, NewestIs DEF NewestFacts, Newest
  <1>5. PICK o : o = snaps[n].offset
    OBVIOUS
  <1>6. /\ o \in 0..Len(wal)
        /\ OpenDir = IF OffsetOnBoundary(o) THEN OpenAt(n) ELSE OpenFull
    BY <1>2, <1>3, <1>5, OpensAs
  <1>7. OffsetOnBoundary(o)
    BY <1>1, <1>2, <1>6 DEF OffsetOnBoundary, Unglued
  <1>8. o = Len(wal) /\ n = Len(wal) /\ End = Len(wal)
    BY <1>1, <1>2, <1>3, <1>4, <1>5, <1>7, EndIs DEF Numbered
  <1>9. TailTicks = 0
    <2>1. OffsetOnBoundary(0) /\ 0 \in 0..Len(wal)
      BY <1>2 DEF OffsetOnBoundary
    <2>2. ParseFrom(0) = Span(0, End)
      BY <1>1, <1>2, <2>1, ParseIsEnd
    <2>3. Len(Span(0, End)) = End
      BY <1>2, <1>8, SpanSeq
    <2>4. QED
      BY <1>2, <1>4, <1>8, <2>2, <2>3 DEF TailTicks
  <1>10. PICK s : s = snaps[n].state
    OBVIOUS
  <1>11. Ascending(s, o) /\ s \in Seq(Nat)
    BY <1>2, <1>4, <1>5, <1>10 DEF Bounded, Ascending
  <1>12. Clean(End, End)
    BY <1>2, <1>8 DEF Clean
  <1>13. s \o Span(End, End) = s
    <2>1. End \in Nat
      BY <1>2, <1>8
    <2>2. QED
      BY <1>11, <2>1, SpanOfNone
  <1>14. TailFold(s, o).lines = 0 /\ TailFold(s, o).state = s
    <2>1. /\ TailFold(s, o).lines = End - o
          /\ \/ TailFold(s, o).state = s \o Span(o, End) /\ Clean(o, End)
             \/ TailFold(s, o).state = Refused /\ ~Clean(o, End)
      BY <1>1, <1>2, <1>6, <1>7, <1>11, TailToEnd
    <2>2. o = End /\ End - End = 0
      BY <1>2, <1>8
    <2>3. QED
      BY <1>12, <1>13, <2>1, <2>2
  <1>15. promised = s
    <2>1. PICK b : b = [state |-> s, offset |-> o]
      OBVIOUS
    <2>2. b \in Bases /\ b.state = s /\ b.offset = End
      BY <1>4, <1>5, <1>7, <1>8, <1>10, <2>1, BasesAre
    <2>3. PICK k \in Told : End <= k /\ promised = s \o Span(End, k)
      BY <1>2, <1>12, <2>2 DEF PromisedAgrees
    <2>4. k = End
      BY <1>2, <1>8, <2>3 DEF Told
    <2>5. QED
      BY <1>13, <2>3, <2>4
  <1>16. OpenDir = [committed |-> n, state |-> promised]
    <2>1. OpenDir = OpenAt(n)
      BY <1>6, <1>7
    <2>2. OpenAt(n) = [committed |-> n + TailFold(s, o).lines, state |-> TailFold(s, o).state]
      BY <1>5, <1>10 DEF OpenAt, TailFold
    <2>3. n + 0 = n
      BY <1>4
    <2>4. QED
      BY <1>14, <1>15, <2>1, <2>2, <2>3
  <1>17. QED
    BY <1>4, <1>9, <1>16

LEMMA InvRestarts ==
  ASSUME IInv
  PROVE  RestartsWhereItStopped
  <1> DEFINE h == OpenDir.state
  <1>1. SUFFICES ASSUME Unglued, NoPoison
                 PROVE  h # Refused /\ IsPrefix(promised, h)
    BY DEF RestartsWhereItStopped
  <1>2. TypeOK /\ Bounded /\ Numbered
    BY <1>1 DEF IInv, InOrder
  <1>3. End \in Nat /\ End <= Len(wal)
    BY <1>2, EndIs
  <1>4. PICK a \in Bases :
          /\ a.offset <= End
          /\ \/ h = a.state \o Span(a.offset, End) /\ Clean(a.offset, End)
             \/ h = Refused /\ ~Clean(a.offset, End)
    BY <1>1, <1>2, OpenDirIs DEF FromBase
  <1>5. a.state \in Seq(Nat) /\ a.offset \in Nat
    BY <1>2, BasesTyped DEF IsBase
  <1>6. h = a.state \o Span(a.offset, End)
    BY <1>1, <1>2, <1>3, <1>4, <1>5, NoPoisonIsClean
  <1> DEFINE t == Span(a.offset, End)
  <1>7. t \in Seq(Nat)
    BY <1>3, <1>4, <1>5, SpanSeq
  <1> HIDE DEF t
  <1>8. a.state \o t \in Seq(Nat)
    BY <1>5, <1>7
  <1>9. h # Refused
    BY <1>6, <1>8, NodeAssumption DEF t
  <1>10. QED
    BY <1>1, <1>9, InvSurvives DEF PromisedSurvives

(* Whatever it is given, and wherever it is killed, the daemon does nothing  *)
(* with the node's files but what OvtNode itself does: node.submit,          *)
(* node.snapshot and OvtNode.open, step by step.  What is proved of the node *)
(* holds of the daemon.                                                      *)
THEOREM DaemonDrivesNode == DaemonSpec => [][Next]_vars
  <1>1. IInv /\ DInv /\ [DaemonNext]_dvars => [Next]_vars
    BY DaemonKept
  <1>2. QED
    BY <1>1, DaemonOrdered, PTL DEF DaemonSpec

(* Whatever ends the process, start() opens the directory it leaves, and to  *)
(* all that was promised (OvtNode.open under Pr1Daemon.start).               *)
THEOREM DaemonRestarts == DaemonSpec => []RestartsWhereItStopped
  <1>1. IInv => RestartsWhereItStopped
    BY InvRestarts
  <1>2. QED
    BY <1>1, DaemonOrdered, PTL

(* After shutdown() the next start() has nothing to replay and gives the     *)
(* State that was live.                                                      *)
THEOREM DaemonRestIsInstant == DaemonSpec => []RestartIsInstant
  <1>1. IInv /\ DInv => RestartIsInstant
    BY InvInstant
  <1>2. QED
    BY <1>1, DaemonOrdered, PTL

(* Between two ticks the daemon is less than the cadence away from its       *)
(* newest snapshot (maybeSnapshot in onTick).                               *)
THEOREM DaemonTailBounded == DaemonSpec => []TailWithinCadence
  <1>1. IInv /\ DInv => TailWithinCadence
    BY InvTail
  <1>2. QED
    BY <1>1, DaemonOrdered, PTL

-----------------------------------------------------------------------------
(* The cadence and the SLA. *)

(* It is not longer than the tail the SLA allows, or it is 1. *)
LEMMA CadenceInTail ==
  ASSUME NEW sla \in Nat, NEW load \in Nat, NEW perTick \in Nat \ {0}, NEW margin \in Nat,
         NEW safety \in Nat \ {0}
  PROVE  OperationalCadence(sla, load, perTick, margin, safety) - 1
           <= MaxTailForSla(sla, load, perTick, margin)
  <1>1. PICK t : t = MaxTailForSla(sla, load, perTick, margin)
    OBVIOUS
  <1>2. t \in Nat
    BY <1>1, MaxTailIs
  <1>3. PICK q : q = t \div safety
    OBVIOUS
  <1>4. q \in Int /\ safety * q <= t
    BY <1>2, <1>3, QuotientIs
  <1>5. CASE q <= 1
    <2>1. AtLeast(1, q) = 1
      BY <1>4, <1>5 DEF AtLeast
    <2>2. QED
      BY <1>1, <1>2, <1>3, <2>1 DEF OperationalCadence
  <1>6. CASE q > 1
    <2>1. AtLeast(1, q) = q
      BY <1>4, <1>6 DEF AtLeast
    <2>2. q \in Nat /\ safety - 1 \in Nat
      BY <1>4, <1>6
    <2>3. (safety - 1) * q \in Nat /\ safety * q = (safety - 1) * q + q
      BY <2>2
    <2>4. q <= t
      BY <1>2, <1>4, <2>2, <2>3
    <2>5. QED
      BY <1>1, <1>2, <1>3, <1>4, <2>1, <2>4 DEF OperationalCadence
  <1>7. QED
    BY <1>4, <1>5, <1>6

(* What the SLA is for: a daemon that snapshots at the cadence derived from  *)
(* it and is killed between two ticks is back within it, by the cost model   *)
(* of recovery-sla.ts (maybeSnapshot in onTick, then OvtNode.open).  Only a  *)
(* process that has already ended since its last snapshot may take longer.   *)
THEOREM DaemonRecoversInSla ==
  ASSUME NEW CONSTANT sla \in Nat, NEW CONSTANT load \in Nat,
         NEW CONSTANT perTick \in Nat \ {0}, NEW CONSTANT margin \in Nat,
         NEW CONSTANT safety \in Nat \ {0},
         Cadence = OperationalCadence(sla, load, perTick, margin, safety),
         load + margin <= sla
  PROVE  DaemonSpec =>
           [](state = "RUNNING" /\ job = "idle" /\ ~late =>
                PredictedRecovery(TailTicks, load, perTick, margin) <= sla)
  <1> DEFINE InTime == state = "RUNNING" /\ job = "idle" /\ ~late =>
                         PredictedRecovery(TailTicks, load, perTick, margin) <= sla
  <1>1. ASSUME IInv, DInv PROVE InTime
    <2>1. SUFFICES ASSUME state = "RUNNING", job = "idle", ~late
                   PROVE  PredictedRecovery(TailTicks, load, perTick, margin) <= sla
      OBVIOUS
    <2>2. committed - NewestCovered < Cadence
      BY <1>1, <2>1, InvTail DEF TailWithinCadence
    <2>3. committed \in Nat /\ Parsed \in Nat
      <3>1. wal \in Seq(Writes) /\ committed \in Nat
        BY <1>1 DEF IInv, TypeOK
      <3>2. QED
        BY <3>1, ParsedIs DEF ParsedFacts
    <2>4. Parsed <= committed
      <3>1. up
        BY <1>1, <2>1 DEF DInv, JobsMatch
      <3>2. QED
        BY <1>1, <2>3, <3>1 DEF DInv, FilesKept, CountsReads
    <2>5. NewestCovered \in Nat
      BY <1>1, NewestCounts
    <2>6. PICK t : t = MaxTailForSla(sla, load, perTick, margin)
      OBVIOUS
    <2>7. t \in Nat /\ PredictedRecovery(t, load, perTick, margin) <= sla
      BY <2>6, MaxTailIs
    <2>8. Cadence - 1 <= t /\ Cadence \in Nat
      BY <2>6, CadenceInTail, DaemonAssumption
    <2>9. PICK k : k = TailTicks
      OBVIOUS
    <2>10. k \in Int /\ k <= t
      BY <2>2, <2>3, <2>4, <2>5, <2>7, <2>8, <2>9 DEF TailTicks, Parsed
    <2>11. perTick * k <= perTick * t
      BY <2>7, <2>10, TimesMonotone
    <2>12. k * perTick = perTick * k /\ t * perTick = perTick * t
      BY <2>7, <2>10
    <2>13. perTick * k \in Int /\ perTick * t \in Int
      BY <2>7, <2>10
    <2>14. QED
      BY <2>7, <2>9, <2>11, <2>12, <2>13 DEF PredictedRecovery
  <1>2. IInv /\ DInv => InTime
    BY <1>1
  <1>3. QED
    BY <1>2, DaemonOrdered, PTL

-----------------------------------------------------------------------------
(* The daemon as a queue. *)

(* SetToSeq, of at most one element. *)
LEMMA SetToSeqOne ==
  /\ SetToSeq({}) = <<>>
  /\ \A s : SetToSeq({s}) = <<s>>
  <1>1. Cardinality({}) = 0 /\ \A s : Cardinality({s}) = 1
    BY FS_EmptySet, FS_Singleton
  <1>2. SetToSeq({}) = <<>>
    <2>1. \A f : f \in [1..0 -> {}] <=> f = <<>>
      <3>1. ASSUME NEW f \in [1..0 -> {}] PROVE f = <<>>
        <4>1. 1..0 = {} /\ f \in Seq({}) /\ Len(f) = 0
          BY SeqDef
        <4>2. QED
          BY <4>1, EmptySeq
      <3>2. <<>> \in [1..0 -> {}]
        BY EmptySeq
      <3>3. QED
        BY <3>1, <3>2
    <2>2. IsInjective(<<>>)
      <3>1. PICK none : none = <<>>
        OBVIOUS
      <3>2. DOMAIN none = {}
        BY <3>1
      <3>3. IsInjective(none)
        BY <3>2 DEF IsInjective
      <3>4. QED
        BY <3>1, <3>3
    <2>3. <<>> = CHOOSE f \in [1..0 -> {}] : IsInjective(f)
      BY <2>1, <2>2
    <2>4. QED
      BY <1>1, <2>3 DEF SetToSeq
  <1>3. ASSUME NEW s PROVE SetToSeq({s}) = <<s>>
    <2>1. \A f : f \in [1..1 -> {s}] <=> f = <<s>>
      OBVIOUS
    <2>2. IsInjective(<<s>>)
      BY DEF IsInjective
    <2>3. <<s>> = CHOOSE f \in [1..1 -> {s}] : IsInjective(f)
      BY <2>1, <2>2
    <2>4. QED
      BY <1>1, <2>3 DEF SetToSeq
  <1>4. QED
    BY <1>2, <1>3

LEMMA PrependAppend ==
  ASSUME NEW T, NEW r \in Seq(T), NEW s \in T, NEW x \in T
  PROVE  Append(<<s>> \o r, x) = <<s>> \o Append(r, x)
  OBVIOUS

(* Those of a list that have none of their agent in front of them. *)
FirstsOf(m, firsts) ==
  \A i \in DOMAIN m :
    m[i] \in firsts <=> \A j \in 1..i-1 : AgentOf[m[j]] # AgentOf[m[i]]

(* What waits for an agent once the first submissions are drained. *)
Behind(m, firsts, a) == Among(Among(m, Submissions \ firsts), Of(a))

(* Without its first submissions a list has of each agent what it had, but   *)
(* for the oldest.                                                           *)
TakesOldest(m, firsts, a) ==
  \/ /\ Among(m, Of(a)) = <<>>
     /\ Behind(m, firsts, a) = <<>>
     /\ \A i \in DOMAIN m : m[i] \notin Of(a)
  \/ \E i \in DOMAIN m : /\ m[i] \in firsts
                         /\ m[i] \in Of(a)
                         /\ Among(m, Of(a)) = <<m[i]>> \o Behind(m, firsts, a)

LEMMA DrainTakesOldest ==
  ASSUME NEW m \in Seq(Submissions), NEW firsts, NEW a, FirstsOf(m, firsts)
  PROVE  TakesOldest(m, firsts, a)
  <1> DEFINE G == {p \in Seq(Submissions) : FirstsOf(p, firsts) => TakesOldest(p, firsts, a)}
  <1>1. <<>> \in G
    <2>1. PICK none : none = <<>>
      OBVIOUS
    <2>2. /\ none \in Seq(Submissions) /\ DOMAIN none = {}
          /\ \A good : Among(none, good) = none
      BY <2>1, AmongEmpty
    <2>3. TakesOldest(none, firsts, a)
      BY <2>1, <2>2 DEF TakesOldest, Behind
    <2>4. QED
      BY <2>1, <2>2, <2>3
  <1>2. ASSUME NEW p \in G, NEW x \in Submissions
        PROVE  Append(p, x) \in G
    <2>1. PICK q : q = Append(p, x)
      OBVIOUS
    <2>2. /\ p \in Seq(Submissions) /\ q \in Seq(Submissions) /\ Len(p) \in Nat
          /\ DOMAIN p = 1..Len(p) /\ DOMAIN q = 1..Len(p)+1
          /\ q[Len(p) + 1] = x /\ \A i \in 1..Len(p) : q[i] = p[i]
      BY <2>1
    <2>3. SUFFICES ASSUME FirstsOf(q, firsts) PROVE TakesOldest(q, firsts, a)
      BY <2>1, <2>2
    <2>4. FirstsOf(p, firsts)
      <3>1. ASSUME NEW i \in DOMAIN p
            PROVE  p[i] \in firsts <=> \A j \in 1..i-1 : AgentOf[p[j]] # AgentOf[p[i]]
        <4>1. i \in DOMAIN q /\ q[i] = p[i] /\ \A j \in 1..i-1 : q[j] = p[j]
          BY <2>2
        <4>2. q[i] \in firsts <=> \A j \in 1..i-1 : AgentOf[q[j]] # AgentOf[q[i]]
          BY <2>3, <4>1 DEF FirstsOf
        <4>3. QED
          BY <4>1, <4>2
      <3>2. QED
        BY <3>1 DEF FirstsOf
    <2>5. TakesOldest(p, firsts, a)
      BY <2>4
    <2>6. x \in firsts <=> \A j \in DOMAIN p : AgentOf[p[j]] # AgentOf[x]
      <3>1. Len(p) + 1 \in DOMAIN q /\ (Len(p) + 1) - 1 = Len(p)
        BY <2>2
      <3>2. q[Len(p) + 1] \in firsts
              <=> \A j \in 1..Len(p) : AgentOf[q[j]] # AgentOf[q[Len(p) + 1]]
        BY <2>3, <3>1 DEF FirstsOf
      <3>3. QED
        BY <2>2, <3>2
    <2>7. PICK kept : kept = Among(p, Submissions \ firsts)
      OBVIOUS
    <2>8. kept \in Seq(Submissions)
      BY <2>2, <2>7, AmongTyped DEF AmongFacts
    <2>9. PICK of : of = Among(p, Of(a))
      OBVIOUS
    <2>10. PICK rest : rest = Behind(p, firsts, a)
      OBVIOUS
    <2>11. rest = Among(kept, Of(a)) /\ rest \in Seq(Submissions)
      BY <2>7, <2>8, <2>10, AmongTyped DEF Behind, AmongFacts
    <2>12. /\ Among(q, Of(a)) = KeepOne(Of(a), of, x)
           /\ Among(q, Submissions \ firsts) = KeepOne(Submissions \ firsts, kept, x)
           /\ Among(Append(kept, x), Of(a)) = KeepOne(Of(a), rest, x)
      BY <2>1, <2>2, <2>7, <2>8, <2>9, <2>11, AmongAppend
    <2>13. Behind(q, firsts, a) = IF x \in Of(a) /\ x \notin firsts THEN Append(rest, x) ELSE rest
      <3>1. CASE x \in firsts
        <4>1. Among(q, Submissions \ firsts) = kept
          BY <2>12, <3>1 DEF KeepOne
        <4>2. QED
          BY <2>11, <3>1, <4>1 DEF Behind
      <3>2. CASE x \notin firsts
        <4>1. Among(q, Submissions \ firsts) = Append(kept, x)
          BY <2>12, <3>2 DEF KeepOne
        <4>2. QED
          BY <2>12, <3>2, <4>1 DEF Behind, KeepOne
      <3>3. QED
        BY <3>1, <3>2
    <2>14. CASE x \notin Of(a)
      <3>1. Among(q, Of(a)) = of /\ Behind(q, firsts, a) = rest
        BY <2>12, <2>13, <2>14 DEF KeepOne
      <3>2. CASE of = <<>> /\ rest = <<>> /\ \A i \in DOMAIN p : p[i] \notin Of(a)
        <4>1. \A i \in DOMAIN q : q[i] \notin Of(a)
          BY <2>2, <2>14, <3>2
        <4>2. QED
          BY <3>1, <3>2, <4>1 DEF TakesOldest
      <3>3. CASE \E i \in DOMAIN p : p[i] \in firsts /\ p[i] \in Of(a) /\ of = <<p[i]>> \o rest
        <4>1. PICK i \in DOMAIN p : p[i] \in firsts /\ p[i] \in Of(a) /\ of = <<p[i]>> \o rest
          BY <3>3
        <4>2. i \in DOMAIN q /\ q[i] = p[i]
          BY <2>2
        <4>3. QED
          BY <3>1, <4>1, <4>2 DEF TakesOldest
      <3>4. QED
        BY <2>5, <2>9, <2>10, <3>2, <3>3 DEF TakesOldest
    <2>15. CASE x \in Of(a)
      <3>1. Among(q, Of(a)) = Append(of, x)
        BY <2>12, <2>15 DEF KeepOne
      <3>2. CASE of = <<>> /\ rest = <<>> /\ \A i \in DOMAIN p : p[i] \notin Of(a)
        <4>1. x \in firsts
          <5>1. \A j \in DOMAIN p : p[j] \in Submissions
            BY <2>2
          <5>2. QED
            BY <2>6, <2>15, <3>2, <5>1 DEF Of
        <4>2. Behind(q, firsts, a) = <<>>
          BY <2>13, <3>2, <4>1
        <4>3. Among(q, Of(a)) = <<x>> /\ <<x>> = <<x>> \o <<>>
          BY <3>1, <3>2
        <4>4. Len(p) + 1 \in DOMAIN q
          BY <2>2
        <4>5. QED
          BY <2>2, <2>15, <4>1, <4>2, <4>3, <4>4 DEF TakesOldest
      <3>3. CASE \E i \in DOMAIN p : p[i] \in firsts /\ p[i] \in Of(a) /\ of = <<p[i]>> \o rest
        <4>1. PICK i \in DOMAIN p : p[i] \in firsts /\ p[i] \in Of(a) /\ of = <<p[i]>> \o rest
          BY <3>3
        <4>2. i \in DOMAIN q /\ q[i] = p[i] /\ p[i] \in Submissions
          BY <2>2
        <4>3. x \notin firsts
          BY <2>6, <2>15, <4>1 DEF Of
        <4>4. Behind(q, firsts, a) = Append(rest, x)
          BY <2>13, <2>15, <4>3
        <4>5. Append(of, x) = <<p[i]>> \o Append(rest, x)
          BY <2>11, <4>1, <4>2, PrependAppend
        <4>6. QED
          BY <3>1, <4>1, <4>2, <4>4, <4>5 DEF TakesOldest
      <3>4. QED
        BY <2>5, <2>9, <2>10, <3>2, <3>3 DEF TakesOldest
    <2>16. QED
      BY <2>14, <2>15
  <1>3. G = Seq(Submissions)
    <2> HIDE DEF G
    <2>1. G \in SUBSET Seq(Submissions)
      BY DEF G
    <2>2. QED
      BY <1>1, <1>2, <2>1, SeqInductionSet
  <1>4. QED
    BY <1>3

(* A submission is accepted once, a block holds one of each agent, and it is *)
(* held between the drain and the append.                                    *)
QueueInv ==
  /\ Once(mempool)
  /\ \A i \in DOMAIN mempool : mempool[i] \in accepted
  /\ \A s, t \in batch : AgentOf[s] = AgentOf[t] => s = t
  /\ job = "append" <=> batch # {}

(* Daemon as Intake sees it: its log and what waits. *)
Served == [i \in DOMAIN Logged |-> Logged[i].block]
Queues == [a \in Agents |-> Waiting(a)]

(* What is not drained is all that waits. *)
LEMMA NoneDrained ==
  ASSUME DaemonTypes, batch = {}, NEW a
  PROVE  Waiting(a) = Among(mempool, Of(a))
  <1>1. Among(mempool, Of(a)) \in Seq(Submissions)
    BY AmongTyped DEF DaemonTypes, AmongFacts
  <1>2. SetToSeq(batch \cap Of(a)) = <<>>
    <2>1. batch \cap Of(a) = {}
      OBVIOUS
    <2>2. QED
      BY <2>1, SetToSeqOne
  <1>3. QED
    BY <1>1, <1>2 DEF Waiting

LEMMA NoneDrainedNext ==
  ASSUME DaemonTypes', batch' = {}, NEW a
  PROVE  Waiting(a)' = Among(mempool', Of(a))
  <1>1. Among(mempool', Of(a)) \in Seq(Submissions)
    BY AmongTyped DEF DaemonTypes, AmongFacts
  <1>2. SetToSeq(batch' \cap Of(a)) = <<>>
    <2>1. batch' \cap Of(a) = {}
      OBVIOUS
    <2>2. QED
      BY <2>1, SetToSeqOne
  <1>3. QED
    BY <1>1, <1>2 DEF Waiting

(* A drain moves submissions from the mempool to the batch and changes       *)
(* nothing in who waits behind whom.                                         *)
LEMMA DrainServes ==
  ASSUME DaemonTypes, QueueInv, Drain, batch = {}
  PROVE  /\ Once(mempool')
         /\ \A i \in DOMAIN mempool' : mempool'[i] \in accepted
         /\ \A s, t \in batch' : AgentOf[s] = AgentOf[t] => s = t
         /\ batch' # {}
         /\ \A a \in Agents : Waiting(a)' = Waiting(a)
  <1>1. /\ mempool \in Seq(Submissions) /\ Len(mempool) \in Nat
        /\ DOMAIN mempool = 1..Len(mempool) /\ mempool # <<>>
      BY DEF DaemonTypes, Drain
  <1>2. /\ batch' = OnePerAgent
        /\ mempool' = Among(mempool, Submissions \ OnePerAgent)
    BY DEF Drain, LeftBehind
  <1>3. AmongFacts(Submissions, mempool, Submissions \ OnePerAgent)
    BY <1>1, AmongTyped
  <1>4. FirstsOf(mempool, OnePerAgent)
    BY <1>1 DEF FirstsOf, OnePerAgent, QueueInv, Once
  <1>5. Once(mempool') /\ \A i \in DOMAIN mempool' : mempool'[i] \in accepted
    BY <1>2, <1>3 DEF AmongFacts, QueueInv
  <1>6. ASSUME NEW s \in OnePerAgent, NEW t \in OnePerAgent, AgentOf[s] = AgentOf[t]
        PROVE  s = t
    <2>1. PICK i \in DOMAIN mempool :
            s = mempool[i] /\ \A k \in 1..i-1 : AgentOf[mempool[k]] # AgentOf[mempool[i]]
      BY DEF OnePerAgent
    <2>2. PICK j \in DOMAIN mempool :
            t = mempool[j] /\ \A k \in 1..j-1 : AgentOf[mempool[k]] # AgentOf[mempool[j]]
      BY DEF OnePerAgent
    <2>3. i \in 1..Len(mempool) /\ j \in 1..Len(mempool)
      BY <1>1
    <2>4. i = j
      BY <1>1, <1>6, <2>1, <2>2, <2>3
    <2>5. QED
      BY <2>1, <2>2, <2>4
  <1>7. OnePerAgent # {}
    <2>1. 1 \in DOMAIN mempool /\ \A j \in 1..1-1 : FALSE
      BY <1>1
    <2>2. mempool[1] \in OnePerAgent
      BY <2>1 DEF OnePerAgent
    <2>3. QED
      BY <2>2
  <1>8. ASSUME NEW a \in Agents
        PROVE  Waiting(a)' = Waiting(a)
    <2>1. Waiting(a) = Among(mempool, Of(a))
      BY NoneDrained
    <2>2. PICK rest : rest = Behind(mempool, OnePerAgent, a)
      OBVIOUS
    <2>3. rest = Among(mempool', Of(a)) /\ rest \in Seq(Submissions)
      <3>1. rest = Among(mempool', Of(a))
        BY <1>2, <2>2 DEF Behind
      <3>2. mempool' \in Seq(Submissions)
        BY <1>2, <1>3 DEF AmongFacts
      <3>3. QED
        BY <3>1, <3>2, AmongTyped DEF AmongFacts
    <2>4. Waiting(a)' = SetToSeq(OnePerAgent \cap Of(a)) \o rest
      BY <1>2, <2>3 DEF Waiting
    <2>5. TakesOldest(mempool, OnePerAgent, a)
      BY <1>1, <1>4, DrainTakesOldest
    <2>6. CASE /\ Among(mempool, Of(a)) = <<>> /\ rest = <<>>
               /\ \A i \in DOMAIN mempool : mempool[i] \notin Of(a)
      <3>1. OnePerAgent \cap Of(a) = {}
        BY <2>6 DEF OnePerAgent
      <3>2. SetToSeq(OnePerAgent \cap Of(a)) = <<>>
        BY <3>1, SetToSeqOne
      <3>3. QED
        BY <2>1, <2>4, <2>6, <3>2
    <2>7. CASE \E i \in DOMAIN mempool : /\ mempool[i] \in OnePerAgent
                                         /\ mempool[i] \in Of(a)
                                         /\ Among(mempool, Of(a)) = <<mempool[i]>> \o rest
      <3>1. PICK i \in DOMAIN mempool : /\ mempool[i] \in OnePerAgent
                                        /\ mempool[i] \in Of(a)
                                        /\ Among(mempool, Of(a)) = <<mempool[i]>> \o rest
        BY <2>7
      <3>2. OnePerAgent \cap Of(a) = {mempool[i]}
        BY <1>6, <3>1 DEF Of
      <3>3. SetToSeq(OnePerAgent \cap Of(a)) = <<mempool[i]>>
        BY <3>2, SetToSeqOne
      <3>4. QED
        BY <2>1, <2>4, <3>1, <3>3
    <2>8. QED
      BY <2>2, <2>5, <2>6, <2>7 DEF TakesOldest
  <1>9. QED
    BY <1>2, <1>5, <1>6, <1>7, <1>8

(* The log counts as blocks the writes that were not cut short. *)
LEMMA LoggedGrows ==
  ASSUME TypeOK, NEW b \in Blocks, NEW written \in {"line", "part", "text"}, Write(b, written)
  PROVE  Served' = IF written = "line" THEN Append(Served, b) ELSE Served
  <1> DEFINE Lines == [tick : Nat, block : Blocks, written : {"line"}]
  <1>1. PICK w : w = [tick |-> committed, block |-> b, written |-> written]
    OBVIOUS
  <1>2. /\ w \in Writes /\ w.block = b /\ (w \in Lines <=> written = "line")
    BY <1>1 DEF TypeOK, Writes
  <1>3. wal \in Seq(Writes) /\ wal' = Append(wal, w)
    BY <1>1 DEF TypeOK, Write
  <1>4. PICK before : before = Among(wal, Lines)
    OBVIOUS
  <1>5. PICK after : after = Among(wal', Lines)
    OBVIOUS
  <1>6. Logged = before /\ Logged' = after
    BY <1>4, <1>5 DEF Logged
  <1>7. before \in Seq(Writes)
    BY <1>3, <1>4, AmongTyped DEF AmongFacts
  <1>8. after = IF w \in Lines THEN Append(before, w) ELSE before
    <2>1. Among(Append(wal, w), Lines) = KeepOne(Lines, Among(wal, Lines), w)
      BY <1>2, <1>3, AmongAppend
    <2>2. QED
      BY <1>3, <1>4, <1>5, <2>1 DEF KeepOne
  <1> HIDE DEF Lines
  <1>9. CASE written # "line"
    BY <1>2, <1>6, <1>8, <1>9 DEF Served
  <1>10. CASE written = "line"
    <2>1. after = Append(before, w)
      BY <1>2, <1>8, <1>10
    <2>2. /\ Served = [i \in DOMAIN before |-> before[i].block]
          /\ Served' = [i \in DOMAIN after |-> after[i].block]
      BY <1>6 DEF Served
    <2>3. /\ Len(before) \in Nat /\ DOMAIN before = 1..Len(before)
          /\ DOMAIN after = 1..Len(before)+1 /\ Len(after) = Len(before) + 1
          /\ \A i \in 1..Len(before) : after[i] = before[i]
          /\ after[Len(before) + 1] = w
      BY <1>7, <2>1
    <2>4. Len(Served) = Len(before)
      BY <2>2, <2>3
    <2>5. Append(Served, b) = [i \in DOMAIN after |-> after[i].block]
      BY <1>2, <2>2, <2>3, <2>4
    <2>6. QED
      BY <1>10, <2>2, <2>5
  <1>11. QED
    BY <1>9, <1>10

LEMMA QueueInit ==
  ASSUME DaemonInit
  PROVE  Queue!Init /\ QueueInv
  <1>1. /\ mempool = <<>> /\ batch = {} /\ wal = <<>> /\ job = "idle"
        /\ <<>> \in Seq(Submissions)
    BY DEF DaemonInit
  <1>2. ASSUME NEW a \in Agents PROVE Waiting(a) = <<>>
    <2>1. SetToSeq(batch \cap Of(a)) = <<>>
      <3>1. batch \cap Of(a) = {}
        BY <1>1
      <3>2. QED
        BY <3>1, SetToSeqOne
    <2>2. Among(mempool, Of(a)) = <<>>
      BY <1>1, AmongEmpty
    <2>3. QED
      BY <1>1, <2>1, <2>2 DEF Waiting
  <1>3. Served = <<>>
    <2>1. Logged = <<>>
      BY <1>1, AmongEmpty DEF Logged
    <2>2. QED
      BY <2>1 DEF Served
  <1>4. Queue!Init
    BY <1>2, <1>3 DEF Queue!Init, Queues, Served
  <1>5. QueueInv
    BY <1>1 DEF QueueInv, Once
  <1>6. QED
    BY <1>4, <1>5

(* The steps between the file operations that touch no queue. *)
LEMMA QueueStays ==
  ASSUME QueueInv, UNCHANGED <<mempool, batch, wal>>, accepted \subseteq accepted',
         job' = "append" <=> job = "append"
  PROVE  QueueInv' /\ UNCHANGED Queue!vars
  <1>1. UNCHANGED Queues
    BY DEF Queues, Waiting
  <1>2. UNCHANGED Served
    BY DEF Served, Logged
  <1>3. QueueInv'
    BY DEF QueueInv, Once
  <1>4. UNCHANGED Queue!vars
    BY <1>1, <1>2 DEF Queue!vars, Queues, Served
  <1>5. QED
    BY <1>3, <1>4

(* submit *)
LEMMA SubmitServes ==
  ASSUME DaemonTypes, DaemonTypes', QueueInv, NEW s \in Submissions, Submit(s)
  PROVE  QueueInv' /\ Queue!Accept(s)
  <1>1. /\ mempool' = Append(mempool, s) /\ accepted' = accepted \cup {s} /\ s \notin accepted
        /\ batch = {} /\ batch' = {} /\ job' = "idle" /\ wal' = wal
    BY DEF Submit, QueueInv, node, vars, disk
  <1>2. /\ mempool \in Seq(Submissions) /\ Len(mempool) \in Nat
        /\ DOMAIN mempool = 1..Len(mempool) /\ DOMAIN mempool' = 1..Len(mempool)+1
        /\ mempool'[Len(mempool) + 1] = s
        /\ \A i \in 1..Len(mempool) : mempool'[i] = mempool[i]
    BY <1>1 DEF DaemonTypes
  <1>3. QueueInv'
    <2>1. \A i \in DOMAIN mempool : mempool[i] # s
      BY <1>1 DEF QueueInv
    <2>2. Once(mempool')
      BY <1>2, <2>1 DEF QueueInv, Once
    <2>3. \A i \in DOMAIN mempool' : mempool'[i] \in accepted'
      BY <1>1, <1>2 DEF QueueInv
    <2>4. QED
      BY <1>1, <2>2, <2>3 DEF QueueInv
  <1>4. AgentOf[s] \in Agents
    BY DaemonAssumption
  <1>5. ASSUME NEW a \in Agents
        PROVE  Waiting(a)' = IF a = AgentOf[s] THEN Append(Waiting(a), s) ELSE Waiting(a)
    <2>1. Waiting(a) = Among(mempool, Of(a)) /\ Waiting(a)' = Among(mempool', Of(a))
      BY <1>1, NoneDrained, NoneDrainedNext
    <2>2. Among(mempool', Of(a)) = KeepOne(Of(a), Among(mempool, Of(a)), s)
      BY <1>1, <1>2, AmongAppend
    <2>3. QED
      BY <2>1, <2>2 DEF KeepOne, Of
  <1>6. Queues' = [Queues EXCEPT ![AgentOf[s]] = Append(@, s)]
    BY <1>4, <1>5 DEF Queues
  <1>7. UNCHANGED Served
    BY <1>1 DEF Served, Logged
  <1>8. QED
    BY <1>3, <1>6, <1>7 DEF Queue!Accept, Queues, Served

(* appendLineDurable: the batch is a block of the oldest of its agents. *)
LEMMA AppendServes ==
  ASSUME TypeOK, DaemonTypes, QueueInv, AppendBatch
  PROVE  QueueInv' /\ Queue!Next
  <1>1. /\ batch # {} /\ batch' = {} /\ mempool' = mempool /\ job' = "apply"
        /\ accepted' = accepted /\ Write(batch, "line")
        /\ mempool \in Seq(Submissions) /\ batch \in SUBSET Submissions
    BY DEF AppendBatch, AppendLine, QueueInv, DaemonTypes
  <1>2. QueueInv'
    BY <1>1 DEF QueueInv, Once
  <1>3. Served' = Append(Served, batch)
    BY <1>1, LoggedGrows, DaemonAssumption
  <1>0. PICK served : served = {AgentOf[s] : s \in batch}
    OBVIOUS
  <1>4. served \in SUBSET Agents /\ served # {}
    BY <1>0, <1>1, DaemonAssumption
  <1>5. ASSUME NEW a \in Agents
        PROVE  /\ Waiting(a)' = Among(mempool, Of(a))
               /\ a \notin served => Waiting(a) = Among(mempool, Of(a))
               /\ \A s \in batch : AgentOf[s] = a => Waiting(a) = <<s>> \o Among(mempool, Of(a))
    <2>1. PICK rest : rest = Among(mempool, Of(a))
      OBVIOUS
    <2>2. rest \in Seq(Submissions) /\ <<>> \o rest = rest
      BY <1>1, <2>1, AmongTyped DEF AmongFacts
    <2>3. Waiting(a)' = rest
      <3>1. batch' \cap Of(a) = {}
        BY <1>1
      <3>2. SetToSeq(batch' \cap Of(a)) = <<>>
        BY <3>1, SetToSeqOne
      <3>3. Waiting(a)' = SetToSeq(batch' \cap Of(a)) \o Among(mempool', Of(a))
        BY DEF Waiting
      <3>4. QED
        BY <1>1, <2>1, <2>2, <3>2, <3>3
    <2>4. Waiting(a) = SetToSeq(batch \cap Of(a)) \o rest
      BY <2>1 DEF Waiting
    <2>5. ASSUME a \notin served PROVE Waiting(a) = rest
      <3>1. batch \cap Of(a) = {}
        BY <1>0, <2>5 DEF Of
      <3>2. QED
        BY <2>2, <2>4, <3>1, SetToSeqOne
    <2>6. ASSUME NEW s \in batch, AgentOf[s] = a PROVE Waiting(a) = <<s>> \o rest
      <3>1. batch \cap Of(a) = {s}
        BY <1>1, <2>6 DEF Of, QueueInv
      <3>2. QED
        BY <2>4, <3>1, SetToSeqOne
    <2>7. QED
      BY <2>1, <2>3, <2>5, <2>6
  <1>6. ASSUME NEW a \in Agents, NEW s \in batch, AgentOf[s] = a
        PROVE  Waiting(a) # <<>> /\ Head(Waiting(a)) = s /\ Tail(Waiting(a)) = Waiting(a)'
    <2>1. PICK rest : rest = Among(mempool, Of(a))
      OBVIOUS
    <2>2. rest \in Seq(Submissions) /\ s \in Submissions
      BY <1>1, <2>1, AmongTyped DEF AmongFacts
    <2>3. Waiting(a) = <<s>> \o rest /\ Waiting(a)' = rest
      BY <1>5, <1>6, <2>1
    <2>4. <<s>> \o rest # <<>> /\ Head(<<s>> \o rest) = s /\ Tail(<<s>> \o rest) = rest
      BY <2>2
    <2>5. QED
      BY <2>3, <2>4
  <1>7. \A a \in served : Queues[a] # <<>>
    BY <1>0, <1>4, <1>6 DEF Queues
  <1>8. {Head(Queues[a]) : a \in served} = batch
    <2>1. \A s \in batch : AgentOf[s] \in Agents /\ Head(Queues[AgentOf[s]]) = s
      BY <1>0, <1>4, <1>6 DEF Queues
    <2>2. QED
      BY <1>0, <2>1
  <1>9. Queues' = [a \in Agents |-> IF a \in served THEN Tail(Queues[a]) ELSE Queues[a]]
    <2>1. ASSUME NEW a \in Agents
          PROVE  Waiting(a)' = IF a \in served THEN Tail(Waiting(a)) ELSE Waiting(a)
      BY <1>0, <1>5, <1>6
    <2>2. QED
      BY <2>1 DEF Queues
  <1>10. Queue!Commit(served)
    BY <1>3, <1>4, <1>7, <1>8, <1>9 DEF Queue!Commit, Queue!Waits, Queues, Served
  <1>11. Queue!Next
    BY <1>4, <1>10 DEF Queue!Next
  <1>12. QED
    BY <1>2, <1>11

(* The end of the process: what was not in the log is lost. *)
LEMMA GoneServes ==
  ASSUME Gone, UNCHANGED Served
  PROVE  QueueInv' /\ Queue!Lose
  <1>1. mempool' = <<>> /\ batch' = {} /\ job' = "idle" /\ <<>> \in Seq(Submissions)
    BY DEF Gone
  <1>2. ASSUME NEW a \in Agents PROVE Waiting(a)' = <<>>
    <2>1. SetToSeq(batch' \cap Of(a)) = <<>>
      <3>1. batch' \cap Of(a) = {}
        BY <1>1
      <3>2. QED
        BY <3>1, SetToSeqOne
    <2>2. Among(mempool', Of(a)) = <<>>
      BY <1>1, AmongEmpty
    <2>3. QED
      BY <1>1, <2>1, <2>2 DEF Waiting
  <1>3. Queues' = [a \in Agents |-> <<>>]
    BY <1>2 DEF Queues
  <1>4. QueueInv'
    BY <1>1 DEF QueueInv, Once
  <1>5. QED
    BY <1>3, <1>4 DEF Queue!Lose, Queues, Served

LEMMA EndServes ==
  ASSUME TypeOK, DaemonTypes,
         \/ KilledBetween \/ KilledInWriteHead \/ UncaughtException
         \/ \E written \in Tears : KilledInAppend(written)
  PROVE  QueueInv' /\ Queue!Lose
  <1>1. Gone
    BY DEF KilledBetween, KilledInWriteHead, UncaughtException, KilledInAppend
  <1>2. UNCHANGED Served
    <2>1. CASE KilledBetween \/ KilledInWriteHead \/ UncaughtException
      <3>1. wal' = wal
        BY <2>1 DEF KilledBetween, Crash, KilledInWriteHead, CrashInWriteHead,
                    UncaughtException, disk
      <3>2. QED
        BY <3>1 DEF Served, Logged
    <2>2. ASSUME NEW written \in Tears, KilledInAppend(written) PROVE UNCHANGED Served
      <3>1. Write(batch, written) /\ batch \in Blocks /\ written \in {"part", "text"}
        BY <2>2, DaemonAssumption, NodeAssumption DEF KilledInAppend, CrashInAppend, DaemonTypes
      <3>2. QED
        BY <3>1, LoggedGrows
    <2>3. QED
      BY <2>1, <2>2
  <1>3. QED
    BY <1>1, <1>2, GoneServes

(* Every step of the daemon is one of the queue, or leaves it alone. *)
LEMMA StepServes ==
  ASSUME IInv, DInv, DInv', QueueInv, [DaemonNext]_dvars
  PROVE  QueueInv' /\ [Queue!Next]_(Queue!vars)
  <1>0. TypeOK /\ DaemonTypes /\ DaemonTypes'
    BY DEF IInv, DInv
  <1>1. CASE Start
    <2>1. UNCHANGED <<mempool, batch, wal, accepted, job>>
      BY <1>1 DEF Start, Open, disk
    <2>2. QED
      BY <2>1, QueueStays
  <1>2. ASSUME NEW s \in Submissions, Submit(s) PROVE QueueInv' /\ [Queue!Next]_(Queue!vars)
    BY <1>0, <1>2, SubmitServes DEF Queue!Next
  <1>3. CASE Drain /\ UNCHANGED <<node, accepted>> /\ job \in {"idle", "flush"}
    <2>1. batch = {} /\ wal' = wal /\ accepted' = accepted /\ job' = "append"
      BY <1>3 DEF QueueInv, Drain, node, vars, disk
    <2>2. /\ Once(mempool')
          /\ \A i \in DOMAIN mempool' : mempool'[i] \in accepted
          /\ \A s, t \in batch' : AgentOf[s] = AgentOf[t] => s = t
          /\ batch' # {}
          /\ \A a \in Agents : Waiting(a)' = Waiting(a)
      BY <1>0, <1>3, <2>1, DrainServes
    <2>3. QueueInv'
      BY <2>1, <2>2 DEF QueueInv
    <2>4. UNCHANGED Queues /\ UNCHANGED Served
      BY <2>1, <2>2 DEF Queues, Served, Logged
    <2>5. UNCHANGED Queue!vars
      BY <2>4 DEF Queue!vars, Queues, Served
    <2>6. QED
      BY <2>3, <2>5
  <1>4. CASE OnTick
    BY <1>3, <1>4 DEF OnTick
  <1>5. CASE AppendBatch
    BY <1>0, <1>5, AppendServes
  <1>6. CASE ApplyBatch
    <2>1. UNCHANGED <<mempool, batch, wal, accepted>> /\ job = "apply" /\ job' = "head"
      BY <1>6 DEF ApplyBatch, ApplyTick, disk
    <2>2. QED
      BY <2>1, QueueStays
  <1>7. CASE PublishHead
    <2>1. UNCHANGED <<mempool, batch, wal, accepted>> /\ job = "head"
      BY <1>7 DEF PublishHead, WriteHead
    <2>2. job' # "append"
      BY <1>7 DEF PublishHead
    <2>3. QED
      BY <2>1, <2>2, QueueStays
  <1>8. CASE Snapshot
    <2>1. UNCHANGED <<mempool, batch, wal, accepted>> /\ job = "snapshot" /\ job' = "prune"
      BY <1>8 DEF Snapshot, PublishSnapshot
    <2>2. QED
      BY <2>1, QueueStays
  <1>9. CASE PruneOne
    <2>1. UNCHANGED <<mempool, batch, wal, accepted, job>>
      BY <1>9 DEF PruneOne, Prune, daemon
    <2>2. QED
      BY <2>1, QueueStays
  <1>10. CASE Pruned
    <2>1. UNCHANGED <<mempool, batch, wal, accepted>> /\ job = "prune" /\ job' = "idle"
      BY <1>10 DEF Pruned, disk
    <2>2. QED
      BY <2>1, QueueStays
  <1>11. CASE Flush
    <2>1. CASE Drain
      BY <1>3, <1>11, <2>1 DEF Flush
    <2>2. CASE job' = "snapshot" /\ UNCHANGED <<mempool, batch>>
      <3>1. UNCHANGED <<mempool, batch, wal, accepted>> /\ job = "flush"
        BY <1>11, <2>2 DEF Flush, node, vars, disk
      <3>2. QED
        BY <2>2, <3>1, QueueStays
    <2>3. QED
      BY <1>11, <2>1, <2>2 DEF Flush
  <1>12. CASE Shutdown
    <2>1. UNCHANGED <<mempool, batch, wal, accepted>> /\ job = "idle" /\ job' = "flush"
      BY <1>12 DEF Shutdown, node, vars, disk
    <2>2. QED
      BY <2>1, QueueStays
  <1>13. CASE \/ KilledBetween \/ KilledInWriteHead \/ UncaughtException
              \/ \E written \in Tears : KilledInAppend(written)
    BY <1>0, <1>13, EndServes DEF Queue!Next
  <1>14. CASE UNCHANGED dvars
    <2>1. UNCHANGED <<mempool, batch, wal, accepted, job>>
      BY <1>14 DEF dvars, daemon, node, vars, disk
    <2>2. QED
      BY <2>1, QueueStays
  <1>15. QED
    BY <1>1, <1>2, <1>4, <1>5, <1>6, <1>7, <1>8, <1>9, <1>10, <1>11, <1>12, <1>13, <1>14
       DEF DaemonNext, Callback

(* The daemon is the queue of Intake: an accepted submission gets into at    *)
(* most one block, behind those its agent made before it and at most one of  *)
(* an agent per block, and none is lost while the process lives, a shutdown  *)
(* included (submit, drainOnePerAgent, onTick, shutdown).                    *)
THEOREM DaemonServesInOrder == DaemonSpec => Queue!Safety
  <1>1. DaemonInit => Queue!Init /\ QueueInv
    BY QueueInit
  <1>2. IInv /\ DInv /\ (IInv /\ DInv)' /\ QueueInv /\ [DaemonNext]_dvars
          => QueueInv' /\ [Queue!Next]_(Queue!vars)
    BY StepServes
  <1>3. QED
    BY <1>1, <1>2, DaemonOrdered, PTL DEF DaemonSpec, Queue!Safety
=============================================================================
