--------------------------- MODULE Observers_proofs ---------------------------
(***************************************************************************)
(* Proofs about the observer fleet, for any number of members, any of them *)
(* faulty, and any number of blocks logged and published meanwhile; about  *)
(* what the other observers of a node answer, for all they may be asked    *)
(* and, where they keep state, for histories of any length; and about how  *)
(* a finalized CAL is published, for CALs of any number of steps.          *)
(***************************************************************************)
EXTENDS ObserverFleet, Observing, Outbound, Aggregates

-----------------------------------------------------------------------------
(* The observer fleet. *)

Names == {"log", "lie", ""} \X Nat
Roots == [state : Names, global : Names]
Statuses == {"OBSERVED_EMPTY", "OBSERVED_OK", "OBSERVED_DRIFT"}
Reports == [status : Statuses, ticks : Nat, claimed : Roots, derived : Roots]

(* What head.json may hold when w blocks are logged. *)
Claims(t) ==
  {Published(t), [state |-> Lie, global |-> Lie], [state |-> Root(t), global |-> Lie]}
Heads(w) == UNION {{[ticks |-> t, roots |-> r] : r \in Claims(t)} : t \in 0..w}

TypesOK ==
  /\ wal \in 0..MaxBlocks
  /\ quiet \in BOOLEAN
  /\ still \in BOOLEAN
  /\ head \in {Torn} \cup Heads(wal)
  /\ seen \in {None} \cup Heads(wal)
  /\ verdicts \in Seq(Reports)

(* The verdict on a head does not depend on how far the log has run ahead. *)
SoundVerdict(h) == LiveVerdict(h, h.ticks)

SoundAre ==
  \A i \in DOMAIN verdicts : i \notin Faulty =>
    \E h \in Heads(wal) : verdicts[i] = SoundVerdict(h)

SoundReads == seen # None => Turn \in SoundMembers

(* As long as head.json has not changed, the sound members speak of it. *)
OneHead ==
  1 \notin Faulty /\ still /\ (verdicts # <<>> \/ seen # None) =>
    /\ head \in Heads(wal)
    /\ seen # None => seen = head
    /\ \A i \in DOMAIN verdicts : i \notin Faulty => verdicts[i] = SoundVerdict(head)

Concluded == 1 \notin Faulty /\ still /\ fleet # None => head \in Heads(wal)

IInv ==
  /\ TypesOK
  /\ SoundAre
  /\ SoundReads
  /\ OneHead
  /\ Concluded
  /\ WrongNodeOrWrongObserver

-----------------------------------------------------------------------------
(* Heads and verdicts. *)

LEMMA HeadIs ==
  ASSUME NEW w \in Nat, NEW h \in Heads(w)
  PROVE  /\ h.ticks \in 0..w
         /\ h.roots \in Claims(h.ticks)
         /\ h = [ticks |-> h.ticks, roots |-> h.roots]
  BY DEF Heads

LEMMA RootsTyped ==
  ASSUME NEW t \in Nat
  PROVE  /\ Derived(t) \in Roots
         /\ Published(t) \in Roots
         /\ Claims(t) \subseteq Roots
         /\ [state |-> Lie, global |-> Lie] \in Roots
         /\ [state |-> NoRoot, global |-> NoRoot] \in Roots
  <1>1. Root(t) \in Names /\ Lie \in Names /\ NoRoot \in Names
    BY DEF Root, Lie, NoRoot, Names
  <1>2. Derived(t) \in Roots /\ Published(t) \in Roots
    BY <1>1 DEF Derived, Published, Roots
  <1>3. [state |-> Lie, global |-> Lie] \in Roots /\ [state |-> NoRoot, global |-> NoRoot] \in Roots
        /\ [state |-> Root(t), global |-> Lie] \in Roots
    BY <1>1 DEF Roots
  <1>4. QED
    BY <1>2, <1>3 DEF Claims

LEMMA HeadsGrow ==
  ASSUME NEW w \in Nat
  PROVE  Heads(w) \subseteq Heads(w + 1)
  <1>1. 0..w \subseteq 0..w + 1
    OBVIOUS
  <1>2. QED
    BY <1>1 DEF Heads

(* The second read of an observer finds at least what the head speaks of. *)
LEMMA ReadIs ==
  ASSUME NEW w \in Nat, NEW h \in Heads(w)
  PROVE  LiveVerdict(h, w) = SoundVerdict(h)
  <1>1. h.ticks \in 0..w
    BY HeadIs
  <1>2. Min({h.ticks, w}) = h.ticks
    <2>1. {h.ticks, w} \in SUBSET Nat /\ {h.ticks, w} # {}
      BY <1>1
    <2>2. Min({h.ticks, w}) \in {h.ticks, w} /\ \A y \in {h.ticks, w} : Min({h.ticks, w}) <= y
      BY <2>1, MinIsLeast
    <2>3. QED
      BY <1>1, <2>2
  <1>3. Min({h.ticks, h.ticks}) = h.ticks
    <2>1. {h.ticks, h.ticks} \in SUBSET Nat /\ {h.ticks, h.ticks} # {}
      BY <1>1
    <2>2. Min({h.ticks, h.ticks}) \in {h.ticks, h.ticks}
      BY <2>1, MinIsLeast
    <2>3. QED
      BY <2>2
  <1>4. QED
    BY <1>2, <1>3 DEF LiveVerdict, SoundVerdict

LEMMA VerdictIs ==
  ASSUME NEW w \in Nat, NEW h \in Heads(w)
  PROVE  /\ SoundVerdict(h) \in Reports
         /\ SoundVerdict(h).claimed = h.roots
         /\ h.ticks = 0 => SoundVerdict(h).status = "OBSERVED_EMPTY"
         /\ h.ticks # 0 =>
              /\ SoundVerdict(h).derived = Derived(h.ticks)
              /\ SoundVerdict(h).status # "OBSERVED_EMPTY"
              /\ SoundVerdict(h).status = "OBSERVED_OK" <=> Derived(h.ticks) = h.roots
  <1>1. h.ticks \in 0..w /\ h.roots \in Claims(h.ticks)
    BY HeadIs
  <1>2. h.ticks \in Nat /\ h.roots \in Roots /\ Derived(h.ticks) \in Roots
        /\ [state |-> NoRoot, global |-> NoRoot] \in Roots
    BY <1>1, RootsTyped
  <1>3. {h.ticks, h.ticks} \in SUBSET Nat /\ {h.ticks, h.ticks} # {}
    BY <1>2
  <1>4. Min({h.ticks, h.ticks}) = h.ticks
    BY <1>3, MinIsLeast
  <1>5. CASE h.ticks = 0
    <2>1. SoundVerdict(h) =
            [status |-> "OBSERVED_EMPTY", ticks |-> 0, claimed |-> h.roots,
             derived |-> [state |-> NoRoot, global |-> NoRoot]]
      BY <1>5 DEF SoundVerdict, LiveVerdict, Verdict
    <2>2. SoundVerdict(h) \in Reports
      BY <1>2, <2>1 DEF Reports, Statuses
    <2>3. QED
      BY <1>5, <2>1, <2>2
  <1>6. CASE h.ticks # 0
    <2>1. SoundVerdict(h) =
            [status |-> IF Derived(h.ticks) = h.roots THEN "OBSERVED_OK" ELSE "OBSERVED_DRIFT",
             ticks |-> h.ticks, claimed |-> h.roots, derived |-> Derived(h.ticks)]
      BY <1>4, <1>6 DEF SoundVerdict, LiveVerdict, Verdict
    <2>2. SoundVerdict(h).status =
            IF Derived(h.ticks) = h.roots THEN "OBSERVED_OK" ELSE "OBSERVED_DRIFT"
      BY <2>1
    <2>3. SoundVerdict(h).claimed = h.roots /\ SoundVerdict(h).derived = Derived(h.ticks)
      BY <2>1
    <2>4. SoundVerdict(h) \in Reports
      <3>1. \A st \in Statuses :
              [status |-> st, ticks |-> h.ticks, claimed |-> h.roots, derived |-> Derived(h.ticks)]
                \in Reports
        BY <1>2 DEF Reports
      <3>2. CASE Derived(h.ticks) = h.roots
        BY <2>1, <3>1, <3>2 DEF Statuses
      <3>3. CASE Derived(h.ticks) # h.roots
        BY <2>1, <3>1, <3>3 DEF Statuses
      <3>4. QED
        BY <3>2, <3>3
    <2>5. QED
      BY <1>6, <2>2, <2>3, <2>4
  <1>7. QED
    BY <1>5, <1>6

(* A root with a name of its own is that of one number of blocks. *)
LEMMA PublishedIs ==
  ASSUME NEW t \in Nat, Published(t).global # NoRoot
  PROVE  /\ t # 0
         /\ Published(t) = Derived(t)
  BY DEF Published, Derived, Eventless

LEMMA LiesAreNotDerived ==
  ASSUME NEW t \in Nat, NEW n \in Nat
  PROVE  /\ [state |-> Lie, global |-> Lie] # Derived(n)
         /\ [state |-> Root(t), global |-> Lie] # Derived(n)
         /\ [state |-> Lie, global |-> Lie] # Published(n)
         /\ [state |-> Root(t), global |-> Lie] # Published(n)
  <1>1. Lie # Root(n) /\ Lie # NoRoot
    BY DEF Lie, Root, NoRoot
  <1>2. Derived(n).global # Lie /\ Published(n).global # Lie
    BY <1>1 DEF Derived, Published
  <1>3. QED
    BY <1>2

LEMMA InvSound ==
  ASSUME IInv
  PROVE  SoundMemberIsRight
  <1>1. SUFFICES ASSUME NEW i \in DOMAIN verdicts,
                        i \notin Faulty, verdicts[i].claimed.global # NoRoot
                 PROVE  verdicts[i].status = "OBSERVED_OK" <=>
                          \E n \in 1..MaxBlocks : verdicts[i].claimed = Published(n)
    BY DEF SoundMemberIsRight
  <1>2. wal \in Nat /\ wal <= MaxBlocks /\ MaxBlocks \in Nat
    BY FleetAssumption DEF IInv, TypesOK
  <1>3. PICK h \in Heads(wal) : verdicts[i] = SoundVerdict(h)
    BY <1>1 DEF IInv, SoundAre
  <1>4. h.ticks \in 0..wal /\ h.roots \in Claims(h.ticks)
    BY <1>2, HeadIs
  <1>5. h.ticks \in Nat
    BY <1>2, <1>4
  <1>6. verdicts[i].claimed = h.roots
    BY <1>2, <1>3, VerdictIs
  <1>7. CASE h.roots = Published(h.ticks)
    <2>1. h.ticks # 0 /\ Published(h.ticks) = Derived(h.ticks)
      BY <1>1, <1>5, <1>6, <1>7, PublishedIs
    <2>2. verdicts[i].status = "OBSERVED_OK"
      BY <1>2, <1>3, <1>7, <2>1, VerdictIs
    <2>3. h.ticks \in 1..MaxBlocks
      BY <1>2, <1>4, <2>1
    <2>4. QED
      BY <1>6, <1>7, <2>2, <2>3
  <1>8. CASE h.roots # Published(h.ticks)
    <2>1. h.roots \in {[state |-> Lie, global |-> Lie], [state |-> Root(h.ticks), global |-> Lie]}
      BY <1>4, <1>8 DEF Claims
    <2>2. h.roots # Derived(h.ticks)
      BY <1>5, <2>1, LiesAreNotDerived
    <2>3. \A n \in 1..MaxBlocks : h.roots # Published(n)
      BY <1>2, <1>5, <2>1, LiesAreNotDerived
    <2>4. verdicts[i].status # "OBSERVED_OK"
      <3>1. CASE h.ticks = 0
        BY <1>2, <1>3, <3>1, VerdictIs
      <3>2. CASE h.ticks # 0
        BY <1>2, <1>3, <2>2, <3>2, VerdictIs
      <3>3. QED
        BY <3>1, <3>2
    <2>5. QED
      BY <1>6, <2>3, <2>4
  <1>9. QED
    BY <1>7, <1>8

-----------------------------------------------------------------------------
(* The vote. *)

(* Where the sound members all tell of the same head, theirs is the first of *)
(* the largest groups, whatever the others say.                              *)
LEMMA SoundLead ==
  ASSUME NEW vs, DOMAIN vs = 1..Members, 1 \notin Faulty, SoundMajority,
         \A i \in SoundMembers : vs[i].derived = vs[1].derived
  PROVE  /\ Lead(vs) = 1
         /\ SoundMembers \subseteq Group(vs, 1)
         /\ Cardinality(Group(vs, 1)) >= Quorum
  <1> DEFINE D == 1..Members
             G(i) == Group(vs, i)
             C == {i \in D : \A j \in D : Cardinality(G(i)) >= Cardinality(G(j))}
  <1>0. Members \in Nat /\ Members >= 1 /\ Quorum \in Nat
    BY FleetAssumption
  <1>1. IsFiniteSet(D) /\ Cardinality(D) = Members
    BY <1>0, FS_Interval
  <1>2. \A i \in D : G(i) \in SUBSET D /\ IsFiniteSet(G(i)) /\ Cardinality(G(i)) \in Nat
    <2>1. \A i \in D : G(i) \in SUBSET D
      BY DEF Group
    <2>2. QED
      BY <1>1, <2>1, FS_Subset, FS_CardinalityType
  <1>3. SoundMembers \in SUBSET G(1)
    BY <1>0 DEF SoundMembers, Group
  <1>4. 1 \in D
    BY <1>0
  <1>5. IsFiniteSet(SoundMembers) /\ Cardinality(SoundMembers) \in Nat
        /\ Cardinality(SoundMembers) <= Cardinality(G(1))
    BY <1>2, <1>3, <1>4, FS_Subset, FS_CardinalityType
  <1>6. Cardinality(G(1)) >= Quorum /\ 2 * Cardinality(G(1)) >= Members
    BY <1>0, <1>2, <1>4, <1>5 DEF SoundMajority
  <1>7. \A j \in D : Cardinality(G(1)) >= Cardinality(G(j))
    <2>1. SUFFICES ASSUME NEW j \in D PROVE Cardinality(G(1)) >= Cardinality(G(j))
      OBVIOUS
    <2>2. CASE vs[j].derived = vs[1].derived
      <3>1. G(j) = G(1)
        BY <2>2 DEF Group
      <3>2. QED
        BY <1>2, <1>4, <3>1
    <2>3. CASE vs[j].derived # vs[1].derived
      <3>1. G(1) \cap G(j) = {}
        BY <2>3 DEF Group
      <3>2. G(1) \cup G(j) \in SUBSET D
        BY <1>2, <1>4
      <3>3. Cardinality(G(1) \cup G(j)) = Cardinality(G(1)) + Cardinality(G(j)) - Cardinality({})
        BY <1>2, <1>4, <3>1, FS_Union
      <3>4. Cardinality(G(1) \cup G(j)) <= Members
        BY <1>1, <3>2, FS_Subset
      <3>5. Cardinality({}) = 0
        BY FS_EmptySet
      <3>6. QED
        BY <1>0, <1>2, <1>4, <1>6, <3>3, <3>4, <3>5
    <2>4. QED
      BY <2>2, <2>3
  <1>8. C \in SUBSET Nat /\ 1 \in C
    BY <1>0, <1>4, <1>7
  <1>9. Min(C) \in C /\ \A y \in C : Min(C) <= y
    <2>1. C # {}
      BY <1>8
    <2>2. QED
      BY <1>8, <2>1, MinIsLeast
  <1>10. Min(C) = 1
    <2>1. Min(C) \in 1..Members /\ Min(C) <= 1
      BY <1>8, <1>9
    <2>2. QED
      BY <1>0, <2>1
  <1>11. Lead(vs) = Min(C)
    BY DEF Lead
  <1>12. QED
    BY <1>3, <1>6, <1>10, <1>11

(* A head, and the verdicts of a whole observation over it. *)
LEMMA VoteIsRight ==
  ASSUME NEW w \in Nat, NEW h \in Heads(w), ~Eventless(h.ticks),
         NEW vs, DOMAIN vs = 1..Members, 1 \notin Faulty, SoundMajority,
         \A i \in SoundMembers : vs[i] = SoundVerdict(h)
  PROVE  LET f == FleetVerdict(vs) IN
         /\ f.dissenters \subseteq Faulty
         /\ f.status \in (IF h.roots # Published(h.ticks) THEN {"NODE_DRIFT"}
                          ELSE IF f.dissenters = {} THEN {"CONSENSUS_OK"}
                          ELSE {"OBSERVER_SPLIT"})
  <1> DEFINE Out == 1..Members \ Group(vs, 1)
  <1>1. h.ticks \in Nat /\ h.ticks # 0
    BY HeadIs DEF Eventless
  <1>2. Published(h.ticks) = Derived(h.ticks)
    BY <1>1 DEF Published, Derived
  <1>3. 1 \in SoundMembers /\ 1 \in 1..Members
    BY FleetAssumption DEF SoundMembers
  <1>4. \A i \in SoundMembers : /\ vs[i].derived = Derived(h.ticks)
                                /\ vs[i].status # "OBSERVED_EMPTY"
                                /\ vs[i].claimed = h.roots
    BY <1>1, VerdictIs
  <1>5. /\ Lead(vs) = 1
        /\ SoundMembers \subseteq Group(vs, 1)
        /\ Cardinality(Group(vs, 1)) >= Quorum
    BY <1>3, <1>4, SoundLead
  <1>6. Out \subseteq Faulty
    BY <1>5 DEF SoundMembers
  <1>7. ~(Cardinality(Group(vs, 1)) < Quorum)
    <2>1. Group(vs, 1) \in SUBSET (1..Members) /\ IsFiniteSet(1..Members)
      BY FleetAssumption, FS_Interval DEF Group
    <2>2. Cardinality(Group(vs, 1)) \in Nat
      BY <2>1, FS_Subset, FS_CardinalityType
    <2>3. QED
      BY <1>5, <2>2, FleetAssumption
  <1>8. ~(\A i \in DOMAIN vs : vs[i].status = "OBSERVED_EMPTY")
    BY <1>3, <1>4
  <1>9. FleetVerdict(vs) =
          [status |-> IF vs[1].derived # vs[1].claimed THEN "NODE_DRIFT"
                      ELSE IF Out = {} THEN "CONSENSUS_OK" ELSE "OBSERVER_SPLIT",
           dissenters |-> Out]
    BY <1>5, <1>7, <1>8 DEF FleetVerdict
  <1>10. vs[1].derived # vs[1].claimed <=> h.roots # Published(h.ticks)
    BY <1>2, <1>3, <1>4
  <1>11. QED
    BY <1>6, <1>9, <1>10

-----------------------------------------------------------------------------
(* The steps. *)

LEMMA InitHolds ==
  ASSUME Init
  PROVE  IInv
  <1>1. MaxBlocks \in Nat /\ QuietStarts \subseteq BOOLEAN
    BY FleetAssumption
  <1>2. TypesOK
    <2>1. head \in Heads(0)
      BY DEF Init, Heads, Claims
    <2>2. verdicts \in Seq(Reports)
      BY DEF Init
    <2>3. QED
      BY <1>1, <2>1, <2>2 DEF Init, TypesOK
  <1>3. verdicts = <<>> /\ DOMAIN verdicts = {} /\ seen = None /\ fleet = None
    BY DEF Init
  <1>4. QED
    BY <1>2, <1>3 DEF IInv, SoundAre, SoundReads, OneHead, Concluded, WrongNodeOrWrongObserver

(* The node moves, the members do not. *)
LEMMA NodeStepHolds ==
  ASSUME IInv, UNCHANGED <<quiet, seen, verdicts, fleet>>,
         wal' \in 0..MaxBlocks, wal' = wal \/ wal' = wal + 1,
         (UNCHANGED <<head, still>>) \/ (head' \in {Torn} \cup Heads(wal) /\ still' = FALSE)
  PROVE  IInv'
  <1>1. wal \in Nat /\ TypesOK
    BY FleetAssumption DEF IInv, TypesOK
  <1>2. Heads(wal) \subseteq Heads(wal')
    BY <1>1, HeadsGrow
  <1>5. Heads(wal)' = Heads(wal')
    BY DEF Heads, Claims, Published, Eventless
  <1>6. TypesOK'
    BY <1>1, <1>2, <1>5 DEF TypesOK
  <1>7. SoundAre'
    BY <1>2, <1>5 DEF IInv, SoundAre
  <1>8. SoundReads'
    BY DEF IInv, SoundReads, Turn, SoundMembers
  <1>9. OneHead'
    BY <1>2, <1>5 DEF IInv, OneHead
  <1>10. Concluded'
    BY <1>2, <1>5 DEF IInv, Concluded
  <1>11. WrongNodeOrWrongObserver'
    BY DEF IInv, WrongNodeOrWrongObserver, SoundMajority, SoundMembers, Eventless, Published
  <1>12. QED
    BY <1>6, <1>7, <1>8, <1>9, <1>10, <1>11 DEF IInv

LEMMA NodeHolds ==
  ASSUME IInv, AppendBlock \/ TruncateHead \/ WriteHead
  PROVE  IInv'
  <1>1. wal \in Nat /\ wal \in 0..MaxBlocks /\ MaxBlocks \in Nat
    BY FleetAssumption DEF IInv, TypesOK
  <1>2. CASE AppendBlock
    <2>1. wal' \in 0..MaxBlocks
      BY <1>1, <1>2 DEF AppendBlock
    <2>2. QED
      BY <1>2, <2>1, NodeStepHolds DEF AppendBlock
  <1>3. CASE TruncateHead
    BY <1>1, <1>3, NodeStepHolds DEF TruncateHead
  <1>4. CASE WriteHead
    <2>1. PICK roots \in {Published(wal)} \cup Lies : head' = [ticks |-> wal, roots |-> roots]
      BY <1>4 DEF WriteHead
    <2>2. roots \in Claims(wal)
      BY <2>1 DEF Lies, Claims
    <2>3. head' \in Heads(wal)
      BY <1>1, <2>1, <2>2 DEF Heads
    <2>4. QED
      BY <1>1, <1>4, <2>3, NodeStepHolds DEF WriteHead
  <1>5. QED
    BY <1>2, <1>3, <1>4

(* The running member reads head.json or the log, a verdict is added, or the *)
(* observation ends: the node is left alone, and what it has is the same.    *)
LEMMA HeadsStay ==
  ASSUME UNCHANGED node
  PROVE  Heads(wal)' = Heads(wal)
  BY DEF node, Heads, Claims, Published, Eventless

LEMMA ReadHeadHolds ==
  ASSUME IInv, ReadHead
  PROVE  IInv'
  <1>1. UNCHANGED node /\ UNCHANGED <<wal, head, quiet, verdicts>>
    BY DEF ReadHead, node
  <1>2. Heads(wal)' = Heads(wal)
    BY <1>1, HeadsStay
  <1>3. head \in Heads(wal) /\ seen' = head /\ fleet' = None
    BY DEF ReadHead, BeginIfFirst, IInv, TypesOK
  <1>4. Turn \in SoundMembers /\ seen = None /\ still' = IF verdicts = <<>> THEN TRUE ELSE still
    BY DEF ReadHead, BeginIfFirst, SoundMembers
  <1>5. TypesOK'
    BY <1>1, <1>2, <1>3, <1>4 DEF IInv, TypesOK
  <1>6. SoundAre'
    BY <1>1, <1>2 DEF IInv, SoundAre
  <1>7. SoundReads'
    BY <1>1, <1>4 DEF SoundReads, Turn, SoundMembers
  <1>8. OneHead'
    <2>1. CASE verdicts = <<>>
      BY <1>1, <1>2, <1>3, <2>1 DEF OneHead
    <2>2. CASE verdicts # <<>>
      BY <1>1, <1>2, <1>3, <1>4, <2>2 DEF IInv, OneHead
    <2>3. QED
      BY <2>1, <2>2
  <1>9. Concluded' /\ WrongNodeOrWrongObserver'
    BY <1>3 DEF Concluded, WrongNodeOrWrongObserver
  <1>10. QED
    BY <1>5, <1>6, <1>7, <1>8, <1>9 DEF IInv

(* An observation that ends without a report. *)
LEMMA ThrowHolds ==
  ASSUME IInv, verdicts' = <<>>, seen = None, fleet' = None, UNCHANGED <<node, seen, still>>
  PROVE  IInv'
  <1>1. UNCHANGED <<wal, head, quiet>> /\ Heads(wal)' = Heads(wal)
    BY HeadsStay DEF node
  <1>2. TypesOK'
    BY <1>1 DEF IInv, TypesOK
  <1>3. DOMAIN verdicts' = {}
    OBVIOUS
  <1>4. SoundAre' /\ SoundReads' /\ OneHead' /\ Concluded' /\ WrongNodeOrWrongObserver'
    BY <1>3 DEF SoundAre, SoundReads, OneHead, Concluded, WrongNodeOrWrongObserver
  <1>5. QED
    BY <1>2, <1>4 DEF IInv

LEMMA ReadLogHolds ==
  ASSUME IInv, ReadLog
  PROVE  IInv'
  <1>1. UNCHANGED <<wal, head, quiet, fleet, still>> /\ Heads(wal)' = Heads(wal)
    BY HeadsStay DEF ReadLog, node
  <1>2. wal \in Nat /\ seen \in Heads(wal) /\ seen # None /\ seen' = None /\ verdicts \in Seq(Reports)
    BY FleetAssumption DEF ReadLog, IInv, TypesOK
  <1>3. verdicts' = Append(verdicts, SoundVerdict(seen))
    BY <1>2, ReadIs DEF ReadLog
  <1>4. SoundVerdict(seen) \in Reports
    BY <1>2, VerdictIs
  <1>5. /\ DOMAIN verdicts = 1..Len(verdicts) /\ Len(verdicts) \in Nat
        /\ DOMAIN verdicts' = 1..Turn
        /\ verdicts' \in Seq(Reports)
        /\ \A i \in 1..Len(verdicts) : verdicts'[i] = verdicts[i]
        /\ verdicts'[Turn] = SoundVerdict(seen)
    BY <1>2, <1>3, <1>4 DEF Turn
  <1>6. \A i \in DOMAIN verdicts' : i \in DOMAIN verdicts \/ i = Turn
    BY <1>5 DEF Turn
  <1>7. TypesOK'
    BY <1>1, <1>2, <1>5 DEF IInv, TypesOK
  <1>8. SoundAre'
    <2>1. SUFFICES ASSUME NEW i \in DOMAIN verdicts', i \notin Faulty
                   PROVE  \E h \in Heads(wal) : verdicts'[i] = SoundVerdict(h)
      BY <1>1 DEF SoundAre, SoundVerdict, LiveVerdict, Verdict, Derived
    <2>2. CASE i = Turn
      BY <1>2, <1>5, <2>2
    <2>3. CASE i \in DOMAIN verdicts
      BY <1>5, <2>1, <2>3 DEF IInv, SoundAre
    <2>4. QED
      BY <1>6, <2>2, <2>3
  <1>9. SoundReads'
    BY <1>2 DEF SoundReads
  <1>10. OneHead'
    <2>1. SUFFICES ASSUME 1 \notin Faulty, still
                   PROVE  /\ head \in Heads(wal)
                          /\ \A i \in DOMAIN verdicts' :
                               i \notin Faulty => verdicts'[i] = SoundVerdict(head)
      BY <1>1, <1>2 DEF OneHead
    <2>2. head \in Heads(wal) /\ seen = head
          /\ \A i \in DOMAIN verdicts : i \notin Faulty => verdicts[i] = SoundVerdict(head)
      BY <1>2, <2>1 DEF IInv, OneHead
    <2>3. QED
      BY <1>5, <1>6, <2>2
  <1>11. Concluded' /\ WrongNodeOrWrongObserver'
    BY <1>1 DEF IInv, Concluded, WrongNodeOrWrongObserver, SoundMajority, SoundMembers,
                Eventless, Published
  <1>12. QED
    BY <1>7, <1>8, <1>9, <1>10, <1>11 DEF IInv

LEMMA FaultyAnswersHolds ==
  ASSUME IInv, FaultyAnswers
  PROVE  IInv'
  <1>1. UNCHANGED <<wal, head, quiet, seen>> /\ Heads(wal)' = Heads(wal)
    BY HeadsStay DEF FaultyAnswers, node
  <1>2. Turn \in Faulty /\ fleet' = None /\ still' = IF verdicts = <<>> THEN TRUE ELSE still
    BY DEF FaultyAnswers, BeginIfFirst
  <1>3. wal \in Nat /\ verdicts \in Seq(Reports) /\ seen = None
    BY <1>2, FleetAssumption DEF IInv, TypesOK, SoundReads, SoundMembers
  <1>4. PICK v \in FaultyVerdicts : verdicts' = Append(verdicts, v)
    BY DEF FaultyAnswers
  <1>5. v \in Reports
    <2>1. Published(wal) \in Roots /\ [state |-> Lie, global |-> Lie] \in Roots
          /\ [state |-> NoRoot, global |-> NoRoot] \in Roots
      BY <1>3, RootsTyped
    <2>2. \/ \E c, d \in {[state |-> Lie, global |-> Lie], Published(wal)} :
               v = Verdict("OBSERVED_DRIFT", wal, c, d)
          \/ v = Verdict("OBSERVED_EMPTY", 0, Published(wal), [state |-> NoRoot, global |-> NoRoot])
      BY <1>4 DEF FaultyVerdicts
    <2>3. \A st \in Statuses, n \in Nat, c, d \in Roots : Verdict(st, n, c, d) \in Reports
      BY DEF Verdict, Reports
    <2>4. QED
      BY <1>3, <2>1, <2>2, <2>3 DEF Statuses
  <1>6. /\ DOMAIN verdicts = 1..Len(verdicts) /\ Len(verdicts) \in Nat
        /\ DOMAIN verdicts' = 1..Turn
        /\ verdicts' \in Seq(Reports)
        /\ \A i \in 1..Len(verdicts) : verdicts'[i] = verdicts[i]
    BY <1>3, <1>4, <1>5 DEF Turn
  <1>7. \A i \in DOMAIN verdicts' : i \notin Faulty => i \in DOMAIN verdicts
    BY <1>2, <1>6 DEF Turn
  <1>8. TypesOK'
    BY <1>1, <1>2, <1>6 DEF IInv, TypesOK
  <1>9. SoundAre'
    BY <1>1, <1>6, <1>7 DEF IInv, SoundAre
  <1>10. SoundReads'
    BY <1>1, <1>3 DEF SoundReads
  <1>11. OneHead'
    <2>1. SUFFICES ASSUME 1 \notin Faulty, still'
                   PROVE  /\ head \in Heads(wal)
                          /\ \A i \in DOMAIN verdicts' :
                               i \notin Faulty => verdicts'[i] = SoundVerdict(head)
      BY <1>1, <1>3 DEF OneHead
    <2>2. verdicts # <<>>
      BY <1>2, <2>1 DEF Turn
    <2>3. head \in Heads(wal)
          /\ \A i \in DOMAIN verdicts : i \notin Faulty => verdicts[i] = SoundVerdict(head)
      BY <1>2, <2>1, <2>2 DEF IInv, OneHead
    <2>4. QED
      BY <1>6, <1>7, <2>3
  <1>12. Concluded' /\ WrongNodeOrWrongObserver'
    BY <1>2 DEF Concluded, WrongNodeOrWrongObserver
  <1>13. QED
    BY <1>8, <1>9, <1>10, <1>11, <1>12 DEF IInv

LEMMA ConcludeHolds ==
  ASSUME IInv, Conclude
  PROVE  IInv'
  <1>1. UNCHANGED <<wal, head, quiet, seen, still>> /\ Heads(wal)' = Heads(wal)
    BY HeadsStay DEF Conclude, node
  <1>2. /\ wal \in Nat /\ verdicts \in Seq(Reports) /\ Len(verdicts) = Members
        /\ DOMAIN verdicts = 1..Members /\ Members \in Nat /\ Members >= 1
        /\ verdicts' = <<>> /\ fleet' = FleetVerdict(verdicts)
    BY FleetAssumption DEF Conclude, IInv, TypesOK
  <1>3. verdicts # <<>> /\ DOMAIN verdicts' = {}
    BY <1>2
  <1>4. 1 \notin Faulty /\ still =>
          /\ head \in Heads(wal)
          /\ seen # None => seen = head
          /\ \A i \in SoundMembers : verdicts[i] = SoundVerdict(head)
    BY <1>2, <1>3 DEF IInv, OneHead, SoundMembers
  <1>5. TypesOK'
    BY <1>1, <1>2 DEF IInv, TypesOK
  <1>6. SoundAre'
    BY <1>3 DEF SoundAre
  <1>7. SoundReads'
    <2>1. seen = None
      BY <1>2 DEF IInv, SoundReads, Turn, SoundMembers
    <2>2. QED
      BY <1>1, <2>1 DEF SoundReads
  <1>8. OneHead'
    BY <1>1, <1>3, <1>4 DEF OneHead
  <1>9. Concluded'
    BY <1>1, <1>4 DEF Concluded
  <1>10. WrongNodeOrWrongObserver'
    <2>1. SUFFICES ASSUME still, 1 \notin Faulty, SoundMajority, ~Eventless(head.ticks)
                   PROVE  /\ fleet'.dissenters \subseteq Faulty
                          /\ fleet'.status \in (IF head.roots # Published(head.ticks) THEN {"NODE_DRIFT"}
                                                ELSE IF fleet'.dissenters = {} THEN {"CONSENSUS_OK"}
                                                ELSE {"OBSERVER_SPLIT"})
      BY <1>1 DEF WrongNodeOrWrongObserver, SoundMajority, SoundMembers, Eventless, Published
    <2>2. QED
      BY <1>2, <1>4, <2>1, VoteIsRight
  <1>11. QED
    BY <1>5, <1>6, <1>7, <1>8, <1>9, <1>10 DEF IInv

LEMMA StepHolds ==
  ASSUME IInv, [Next]_vars
  PROVE  IInv'
  <1>1. CASE AppendBlock \/ TruncateHead \/ WriteHead
    BY <1>1, NodeHolds
  <1>2. CASE ReadHead
    BY <1>2, ReadHeadHolds
  <1>3. CASE ReadTornHead
    BY <1>3, ThrowHolds DEF ReadTornHead
  <1>4. CASE ReadLog
    BY <1>4, ReadLogHolds
  <1>5. CASE FaultyAnswers
    BY <1>5, FaultyAnswersHolds
  <1>6. CASE FaultyThrows
    <2>1. seen = None
      BY <1>6 DEF FaultyThrows, IInv, TypesOK, SoundReads, SoundMembers
    <2>2. QED
      BY <1>6, <2>1, ThrowHolds DEF FaultyThrows
  <1>7. CASE Conclude
    BY <1>7, ConcludeHolds
  <1>8. CASE UNCHANGED vars
    <2>1. wal \in Nat /\ wal \in 0..MaxBlocks
      BY FleetAssumption DEF IInv, TypesOK
    <2>2. UNCHANGED <<wal, head, quiet, seen, verdicts, fleet, still>>
      BY <1>8 DEF vars, node
    <2>3. QED
      BY <2>1, <2>2, NodeStepHolds
  <1>9. QED
    BY <1>1, <1>2, <1>3, <1>4, <1>5, <1>6, <1>7, <1>8 DEF Next

(* live-observer.ts: however the reads of the members and the writes of the  *)
(* node interleave, however many blocks there are and whoever is faulty, a   *)
(* sound observer reports drift exactly of the heads the log does not give.  *)
THEOREM FleetMembersAreRight == Spec => []SoundMemberIsRight
  <1>1. Init => IInv
    BY InitHolds
  <1>2. IInv /\ [Next]_vars => IInv'
    BY StepHolds
  <1>3. IInv => SoundMemberIsRight
    BY InvSound
  <1>4. QED
    BY <1>1, <1>2, <1>3, PTL DEF Spec

(* observer-fleet.ts: for any size of the fleet and any quorum that a sound  *)
(* majority reaches, an observation over one head blames the node only when  *)
(* the node is wrong, and dissenters only when they are faulty.              *)
THEOREM FleetTellsWhoIsWrong == Spec => []WrongNodeOrWrongObserver
  <1>1. Init => IInv
    BY InitHolds
  <1>2. IInv /\ [Next]_vars => IInv'
    BY StepHolds
  <1>3. IInv => WrongNodeOrWrongObserver
    BY DEF IInv
  <1>4. QED
    BY <1>1, <1>2, <1>3, PTL DEF Spec

-----------------------------------------------------------------------------
(* Verifying a transcript. *)

(* The loop of VerifyReplay over the checkpoints. *)
IsSearch(roots, ticks, g) ==
  g = [s \in SUBSET DOMAIN ticks |->
         IF s = {} THEN 0 ELSE SearchFrom(roots, g[s \ {Max(s)}], ticks[Max(s)])]

(* The loop of VerifyReplay. *)
SearchAll(roots, ticks) ==
  FoldLeft(LAMBDA j, checkpoint : SearchFrom(roots, j, checkpoint), 0, ticks)

(* A search ends behind j, at a root that is the checkpoint, and none is in  *)
(* between; or beyond the roots.                                             *)
LEMMA SearchFinds ==
  ASSUME NEW U, NEW roots \in Seq(U), NEW j \in Nat, NEW c
  PROVE  LET n == SearchFrom(roots, j, c) IN
         /\ n \in Nat
         /\ n > Len(roots) => n = Len(roots) + 1 /\ \A i \in DOMAIN roots : i > j => roots[i] # c
         /\ n <= Len(roots) => /\ n \in DOMAIN roots /\ n > j /\ roots[n] = c
                               /\ \A i \in DOMAIN roots : i > j /\ roots[i] = c => n <= i
  <1> DEFINE ahead == {i \in DOMAIN roots : i > j /\ roots[i] = c}
  <1>0. PICK n : n = SearchFrom(roots, j, c)
    OBVIOUS
  <1>1. DOMAIN roots = 1..Len(roots) /\ Len(roots) \in Nat
    OBVIOUS
  <1>2. n = IF ahead = {} THEN Len(roots) + 1 ELSE Min(ahead)
    BY <1>0 DEF SearchFrom
  <1>3. CASE ahead = {}
    <2>1. n = Len(roots) + 1
      BY <1>2, <1>3
    <2>2. \A i \in DOMAIN roots : i > j => roots[i] # c
      BY <1>3
    <2>3. QED
      BY <1>0, <1>1, <2>1, <2>2
  <1>4. CASE ahead # {}
    <2>1. ahead \in SUBSET Nat
      BY <1>1
    <2>2. n \in ahead /\ \A i \in ahead : n <= i
      BY <1>2, <1>4, <2>1, MinIsLeast
    <2>3. n \in DOMAIN roots /\ n > j /\ roots[n] = c
      BY <2>2
    <2>4. n <= Len(roots) /\ n \in Nat
      BY <1>1, <2>3
    <2>5. QED
      BY <1>0, <1>1, <2>2, <2>3, <2>4
  <1>5. QED
    BY <1>3, <1>4

(* Where the search stands after each checkpoint. *)
Stops(roots, ticks, f) ==
  /\ f[0] = 0
  /\ \A k \in 1..Len(ticks) : f[k] = SearchFrom(roots, f[k - 1], ticks[k])

LEMMA SearchStops ==
  ASSUME NEW U, NEW roots \in Seq(U), NEW ticks \in Seq(U)
  PROVE  \E f : Stops(roots, ticks, f) /\ SearchAll(roots, ticks) = f[Len(ticks)]
  <1> DEFINE next == [p \in Nat \X U |-> SearchFrom(roots, p[1], p[2])]
             h == CHOOSE h : IsSearch(roots, ticks, h)
             f == [k \in 0..Len(ticks) |-> h[1..k]]
  <1>1. DOMAIN ticks = 1..Len(ticks) /\ Len(ticks) \in Nat
    OBVIOUS
  <1>2. /\ next \in [Nat \X U -> Nat]
        /\ \A j \in Nat, c \in U : next[<<j, c>>] = SearchFrom(roots, j, c)
    <2>1. \A p \in Nat \X U : SearchFrom(roots, p[1], p[2]) \in Nat
      BY SearchFinds
    <2>2. QED
      BY <2>1
  <1>3. \E g : IsSearch(roots, ticks, g)
    <2> HIDE DEF next
    <2>1. PICK g : /\ ListFold(ticks, 0, next, g)
                   /\ \A s \in SUBSET DOMAIN ticks : g[s] \in Nat
      <3>1. 0 \in Nat
        OBVIOUS
      <3>2. QED
        BY <1>2, <3>1, ListFoldExists
    <2>2. ASSUME NEW s \in SUBSET DOMAIN ticks, s # {}
          PROVE  next[<<g[s \ {Max(s)}], ticks[Max(s)]>>]
                   = SearchFrom(roots, g[s \ {Max(s)}], ticks[Max(s)])
      <3>1. Max(s) \in DOMAIN ticks
        BY <1>1, <2>2, MaxOfInterval
      <3>2. ticks[Max(s)] \in U
        BY <3>1
      <3>3. g[s \ {Max(s)}] \in Nat
        BY <2>1
      <3>4. QED
        BY <1>2, <3>2, <3>3
    <2>3. IsSearch(roots, ticks, g)
      BY <2>1, <2>2 DEF ListFold, IsSearch
    <2>4. QED
      BY <2>3
  <1>4. IsSearch(roots, ticks, h)
    BY <1>3
  <1>5. SearchAll(roots, ticks) = h[DOMAIN ticks]
    BY Zenon DEF SearchAll, FoldLeft, MapThenFoldSet, IsSearch
  <1>6. \A s \in SUBSET DOMAIN ticks :
          h[s] = IF s = {} THEN 0 ELSE SearchFrom(roots, h[s \ {Max(s)}], ticks[Max(s)])
    BY <1>4 DEF IsSearch
  <1> HIDE DEF h
  <1>7. f[0] = 0
    <2>1. 1..0 = {} /\ {} \in SUBSET DOMAIN ticks
      OBVIOUS
    <2>2. h[{}] = 0
      BY <1>6, <2>1
    <2>3. QED
      BY <1>1, <2>1, <2>2
  <1>8. ASSUME NEW k \in 1..Len(ticks)
        PROVE  f[k] = SearchFrom(roots, f[k - 1], ticks[k])
    <2>1. /\ 1..k \in SUBSET DOMAIN ticks /\ 1..k # {}
          /\ Max(1..k) = k /\ (1..k) \ {k} = 1..(k-1)
      BY <1>1, LastOfInterval
    <2>2. h[1..k] = SearchFrom(roots, h[1..(k-1)], ticks[k])
      BY <1>6, <2>1
    <2>3. k \in 0..Len(ticks) /\ k - 1 \in 0..Len(ticks)
      BY <1>1
    <2>4. QED
      BY <2>2, <2>3
  <1>9. f[Len(ticks)] = h[DOMAIN ticks]
    BY <1>1
  <1>10. QED
    BY <1>5, <1>7, <1>8, <1>9 DEF Stops

(* The search stands no further than any way to place the checkpoints, so it *)
(* finds them all if there is one, and the places it finds are another.      *)
LEMMA SearchEmbeds ==
  ASSUME NEW U, NEW roots \in Seq(U), NEW ticks \in Seq(U)
  PROVE  SearchAll(roots, ticks) <= Len(roots) <=> Embeds(ticks, roots)
  <1>1. DOMAIN ticks = 1..Len(ticks) /\ Len(ticks) \in Nat
    OBVIOUS
  <1>2. DOMAIN roots = 1..Len(roots) /\ Len(roots) \in Nat
    OBVIOUS
  <1>3. PICK f : Stops(roots, ticks, f) /\ SearchAll(roots, ticks) = f[Len(ticks)]
    BY SearchStops
  <1>4. f[0] = 0 /\ \A k \in 1..Len(ticks) : f[k] = SearchFrom(roots, f[k - 1], ticks[k])
    BY <1>3 DEF Stops
  <1>5. \A k \in 0..Len(ticks) : f[k] \in Nat
    <2> DEFINE G == {k \in Nat : k <= Len(ticks) => f[k] \in Nat}
    <2>1. 0 \in G
      BY <1>4
    <2>2. ASSUME NEW k \in G PROVE k + 1 \in G
      <3>1. CASE k + 1 <= Len(ticks)
        <4>1. k + 1 \in 1..Len(ticks) /\ (k + 1) - 1 = k /\ f[k] \in Nat
          BY <1>1, <3>1
        <4>2. f[k + 1] \in Nat
          BY <1>4, <4>1, SearchFinds
        <4>3. QED
          BY <4>2
      <3>2. QED
        BY <3>1
    <2>3. G = Nat
      <3> HIDE DEF G
      <3>1. G \in SUBSET Nat
        BY DEF G
      <3>2. QED
        BY <2>1, <2>2, <3>1, NatInductionSet
    <2>4. QED
      BY <1>1, <2>3
  <1>6. \A k \in 1..Len(ticks) : /\ k - 1 \in 0..Len(ticks) /\ k \in 0..Len(ticks)
                                 /\ f[k - 1] \in Nat /\ f[k] \in Nat
    BY <1>1, <1>5
  <1>7. \A k \in 1..Len(ticks) :
          /\ f[k] > Len(roots) => \A i \in DOMAIN roots : i > f[k-1] => roots[i] # ticks[k]
          /\ f[k] <= Len(roots) =>
               /\ f[k] \in DOMAIN roots /\ f[k] > f[k-1] /\ roots[f[k]] = ticks[k]
               /\ \A i \in DOMAIN roots : i > f[k-1] /\ roots[i] = ticks[k] => f[k] <= i
    BY <1>4, <1>6, SearchFinds
  <1>8. ASSUME Embeds(ticks, roots) PROVE f[Len(ticks)] <= Len(roots)
    <2>1. PICK place \in [DOMAIN ticks -> DOMAIN roots] :
            /\ \A k \in DOMAIN ticks : roots[place[k]] = ticks[k]
            /\ \A k, l \in DOMAIN ticks : k < l => place[k] < place[l]
      BY <1>8 DEF Embeds
    <2> DEFINE Reach(k) == IF k = 0 THEN 0 ELSE place[k]
               G == {k \in Nat : k <= Len(ticks) => f[k] <= Reach(k)}
    <2>2. 0 \in G
      BY <1>4
    <2>3. ASSUME NEW k \in G PROVE k + 1 \in G
      <3> SUFFICES ASSUME k + 1 <= Len(ticks) PROVE f[k + 1] <= place[k + 1]
        OBVIOUS
      <3>1. k + 1 \in 1..Len(ticks) /\ (k + 1) - 1 = k /\ k \in Nat /\ f[k] <= Reach(k)
        BY <1>1
      <3>2. place[k + 1] \in DOMAIN roots /\ roots[place[k + 1]] = ticks[k + 1]
        BY <1>1, <2>1, <3>1
      <3>3. Reach(k) < place[k + 1] /\ Reach(k) \in Nat
        <4>1. CASE k = 0
          BY <1>2, <3>2, <4>1
        <4>2. CASE k # 0
          <5>1. k \in DOMAIN ticks /\ k < k + 1 /\ place[k] \in DOMAIN roots
            BY <1>1, <2>1, <3>1, <4>2
          <5>2. place[k] < place[k + 1]
            BY <1>1, <2>1, <3>1, <5>1
          <5>3. QED
            BY <1>2, <4>2, <5>1, <5>2
        <4>3. QED
          BY <4>1, <4>2
      <3>4. f[k] < place[k + 1] /\ f[k] \in Nat /\ f[k + 1] \in Nat
        BY <1>2, <1>6, <3>1, <3>2, <3>3
      <3>5. CASE f[k + 1] > Len(roots)
        BY <1>7, <3>1, <3>2, <3>4, <3>5
      <3>6. CASE f[k + 1] <= Len(roots)
        BY <1>7, <3>1, <3>2, <3>4, <3>6
      <3>7. QED
        BY <1>2, <3>4, <3>5, <3>6
    <2>4. G = Nat
      <3> HIDE DEF G
      <3>1. G \in SUBSET Nat
        BY DEF G
      <3>2. QED
        BY <2>2, <2>3, <3>1, NatInductionSet
    <2>5. f[Len(ticks)] <= Reach(Len(ticks))
      BY <1>1, <2>4
    <2>6. QED
      <3>1. CASE Len(ticks) = 0
        BY <1>2, <1>4, <3>1
      <3>2. CASE Len(ticks) # 0
        <4>1. Len(ticks) \in DOMAIN ticks /\ f[Len(ticks)] \in Nat
          BY <1>1, <1>5, <3>2
        <4>2. place[Len(ticks)] \in 1..Len(roots)
          BY <1>2, <2>1, <4>1
        <4>3. QED
          BY <1>2, <2>5, <3>2, <4>1, <4>2
      <3>3. QED
        BY <3>1, <3>2
  <1>9. ASSUME f[Len(ticks)] <= Len(roots) PROVE Embeds(ticks, roots)
    <2> DEFINE G == {d \in Nat : d <= Len(ticks) => f[Len(ticks) - d] <= Len(roots)}
    <2>1. 0 \in G
      BY <1>1, <1>9
    <2>2. ASSUME NEW d \in G PROVE d + 1 \in G
      <3> SUFFICES ASSUME d + 1 <= Len(ticks) PROVE f[Len(ticks) - (d + 1)] <= Len(roots)
        OBVIOUS
      <3>1. PICK k : k = Len(ticks) - d
        OBVIOUS
      <3>2. k \in 1..Len(ticks) /\ Len(ticks) - (d + 1) = k - 1 /\ f[k] <= Len(roots)
        BY <1>1, <3>1
      <3>3. f[k - 1] < f[k] /\ f[k] \in Nat /\ f[k - 1] \in Nat
        BY <1>6, <1>7, <3>2
      <3>4. QED
        BY <1>2, <3>2, <3>3
    <2>3. G = Nat
      <3> HIDE DEF G
      <3>1. G \in SUBSET Nat
        BY DEF G
      <3>2. QED
        BY <2>1, <2>2, <3>1, NatInductionSet
    <2>4. \A k \in 1..Len(ticks) : f[k] <= Len(roots)
      <3> SUFFICES ASSUME NEW k \in 1..Len(ticks) PROVE f[k] <= Len(roots)
        OBVIOUS
      <3>1. PICK d : d = Len(ticks) - k
        OBVIOUS
      <3>2. d \in Nat /\ d <= Len(ticks) /\ Len(ticks) - d = k
        BY <1>1, <3>1
      <3>3. d \in G
        BY <2>3, <3>2
      <3>4. QED
        BY <3>2, <3>3
    <2>5. \A k \in 1..Len(ticks) : f[k] \in DOMAIN roots /\ f[k] > f[k-1] /\ roots[f[k]] = ticks[k]
      BY <1>7, <2>4
    <2> DEFINE place == [k \in DOMAIN ticks |-> f[k]]
    <2>6. place \in [DOMAIN ticks -> DOMAIN roots] /\ \A k \in DOMAIN ticks : roots[place[k]] = ticks[k]
      BY <1>1, <2>5
    <2>7. \A k, l \in 0..Len(ticks) : k < l => f[k] < f[l]
      <3>1. \A k \in 1..Len(ticks) : f[k - 1] < f[k]
        BY <1>6, <2>5
      <3>2. QED
        BY <1>1, <1>5, <3>1, StepsRise
    <2>8. \A k, l \in DOMAIN ticks : k < l => place[k] < place[l]
      BY <1>1, <2>7
    <2>9. QED
      BY <2>6, <2>8 DEF Embeds
  <1>10. QED
    BY <1>3, <1>8, <1>9

(* A log with no rejected event leads to all of its roots, any other to those *)
(* before the first rejected one.                                            *)
LEMMA VerifyIs ==
  ASSUME NEW U, NEW t, t.log \in Seq(U), t.ticks \in Seq(U)
  PROVE  VerifyReplay(t) <=>
           /\ Rejected \notin ToSet(t.log)
           /\ t.final = IF t.log = <<>> THEN t.genesis ELSE Last(t.log)
           /\ Embeds(t.ticks, t.log)
  <1> DEFINE bad == {i \in DOMAIN t.log : t.log[i] = Rejected}
             r == ReplayLog(t.log, t.genesis)
  <1>1. DOMAIN t.log = 1..Len(t.log)
    OBVIOUS
  <1>2. CASE bad # {}
    <2>1. Rejected \in ToSet(t.log)
      BY <1>2 DEF ToSet
    <2>2. bad \in SUBSET Nat
      BY <1>1
    <2>3. Min(bad) \in bad
      BY <1>2, <2>2, MinIsLeast
    <2>4. Min(bad) # 0
      BY <1>1, <2>3
    <2>5. r.error = Min(bad)
      BY <1>2 DEF ReplayLog, ScanStateRoots
    <2>6. QED
      BY <2>1, <2>4, <2>5 DEF VerifyReplay
  <1>3. CASE bad = {}
    <2>1. Rejected \notin ToSet(t.log)
      BY <1>3 DEF ToSet
    <2>2. ScanStateRoots(t.log) = [roots |-> t.log, error |-> 0]
      BY <1>3 DEF ScanStateRoots
    <2>3. /\ r.error = 0 /\ r.roots = t.log
          /\ r.final = IF t.log = <<>> THEN t.genesis ELSE Last(t.log)
      BY <2>2 DEF ReplayLog
    <2>4. SearchAll(r.roots, t.ticks) <= Len(r.roots) <=> Embeds(t.ticks, t.log)
      BY <2>3, SearchEmbeds
    <2>5. VerifyReplay(t) <=> /\ r.error = 0 /\ r.final = t.final
                              /\ SearchAll(r.roots, t.ticks) <= Len(r.roots)
      BY Zenon DEF VerifyReplay, SearchAll
    <2>6. QED
      BY <2>1, <2>3, <2>4, <2>5
  <1>4. QED
    BY <1>2, <1>3

(* The loop of RunProgram over the blocks. *)
NewTranscript(genesis) == [genesis |-> genesis, log |-> <<>>, final |-> genesis, ticks |-> <<>>]

IsRun(genesis, blocks, g) ==
  g = [s \in SUBSET DOMAIN blocks |->
         IF s = {} THEN NewTranscript(genesis)
         ELSE RunBlock(g[s \ {Max(s)}], blocks[Max(s)])]

TranscriptsOf(U) == [genesis : U, log : Seq(U), final : U, ticks : Seq(U)]

(* A block adds its events, and what they lead to. *)
LEMMA RunBlockIs ==
  ASSUME NEW U, Rejected \in U, NEW t \in TranscriptsOf(U), NEW block \in Seq(U)
  PROVE  LET new == RunBlock(t, block) IN
         /\ new \in TranscriptsOf(U)
         /\ new.genesis = t.genesis
         /\ new.log = t.log \o block
         /\ new.ticks = Append(t.ticks, new.final)
         /\ Rejected \notin {t.final} \cup ToSet(block) =>
              new.final = IF block = <<>> THEN t.final ELSE block[Len(block)]
  <1>1. PICK end : end = Materialize_(block, t.final)
    OBVIOUS
  <1>2. PICK new : new = RunBlock(t, block)
    OBVIOUS
  <1>3. /\ t.genesis \in U /\ t.log \in Seq(U) /\ t.final \in U /\ t.ticks \in Seq(U)
        /\ t = [genesis |-> t.genesis, log |-> t.log, final |-> t.final, ticks |-> t.ticks]
    BY DEF TranscriptsOf
  <1>4. new = [genesis |-> t.genesis, log |-> t.log \o block, final |-> end,
               ticks |-> Append(t.ticks, end)]
    BY <1>1, <1>2, <1>3 DEF RunBlock
  <1>5. end \in U
    <2>1. block # <<>> => block[Len(block)] \in U
      OBVIOUS
    <2>2. QED
      BY <1>1, <1>3, <2>1 DEF Materialize_, Last
  <1>6. new \in TranscriptsOf(U)
    <2>1. t.log \o block \in Seq(U) /\ Append(t.ticks, end) \in Seq(U)
      BY <1>3, <1>5
    <2>2. QED
      BY <1>3, <1>4, <1>5, <2>1 DEF TranscriptsOf
  <1>7. Rejected \notin {t.final} \cup ToSet(block) =>
          end = IF block = <<>> THEN t.final ELSE block[Len(block)]
    BY <1>1 DEF Materialize_, Last
  <1>8. QED
    BY <1>2, <1>4, <1>6, <1>7

(* The transcript after each block. *)
BlockByBlock(genesis, blocks, f) ==
  /\ f[0] = NewTranscript(genesis)
  /\ \A k \in 1..Len(blocks) : f[k] = RunBlock(f[k - 1], blocks[k])

LEMMA RunSteps ==
  ASSUME NEW U, Rejected \in U, NEW genesis \in U, NEW blocks \in Seq(Seq(U))
  PROVE  \E f : BlockByBlock(genesis, blocks, f) /\ RunProgram(genesis, blocks) = f[Len(blocks)]
  <1> DEFINE V == TranscriptsOf(U)
             next == [p \in V \X Seq(U) |-> RunBlock(p[1], p[2])]
             h == CHOOSE h : IsRun(genesis, blocks, h)
             f == [k \in 0..Len(blocks) |-> h[1..k]]
  <1>1. DOMAIN blocks = 1..Len(blocks) /\ Len(blocks) \in Nat
    OBVIOUS
  <1>2. /\ next \in [V \X Seq(U) -> V]
        /\ \A t \in V, b \in Seq(U) : next[<<t, b>>] = RunBlock(t, b)
    <2>1. \A p \in V \X Seq(U) : RunBlock(p[1], p[2]) \in V
      BY RunBlockIs
    <2> HIDE DEF V
    <2>2. QED
      BY <2>1
  <1>3. NewTranscript(genesis) \in V
    <2>1. PICK none : none = <<>>
      OBVIOUS
    <2>2. none \in Seq(U)
      BY <2>1
    <2>3. QED
      BY <2>1, <2>2 DEF NewTranscript, TranscriptsOf
  <1> HIDE DEF V
  <1>4. \E g : IsRun(genesis, blocks, g)
    <2> HIDE DEF next
    <2>1. PICK g : /\ ListFold(blocks, NewTranscript(genesis), next, g)
                   /\ \A s \in SUBSET DOMAIN blocks : g[s] \in V
      BY <1>2, <1>3, ListFoldExists
    <2>2. ASSUME NEW s \in SUBSET DOMAIN blocks, s # {}
          PROVE  next[<<g[s \ {Max(s)}], blocks[Max(s)]>>]
                   = RunBlock(g[s \ {Max(s)}], blocks[Max(s)])
      <3>1. Max(s) \in DOMAIN blocks
        BY <1>1, <2>2, MaxOfInterval
      <3>2. blocks[Max(s)] \in Seq(U)
        BY <3>1
      <3>3. g[s \ {Max(s)}] \in V
        BY <2>1
      <3>4. QED
        BY <1>2, <3>2, <3>3
    <2>3. IsRun(genesis, blocks, g)
      BY <2>1, <2>2 DEF ListFold, IsRun
    <2>4. QED
      BY <2>3
  <1>5. IsRun(genesis, blocks, h)
    BY <1>4
  <1>6. RunProgram(genesis, blocks) = h[DOMAIN blocks]
    BY Zenon DEF RunProgram, FoldLeft, MapThenFoldSet, IsRun, NewTranscript
  <1>7. \A s \in SUBSET DOMAIN blocks :
          h[s] = IF s = {} THEN NewTranscript(genesis)
                 ELSE RunBlock(h[s \ {Max(s)}], blocks[Max(s)])
    BY <1>5 DEF IsRun
  <1> HIDE DEF h
  <1>8. f[0] = NewTranscript(genesis)
    <2>1. 1..0 = {} /\ {} \in SUBSET DOMAIN blocks
      OBVIOUS
    <2>2. h[{}] = NewTranscript(genesis)
      BY <1>7, <2>1
    <2>3. QED
      BY <1>1, <2>1, <2>2
  <1>9. ASSUME NEW k \in 1..Len(blocks)
        PROVE  f[k] = RunBlock(f[k - 1], blocks[k])
    <2>1. /\ 1..k \in SUBSET DOMAIN blocks /\ 1..k # {}
          /\ Max(1..k) = k /\ (1..k) \ {k} = 1..(k-1)
      BY <1>1, LastOfInterval
    <2>2. h[1..k] = RunBlock(h[1..(k-1)], blocks[k])
      BY <1>7, <2>1
    <2>3. k \in 0..Len(blocks) /\ k - 1 \in 0..Len(blocks)
      BY <1>1
    <2>4. QED
      BY <2>2, <2>3
  <1>10. f[Len(blocks)] = h[DOMAIN blocks]
    BY <1>1
  <1>11. QED
    BY <1>6, <1>8, <1>9, <1>10 DEF BlockByBlock

(* The transcript t after k blocks, whose logs were e[0], ..., e[k] long.    *)
RunFacts(genesis, blocks, e, k, t) ==
  /\ t.genesis = genesis
  /\ Len(t.log) = e[k]
  /\ t.final = IF t.log = <<>> THEN genesis ELSE t.log[e[k]]
  /\ Len(t.ticks) = k
  /\ \A j \in 1..k : /\ e[j - 1] <= e[j] /\ e[j] <= e[k]
                      /\ t.ticks[j] = IF e[j] = 0 THEN genesis ELSE t.log[e[j]]
  /\ \A p \in 1..e[k] : \E b \in 1..k : \E i \in DOMAIN blocks[b] :
       p = e[b - 1] + i /\ t.log[p] = blocks[b][i]

(* How long the log is after each block. *)
Ends(blocks, e) ==
  /\ e[0] = 0
  /\ \A k \in 1..Len(blocks) : e[k] = e[k - 1] + Len(blocks[k])

LEMMA RunStepFacts ==
  ASSUME NEW U, Rejected \in U, NEW genesis \in U, genesis # Rejected,
         NEW blocks \in Seq(Seq(U)), NEW e, Ends(blocks, e), NEW k \in 1..Len(blocks),
         \A j \in 0..Len(blocks) : e[j] \in Nat,
         \A b \in DOMAIN blocks : Rejected \notin ToSet(blocks[b]),
         NEW t \in TranscriptsOf(U), RunFacts(genesis, blocks, e, k - 1, t)
  PROVE  RunFacts(genesis, blocks, e, k, RunBlock(t, blocks[k]))
  <1>1. PICK block : block = blocks[k]
    OBVIOUS
  <1>2. PICK n : n = RunBlock(t, block)
    OBVIOUS
  <1>3. /\ k \in DOMAIN blocks /\ k \in Nat /\ k >= 1 /\ k - 1 \in Nat
        /\ k - 1 \in 0..Len(blocks) /\ k \in 0..Len(blocks) /\ Len(blocks) \in Nat
    OBVIOUS
  <1>4. block \in Seq(U) /\ Rejected \notin ToSet(block) /\ Len(block) \in Nat
    BY <1>1, <1>3
  <1>5. t.log \in Seq(U) /\ t.ticks \in Seq(U) /\ t.final \in U
    BY DEF TranscriptsOf
  <1>6. e[k] = e[k - 1] + Len(block) /\ e[k - 1] \in Nat /\ e[k] \in Nat
    BY <1>1, <1>3, <1>4 DEF Ends
  <1>7. /\ t.genesis = genesis /\ Len(t.log) = e[k - 1] /\ Len(t.ticks) = k - 1
        /\ t.final = IF t.log = <<>> THEN genesis ELSE t.log[e[k - 1]]
    BY DEF RunFacts
  <1>8. /\ \A j \in 1..(k - 1) : /\ e[j - 1] <= e[j] /\ e[j] <= e[k - 1]
                                 /\ t.ticks[j] = IF e[j] = 0 THEN genesis ELSE t.log[e[j]]
        /\ \A p \in 1..e[k - 1] : \E b \in 1..(k - 1) : \E i \in DOMAIN blocks[b] :
             p = e[b - 1] + i /\ t.log[p] = blocks[b][i]
    BY DEF RunFacts
  <1>9. t.final # Rejected
    <2>1. CASE t.log = <<>>
      BY <1>7, <2>1
    <2>2. CASE t.log # <<>>
      <3>1. e[k - 1] \in 1..e[k - 1] /\ t.final = t.log[e[k - 1]]
        <4>1. t.log \in Seq(U) /\ t.log # <<>> /\ Len(t.log) = e[k - 1]
          BY <1>5, <1>7, <2>2
        <4>2. e[k - 1] # 0
          BY <4>1
        <4>3. QED
          BY <1>6, <1>7, <2>2, <4>2
      <3>2. PICK b \in 1..(k - 1) : \E i \in DOMAIN blocks[b] : t.log[e[k - 1]] = blocks[b][i]
        BY <1>8, <3>1
      <3>3. b \in DOMAIN blocks
        BY <1>3
      <3>4. t.final \in ToSet(blocks[b])
        BY <3>1, <3>2 DEF ToSet
      <3>5. QED
        BY <3>3, <3>4
    <2>3. QED
      BY <2>1, <2>2
  <1>10. /\ n.genesis = genesis /\ n.log = t.log \o block
         /\ n.ticks = Append(t.ticks, n.final)
         /\ n.final = IF block = <<>> THEN t.final ELSE block[Len(block)]
    <2>1. /\ n.genesis = t.genesis /\ n.log = t.log \o block
          /\ n.ticks = Append(t.ticks, n.final)
          /\ Rejected \notin {t.final} \cup ToSet(block) =>
               n.final = IF block = <<>> THEN t.final ELSE block[Len(block)]
      <3>1. LET new == RunBlock(t, block) IN
            /\ new.genesis = t.genesis
            /\ new.log = t.log \o block
            /\ new.ticks = Append(t.ticks, new.final)
            /\ Rejected \notin {t.final} \cup ToSet(block) =>
                 new.final = IF block = <<>> THEN t.final ELSE block[Len(block)]
        BY <1>4, RunBlockIs
      <3>2. QED
        BY <1>2, <1>4, <3>1
    <2>2. Rejected \notin {t.final} \cup ToSet(block)
      BY <1>4, <1>9
    <2>3. QED
      BY <1>7, <2>1, <2>2
  <1>11. /\ Len(n.log) = e[k]
         /\ \A p \in 1..e[k - 1] : n.log[p] = t.log[p]
         /\ \A i \in 1..Len(block) : n.log[e[k - 1] + i] = block[i]
    <2>1. PICK old : old = t.log
      OBVIOUS
    <2>2. old \in Seq(U) /\ Len(old) = e[k - 1] /\ n.log = old \o block
      BY <1>5, <1>7, <1>10, <2>1
    <2>3. /\ Len(old \o block) = Len(old) + Len(block)
          /\ \A p \in 1..Len(old) : (old \o block)[p] = old[p]
          /\ \A i \in 1..Len(block) : (old \o block)[Len(old) + i] = block[i]
      <3>0. old \in Seq(U) /\ block \in Seq(U)
        BY <1>4, <2>2
      <3>1. Len(old \o block) = Len(old) + Len(block)
        BY <3>0, ConcatProperties
      <3>2. ASSUME NEW p \in 1..Len(old) PROVE (old \o block)[p] = old[p]
        BY <1>4, <2>2
      <3>3. ASSUME NEW i \in 1..Len(block) PROVE (old \o block)[Len(old) + i] = block[i]
        <4>1. Len(old) \in Nat /\ i \in Nat /\ 1 <= i /\ i <= Len(block)
          BY <1>4, <2>2
        <4>2. PICK q : q = Len(old) + i
          OBVIOUS
        <4>3. q \in 1..Len(old) + Len(block) /\ ~(q <= Len(old)) /\ q - Len(old) = i
          BY <1>4, <4>1, <4>2
        <4>4. (old \o block)[q] = IF q <= Len(old) THEN old[q] ELSE block[q - Len(old)]
          BY <3>0, <4>3, ConcatProperties
        <4>5. QED
          BY <4>2, <4>3, <4>4
      <3>4. QED
        BY <3>1, <3>2, <3>3
    <2>4. QED
      BY <1>6, <2>1, <2>2, <2>3
  <1>12. n.final = IF n.log = <<>> THEN genesis ELSE n.log[e[k]]
    <2>1. CASE block = <<>>
      <3>1. e[k] = e[k - 1] /\ n.final = t.final
        BY <1>6, <1>10, <2>1
      <3>2. CASE t.log = <<>>
        <4>1. n.log = <<>>
          BY <1>10, <2>1, <3>2
        <4>2. QED
          BY <1>7, <3>1, <3>2, <4>1
      <3>3. CASE t.log # <<>>
        <4>1. e[k - 1] > 0
          BY <1>5, <1>7, <3>3
        <4>2. e[k - 1] \in 1..e[k - 1]
          BY <1>6, <4>1
        <4>3. n.log[e[k]] = t.log[e[k - 1]]
          BY <1>11, <3>1, <4>2
        <4>4. n.log # <<>>
          BY <1>11, <3>1, <4>1
        <4>5. QED
          BY <1>7, <3>1, <3>3, <4>3, <4>4
      <3>4. QED
        BY <3>2, <3>3
    <2>2. CASE block # <<>>
      <3>1. Len(block) \in 1..Len(block)
        BY <1>4, <2>2
      <3>2. n.log[e[k]] = block[Len(block)]
        BY <1>6, <1>11, <3>1
      <3>3. n.log # <<>>
        BY <1>6, <1>11, <3>1
      <3>4. QED
        BY <1>10, <2>2, <3>2, <3>3
    <2>3. QED
      BY <2>1, <2>2
  <1>13. n.final \in U
    BY <1>2, <1>4, RunBlockIs DEF TranscriptsOf
  <1>14. /\ Len(n.ticks) = k /\ n.ticks[k] = n.final
         /\ \A j \in 1..(k - 1) : n.ticks[j] = t.ticks[j]
    <2>1. PICK ticks, end : ticks = t.ticks /\ end = n.final
      OBVIOUS
    <2>2. ticks \in Seq(U) /\ end \in U /\ Len(ticks) = k - 1 /\ n.ticks = Append(ticks, end)
      BY <1>5, <1>7, <1>10, <1>13, <2>1
    <2>3. /\ Len(Append(ticks, end)) = k - 1 + 1 /\ Append(ticks, end)[k - 1 + 1] = end
          /\ \A j \in 1..(k - 1) : Append(ticks, end)[j] = ticks[j]
      BY <1>3, <2>2
    <2>4. k - 1 + 1 = k
      BY <1>3
    <2>5. QED
      BY <2>1, <2>2, <2>3, <2>4
  <1>15. ASSUME NEW j \in 1..k
         PROVE  /\ e[j - 1] <= e[j] /\ e[j] <= e[k]
                /\ n.ticks[j] = IF e[j] = 0 THEN genesis ELSE n.log[e[j]]
    <2>1. CASE j = k
      <3>1. e[k] = 0 <=> n.log = <<>>
        <4>1. n.log \in Seq(U)
          BY <1>4, <1>5, <1>10
        <4>2. QED
          BY <1>11, <4>1
      <3>2. QED
        BY <1>4, <1>6, <1>12, <1>14, <2>1, <3>1
    <2>2. CASE j # k
      <3>1. j \in 1..(k - 1) /\ j \in 0..Len(blocks)
        BY <1>3, <2>2
      <3>2. e[j] \in Nat /\ e[j] <= e[k - 1] /\ e[j - 1] <= e[j]
        BY <1>8, <3>1
      <3>3. n.ticks[j] = IF e[j] = 0 THEN genesis ELSE t.log[e[j]]
        BY <1>8, <1>14, <3>1
      <3>4. e[j] # 0 => n.log[e[j]] = t.log[e[j]]
        <4>1. e[j] # 0 => e[j] \in 1..e[k - 1]
          BY <1>6, <3>2
        <4>2. QED
          BY <1>11, <4>1
      <3>5. e[j] <= e[k]
        BY <1>4, <1>6, <3>2
      <3>6. QED
        BY <3>2, <3>3, <3>4, <3>5
    <2>3. QED
      BY <2>1, <2>2
  <1>16. ASSUME NEW p \in 1..e[k]
         PROVE  \E b \in 1..k : \E i \in DOMAIN blocks[b] :
                  p = e[b - 1] + i /\ n.log[p] = blocks[b][i]
    <2>1. CASE p <= e[k - 1]
      <3>1. p \in 1..e[k - 1]
        BY <1>6, <2>1
      <3>2. PICK b \in 1..(k - 1) : \E i \in DOMAIN blocks[b] :
                  p = e[b - 1] + i /\ t.log[p] = blocks[b][i]
        BY <1>8, <3>1
      <3>3. n.log[p] = t.log[p] /\ b \in 1..k
        <4>1. n.log[p] = t.log[p]
          BY <1>11, <3>1
        <4>2. b \in 1..k
          BY <1>3
        <4>3. QED
          BY <4>1, <4>2
      <3>4. QED
        BY <3>2, <3>3
    <2>2. CASE p > e[k - 1]
      <3>1. PICK i : i = p - e[k - 1]
        OBVIOUS
      <3>2. i \in 1..Len(block) /\ p = e[k - 1] + i
        BY <1>4, <1>6, <2>2, <3>1
      <3>3. n.log[p] = blocks[k][i] /\ i \in DOMAIN blocks[k]
        BY <1>1, <1>4, <1>11, <3>2
      <3>4. k \in 1..k
        BY <1>3
      <3>5. QED
        BY <3>2, <3>3, <3>4
    <2>3. QED
      BY <1>6, <2>1, <2>2
  <1>17. RunFacts(genesis, blocks, e, k, n)
    BY <1>10, <1>11, <1>12, <1>14, <1>15, <1>16 DEF RunFacts
  <1>18. QED
    BY <1>1, <1>2, <1>17

(* The transcript of a whole run. *)
LEMMA RunIs ==
  ASSUME NEW U, Rejected \in U, NEW genesis \in U, genesis # Rejected,
         NEW blocks \in Seq(Seq(U)),
         \A b \in DOMAIN blocks : Rejected \notin ToSet(blocks[b])
  PROVE  \E e : /\ Ends(blocks, e)
                /\ \A j \in 0..Len(blocks) : e[j] \in Nat
                /\ RunProgram(genesis, blocks) \in TranscriptsOf(U)
                /\ RunFacts(genesis, blocks, e, Len(blocks), RunProgram(genesis, blocks))
  <1>1. PICK f : /\ BlockByBlock(genesis, blocks, f)
                 /\ RunProgram(genesis, blocks) = f[Len(blocks)]
    BY RunSteps
  <1>2. /\ f[0] = NewTranscript(genesis)
        /\ \A k \in 1..Len(blocks) : f[k] = RunBlock(f[k - 1], blocks[k])
    BY <1>1 DEF BlockByBlock
  <1>3. Len(blocks) \in Nat /\ DOMAIN blocks = 1..Len(blocks)
    OBVIOUS
  <1> DEFINE G == {k \in Nat : k <= Len(blocks) => f[k] \in TranscriptsOf(U)}
  <1>4. 0 \in G /\ f[0].log = <<>> /\ f[0].ticks = <<>> /\ f[0].genesis = genesis /\ f[0].final = genesis
    <2>1. PICK none : none = <<>>
      OBVIOUS
    <2>2. none \in Seq(U)
      BY <2>1
    <2>3. f[0] = [genesis |-> genesis, log |-> none, final |-> genesis, ticks |-> none]
      BY <1>2, <2>1 DEF NewTranscript
    <2>4. f[0] \in TranscriptsOf(U)
      BY <2>2, <2>3 DEF TranscriptsOf
    <2>5. QED
      BY <2>1, <2>3, <2>4
  <1>5. ASSUME NEW k \in G PROVE k + 1 \in G
    <2> SUFFICES ASSUME k + 1 <= Len(blocks) PROVE f[k + 1] \in TranscriptsOf(U)
      OBVIOUS
    <2>1. k + 1 \in 1..Len(blocks) /\ (k + 1) - 1 = k /\ f[k] \in TranscriptsOf(U)
      BY <1>3
    <2>2. f[k + 1] = RunBlock(f[k], blocks[k + 1]) /\ blocks[k + 1] \in Seq(U)
      BY <1>2, <1>3, <2>1
    <2>3. QED
      BY <2>1, <2>2, RunBlockIs
  <1>6. G = Nat
    <2> HIDE DEF G
    <2>1. G \in SUBSET Nat
      BY DEF G
    <2>2. QED
      BY <1>4, <1>5, <2>1, NatInductionSet
  <1>7. \A k \in 0..Len(blocks) : f[k] \in TranscriptsOf(U)
    BY <1>3, <1>6
  <1> DEFINE e == [k \in 0..Len(blocks) |-> Len(f[k].log)]
  <1>8. \A j \in 0..Len(blocks) : e[j] \in Nat /\ e[j] = Len(f[j].log)
    BY <1>7 DEF TranscriptsOf
  <1>9. ASSUME NEW k \in 1..Len(blocks)
        PROVE  e[k] = e[k - 1] + Len(blocks[k])
    <2>1. k - 1 \in 0..Len(blocks) /\ k \in 0..Len(blocks)
      BY <1>3
    <2>2. f[k - 1] \in TranscriptsOf(U) /\ blocks[k] \in Seq(U)
      BY <1>3, <1>7, <2>1
    <2>3. f[k].log = f[k - 1].log \o blocks[k]
      <3>1. PICK t, b : t = f[k - 1] /\ b = blocks[k]
        OBVIOUS
      <3>2. t \in TranscriptsOf(U) /\ b \in Seq(U)
        BY <2>2, <3>1
      <3>3. RunBlock(t, b).log = t.log \o b
        BY <3>2, RunBlockIs
      <3>4. f[k] = RunBlock(t, b)
        BY <1>2, <3>1
      <3>5. QED
        BY <3>1, <3>3, <3>4
    <2>4. f[k - 1].log \in Seq(U)
      BY <2>2 DEF TranscriptsOf
    <2>5. Len(f[k].log) = Len(f[k - 1].log) + Len(blocks[k])
      BY <2>2, <2>3, <2>4
    <2>6. QED
      BY <1>8, <2>1, <2>5
  <1>10. e[0] = 0
    BY <1>3, <1>4, <1>8
  <1>11. Ends(blocks, e)
    BY <1>9, <1>10 DEF Ends
  <1> HIDE DEF e
  <1> DEFINE H == {k \in Nat : k <= Len(blocks) => RunFacts(genesis, blocks, e, k, f[k])}
  <1>12. 0 \in H
    BY <1>4, <1>10 DEF RunFacts
  <1>13. ASSUME NEW k \in H PROVE k + 1 \in H
    <2> SUFFICES ASSUME k + 1 <= Len(blocks) PROVE RunFacts(genesis, blocks, e, k + 1, f[k + 1])
      OBVIOUS
    <2>1. PICK l : l = k + 1
      OBVIOUS
    <2>2. l \in 1..Len(blocks) /\ l - 1 = k /\ k \in 0..Len(blocks)
      BY <1>3, <2>1
    <2>3. RunFacts(genesis, blocks, e, l - 1, f[k]) /\ f[k] \in TranscriptsOf(U)
      BY <1>7, <2>2
    <2>4. RunFacts(genesis, blocks, e, l, RunBlock(f[k], blocks[l]))
      BY <1>8, <1>11, <2>2, <2>3, RunStepFacts
    <2>5. f[l] = RunBlock(f[k], blocks[l])
      BY <1>2, <2>2
    <2>6. QED
      BY <2>1, <2>4, <2>5
  <1>14. H = Nat
    <2> HIDE DEF H
    <2>1. H \in SUBSET Nat
      BY DEF H
    <2>2. QED
      BY <1>12, <1>13, <2>1, NatInductionSet
  <1>15. RunFacts(genesis, blocks, e, Len(blocks), f[Len(blocks)])
    BY <1>3, <1>14
  <1>16. f[Len(blocks)] \in TranscriptsOf(U)
    BY <1>3, <1>7
  <1>17. QED
    BY <1>1, <1>8, <1>11, <1>15, <1>16

(* A run whose events have States of their own verifies unless a block of it *)
(* emitted none.                                                             *)
LEMMA RunVerifies ==
  ASSUME NEW U, {Rejected, Genesis} \subseteq U, NEW blocks \in Seq(Seq(U)),
         EachItsOwn(blocks)
  PROVE  VerifyReplay(RunProgram(Genesis, blocks)) <=> \A k \in DOMAIN blocks : blocks[k] # <<>>
  <1>1. PICK t : t = RunProgram(Genesis, blocks)
    OBVIOUS
  <1>2. Len(blocks) \in Nat /\ DOMAIN blocks = 1..Len(blocks)
    OBVIOUS
  <1>3. Genesis # Rejected
    BY DEF Genesis, Rejected
  <1>4. \A b \in DOMAIN blocks : Rejected \notin ToSet(blocks[b])
    BY DEF EachItsOwn, ToSet
  <1>5. PICK e : /\ Ends(blocks, e)
                 /\ \A j \in 0..Len(blocks) : e[j] \in Nat
                 /\ t \in TranscriptsOf(U)
                 /\ RunFacts(Genesis, blocks, e, Len(blocks), t)
    BY <1>1, <1>3, <1>4, RunIs
  <1>6. t.log \in Seq(U) /\ t.ticks \in Seq(U)
    BY <1>5 DEF TranscriptsOf
  <1>7. /\ t.genesis = Genesis /\ Len(t.log) = e[Len(blocks)]
        /\ t.final = IF t.log = <<>> THEN Genesis ELSE t.log[e[Len(blocks)]]
        /\ Len(t.ticks) = Len(blocks)
    BY <1>5 DEF RunFacts
  <1>8. \A j \in 1..Len(blocks) :
          /\ e[j - 1] <= e[j] /\ e[j] <= e[Len(blocks)]
          /\ t.ticks[j] = IF e[j] = 0 THEN Genesis ELSE t.log[e[j]]
    BY <1>5 DEF RunFacts
  <1>9. \A p \in 1..e[Len(blocks)] : \E b \in 1..Len(blocks) : \E i \in DOMAIN blocks[b] :
             p = e[b - 1] + i /\ t.log[p] = blocks[b][i]
    BY <1>5 DEF RunFacts
  <1>10. DOMAIN t.log = 1..e[Len(blocks)] /\ DOMAIN t.ticks = DOMAIN blocks
    BY <1>2, <1>6, <1>7
  <1>11. \A p \in DOMAIN t.log : t.log[p] \notin {Rejected, Genesis}
    <2> SUFFICES ASSUME NEW p \in DOMAIN t.log PROVE t.log[p] \notin {Rejected, Genesis}
      OBVIOUS
    <2>1. PICK b \in DOMAIN blocks : \E i \in DOMAIN blocks[b] : t.log[p] = blocks[b][i]
      BY <1>2, <1>9, <1>10
    <2>2. QED
      BY <2>1 DEF EachItsOwn
  <1>12. \A p, q \in DOMAIN t.log : t.log[p] = t.log[q] => p = q
    <2> SUFFICES ASSUME NEW p \in DOMAIN t.log, NEW q \in DOMAIN t.log, t.log[p] = t.log[q]
                 PROVE  p = q
      OBVIOUS
    <2>1. PICK b \in DOMAIN blocks : \E i \in DOMAIN blocks[b] :
             p = e[b - 1] + i /\ t.log[p] = blocks[b][i]
      BY <1>2, <1>9, <1>10
    <2>2. PICK i \in DOMAIN blocks[b] : p = e[b - 1] + i /\ t.log[p] = blocks[b][i]
      BY <2>1
    <2>3. PICK c \in DOMAIN blocks : \E j \in DOMAIN blocks[c] :
             q = e[c - 1] + j /\ t.log[q] = blocks[c][j]
      BY <1>2, <1>9, <1>10
    <2>4. PICK j \in DOMAIN blocks[c] : q = e[c - 1] + j /\ t.log[q] = blocks[c][j]
      BY <2>3
    <2>5. blocks[b][i] = blocks[c][j]
      BY <2>2, <2>4
    <2>6. b = c /\ i = j
      BY <2>5 DEF EachItsOwn
    <2>7. QED
      BY <2>2, <2>4, <2>6
  <1>13. Rejected \notin ToSet(t.log)
    BY <1>11 DEF ToSet
  <1>14. t.final = IF t.log = <<>> THEN t.genesis ELSE Last(t.log)
    BY <1>7 DEF Last
  <1>15. VerifyReplay(t) <=> Embeds(t.ticks, t.log)
    BY <1>6, <1>13, <1>14, VerifyIs
  <1>16. ASSUME \A k \in DOMAIN blocks : blocks[k] # <<>> PROVE Embeds(t.ticks, t.log)
    <2>1. \A k \in 1..Len(blocks) : e[k - 1] < e[k]
      <3> SUFFICES ASSUME NEW k \in 1..Len(blocks) PROVE e[k - 1] < e[k]
        OBVIOUS
      <3>1. blocks[k] \in Seq(U) /\ blocks[k] # <<>>
        <4>1. DOMAIN blocks = 1..Len(blocks)
          OBVIOUS
        <4>2. blocks[k] # <<>>
          BY <1>16, <4>1
        <4>3. blocks[k] \in Seq(U)
          OBVIOUS
        <4>4. QED
          BY <4>2, <4>3
      <3>2. Len(blocks[k]) > 0 /\ Len(blocks[k]) \in Nat
        BY <3>1
      <3>3. k - 1 \in 0..Len(blocks)
        BY <1>2
      <3>4. e[k - 1] \in Nat /\ e[k] = e[k - 1] + Len(blocks[k])
        BY <1>5, <3>3 DEF Ends
      <3>5. QED
        BY <3>2, <3>4
    <2>2. \A k, l \in 0..Len(blocks) : k < l => e[k] < e[l]
      BY <1>2, <1>5, <2>1, StepsRise
    <2> DEFINE place == [k \in DOMAIN t.ticks |-> e[k]]
    <2>3. ASSUME NEW k \in DOMAIN t.ticks
          PROVE  e[k] \in DOMAIN t.log /\ t.log[e[k]] = t.ticks[k]
      <3>1. k \in 1..Len(blocks) /\ 0 \in 0..Len(blocks) /\ k \in 0..Len(blocks) /\ 0 < k
        BY <1>2, <1>10
      <3>2. e[0] < e[k] /\ e[0] = 0 /\ e[k] \in Nat /\ Len(blocks) \in 0..Len(blocks)
        BY <1>2, <1>5, <2>2, <3>1 DEF Ends
      <3>3. e[k] <= e[Len(blocks)] /\ e[Len(blocks)] \in Nat
        BY <1>5, <1>8, <3>1, <3>2
      <3>4. e[k] \in DOMAIN t.log /\ e[k] # 0
        BY <1>10, <3>2, <3>3
      <3>5. QED
        BY <1>8, <3>1, <3>4
    <2>4. place \in [DOMAIN t.ticks -> DOMAIN t.log]
      BY <2>3
    <2>5. \A k \in DOMAIN t.ticks : t.log[place[k]] = t.ticks[k]
      BY <2>3
    <2>6. \A k, l \in DOMAIN t.ticks : k < l => place[k] < place[l]
      <3>1. \A k \in DOMAIN t.ticks : k \in 0..Len(blocks) /\ place[k] = e[k]
        BY <1>2, <1>10
      <3> HIDE DEF place
      <3>2. QED
        BY <2>2, <3>1
    <2>7. QED
      BY <2>4, <2>5, <2>6 DEF Embeds
  <1>17. ASSUME Embeds(t.ticks, t.log), NEW b \in DOMAIN blocks, blocks[b] = <<>> PROVE FALSE
    <2>1. PICK place \in [DOMAIN t.ticks -> DOMAIN t.log] :
            /\ \A k \in DOMAIN t.ticks : t.log[place[k]] = t.ticks[k]
            /\ \A k, l \in DOMAIN t.ticks : k < l => place[k] < place[l]
      BY <1>17 DEF Embeds
    <2>2. b \in 1..Len(blocks) /\ b - 1 \in 0..Len(blocks)
      BY <1>2
    <2>3. e[b] = e[b - 1] /\ e[b - 1] \in Nat /\ e[0] = 0
      BY <1>5, <1>17, <2>2 DEF Ends
    <2>4. t.ticks[b] # Genesis /\ b \in DOMAIN t.ticks /\ place[b] \in DOMAIN t.log
      BY <1>10, <1>11, <2>1
    <2>5. e[b] # 0 /\ t.ticks[b] = t.log[e[b]]
      BY <1>8, <2>2, <2>4
    <2>6. b # 1
      BY <2>3, <2>5
    <2>7. PICK a : a = b - 1
      OBVIOUS
    <2>8. a \in DOMAIN blocks /\ a \in 1..Len(blocks) /\ a < b /\ e[a] = e[b]
      BY <1>2, <2>2, <2>3, <2>6, <2>7
    <2>9. t.ticks[a] = t.ticks[b]
      BY <1>8, <2>5, <2>8
    <2>10. /\ place[a] \in DOMAIN t.log /\ t.log[place[a]] = t.log[place[b]]
           /\ place[a] < place[b]
      BY <1>10, <2>1, <2>4, <2>8, <2>9
    <2>11. place[a] = place[b]
      BY <1>12, <2>4, <2>10
    <2>12. QED
      BY <1>10, <2>4, <2>10, <2>11
  <1>18. QED
    BY <1>1, <1>15, <1>16, <1>17
-----------------------------------------------------------------------------
(* What is answered at once. *)

(* An answer is what the code makes of one of the inputs. *)
Computed ==
  /\ subject = "cadence" =>
       /\ given \in Costs
       /\ answer = OperationalCadence(given.sla, given.load, given.perTick, given.margin, given.safety)
  /\ subject = "drift" =>
       \E ts, oracle \in Streams :
         given = [ts |-> ts, oracle |-> oracle] /\ answer = DetectDrift(ts, oracle)
  /\ subject = "run" =>
       /\ given \in Programs
       /\ answer.verified = VerifyReplay(RunProgram(Genesis, given))
  /\ subject = "replay" => given \in Transcripts /\ answer = VerifyReplay(given)

LEMMA ComputedHolds == ObservingSpec => []Computed
  <1>1. NothingAsked => Computed
    BY DEF NothingAsked, Computed
  <1>2. Computed /\ [Observe \/ Elsewhere]_asked => Computed'
    <2> SUFFICES ASSUME Computed, [Observe \/ Elsewhere]_asked PROVE Computed'
      OBVIOUS
    <2>1. CASE Planning
      BY <2>1 DEF Planning, Put, Computed
    <2>2. CASE Comparing
      BY <2>2 DEF Comparing, Put, Computed
    <2>3. CASE Watching
      BY <2>3 DEF Watching, Put, Computed
    <2>4. CASE Replaying
      <3>1. CASE \E t \in Transcripts : Put("replay", t, VerifyReplay(t))
        BY <3>1 DEF Put, Computed
      <3>2. CASE \E blocks \in Programs :
                   LET t == RunProgram(Genesis, blocks)
                   IN  Put("run", blocks, [t |-> t, verified |-> VerifyReplay(t)])
        <4>1. PICK blocks \in Programs :
                LET t == RunProgram(Genesis, blocks)
                IN  Put("run", blocks, [t |-> t, verified |-> VerifyReplay(t)])
          BY <3>2
        <4>2. /\ subject' = "run" /\ given' = blocks
              /\ answer'.verified = VerifyReplay(RunProgram(Genesis, blocks))
          BY <4>1 DEF Put
        <4>3. QED
          BY <4>1, <4>2 DEF Computed
      <3>3. QED
        BY <2>4, <3>1, <3>2 DEF Replaying
    <2>5. CASE Soaking
      BY <2>5 DEF Soaking, Put, Computed
    <2>6. CASE Elsewhere
      BY <2>6 DEF Elsewhere, Computed
    <2>7. CASE UNCHANGED asked
      BY <2>7 DEF asked, Computed
    <2>8. QED
      BY <2>1, <2>2, <2>3, <2>4, <2>5, <2>6, <2>7 DEF Observe
  <1>3. QED
    BY <1>1, <1>2, PTL DEF ObservingSpec

(* The cadence that is derived from an SLA meets it whenever one does, and is *)
(* the longest that does (operationalCadence of recovery-sla.ts).            *)
THEOREM PlannedCadenceMeetsSla == ObservingSpec => []CadenceMeetsSla
  <1>1. Computed => CadenceMeetsSla
    <2> SUFFICES ASSUME Computed, subject = "cadence" PROVE CadenceMeetsSla
      BY DEF CadenceMeetsSla
    <2> DEFINE Recovery(c) ==
                 PredictedRecovery(given.safety * c, given.load, given.perTick, given.margin)
    <2>1. /\ given \in Costs
          /\ answer = OperationalCadence(given.sla, given.load, given.perTick, given.margin, given.safety)
      BY DEF Computed
    <2>2. /\ given.sla \in Nat /\ given.load \in Nat /\ given.perTick \in Nat \ {0}
          /\ given.margin \in Nat /\ given.safety \in Nat \ {0}
      BY <2>1, ObservingAssumption
    <2>3. /\ answer \in Nat \ {0}
          /\ \A c \in Nat \ {0} : Recovery(c) <= given.sla => Recovery(answer) <= given.sla
          /\ Recovery(answer + 1) > given.sla
      BY <2>1, <2>2, CadenceIsTheLongest
    <2>4. \A c \in 1..given.sla : c \in Nat \ {0}
      BY <2>2
    <2>5. answer >= 1
      BY <2>3
    <2> HIDE DEF Recovery
    <2>6. (\E c \in 1..given.sla : Recovery(c) <= given.sla) => Recovery(answer) <= given.sla
      BY <2>3, <2>4
    <2>7. QED
      BY <2>3, <2>5, <2>6 DEF CadenceMeetsSla, Recovery
  <1>2. QED
    BY <1>1, ComputedHolds, PTL

(* A transcript verifies exactly when its log is accepted, leads to the final *)
(* root and has the checkpoints in order; that of a run does if and only if  *)
(* each of its blocks emitted an event (verifyReplay of node.ts).            *)
THEOREM ReplayIsVerified == ObservingSpec => []ReplayVerifies
  <1>1. Computed => ReplayVerifies
    <2> SUFFICES ASSUME Computed PROVE ReplayVerifies
      OBVIOUS
    <2>1. ASSUME subject = "replay"
          PROVE  answer <=> /\ Rejected \notin ToSet(given.log)
                            /\ given.final = IF given.log = <<>> THEN given.genesis ELSE Last(given.log)
                            /\ Embeds(given.ticks, given.log)
      <3>1. given \in Transcripts /\ answer = VerifyReplay(given)
        BY <2>1 DEF Computed
      <3>2. given.log \in Seq(ToSet(given.log)) /\ given.ticks \in Seq(ToSet(given.ticks))
        BY <3>1, ObservingAssumption DEF ListLike
      <3>3. PICK U : U = ToSet(given.log) \cup ToSet(given.ticks)
        OBVIOUS
      <3>4. given.log \in Seq(U) /\ given.ticks \in Seq(U)
        BY <3>2, <3>3, SeqMonotonic
      <3>5. QED
        BY <3>1, <3>4, VerifyIs
    <2>2. ASSUME subject = "run"
          PROVE  answer.verified <=> \A k \in DOMAIN given : given[k] # <<>>
      <3>1. given \in Programs /\ answer.verified = VerifyReplay(RunProgram(Genesis, given))
        BY <2>2 DEF Computed
      <3>2. /\ given \in Seq(ToSet(given)) /\ EachItsOwn(given)
            /\ \A k \in DOMAIN given : given[k] \in Seq(ToSet(given[k]))
        BY <3>1, ObservingAssumption DEF ListLike
      <3>3. PICK D, U : /\ D = UNION {ToSet(given[k]) : k \in DOMAIN given}
                        /\ U = D \cup {Rejected, Genesis}
        OBVIOUS
      <3>4. \A k \in DOMAIN given : given[k] \in Seq(U)
        <4> SUFFICES ASSUME NEW k \in DOMAIN given PROVE given[k] \in Seq(U)
          OBVIOUS
        <4>1. ToSet(given[k]) \subseteq D
          BY <3>3
        <4>2. QED
          BY <3>2, <3>3, <4>1, SeqMonotonic
      <3>5. given \in Seq(Seq(U))
        <4>1. DOMAIN given = 1..Len(given) /\ Len(given) \in Nat
          BY <3>2
        <4>2. ToSet(given) \subseteq Seq(U)
          BY <3>4 DEF ToSet
        <4>3. QED
          BY <3>2, <4>2, SeqMonotonic
      <3>6. {Rejected, Genesis} \subseteq U
        BY <3>3
      <3>7. QED
        BY <3>1, <3>2, <3>5, <3>6, RunVerifies
    <2>3. QED
      BY <2>1, <2>2 DEF ReplayVerifies
  <1>2. QED
    BY <1>1, ComputedHolds, PTL

-----------------------------------------------------------------------------
(* Drift. *)

(* Streams that agree up to m have the same first m checkpoints, *)
LEMMA SameStart ==
  ASSUME NEW U, NEW a \in Seq(U), NEW b \in Seq(U), NEW m \in Nat,
         m <= Len(a), m <= Len(b), \A i \in 1..m : a[i] = b[i]
  PROVE  SubSeq(a, 1, m) = SubSeq(b, 1, m)
  <1>1. PICK s, t : s = SubSeq(a, 1, m) /\ t = SubSeq(b, 1, m)
    OBVIOUS
  <1>2. s \in Seq(U) /\ t \in Seq(U) /\ Len(s) = m /\ Len(t) = m
    BY <1>1
  <1>3. \A i \in 1..m : s[i] = a[i] /\ t[i] = b[i]
    BY <1>1
  <1>4. s = t
    BY <1>2, <1>3, SeqEqual
  <1>5. QED
    BY <1>1, <1>4

(* which are a prefix of both. *)
LEMMA StartIsPrefix ==
  ASSUME NEW U, NEW a \in Seq(U), NEW b \in Seq(U), NEW m \in Nat,
         m <= Len(a), m <= Len(b), \A i \in 1..m : a[i] = b[i]
  PROVE  IsPrefix(SubSeq(a, 1, m), b)
  <1>1. PICK s : s = SubSeq(a, 1, m)
    OBVIOUS
  <1>2. s = SubSeq(b, 1, m)
    BY <1>1, SameStart
  <1>3. s \in Seq(U) /\ Len(s) = m
    BY <1>1
  <1>4. SubSeq(s, 1, m) = s
    BY <1>3, SubSeqFull
  <1>5. QED
    BY <1>1, <1>2, <1>3, <1>4 DEF IsPrefix

LEMMA DriftFound ==
  ASSUME NEW U, NEW ts \in Seq(U), NEW oracle \in Seq(U)
  PROVE  LET found == DetectDrift(ts, oracle) IN
         /\ found.status = "DRIFT_OK" <=> ts = oracle
         /\ found.status = "DRIFT_DETECTED" =>
              LET common == SubSeq(ts, 1, found.tick - 1) IN
              /\ IsPrefix(common, ts) /\ IsPrefix(common, oracle)
              /\ found.field # "length" => ts[found.tick] # oracle[found.tick]
              /\ found.field = "length" => IsPrefix(ts, oracle) \/ IsPrefix(oracle, ts)
  <1>1. PICK found : found = DetectDrift(ts, oracle)
    OBVIOUS
  <1>2. PICK n : n = Min({Len(ts), Len(oracle)})
    OBVIOUS
  <1>3. /\ Len(ts) \in Nat /\ Len(oracle) \in Nat /\ n \in {Len(ts), Len(oracle)}
        /\ n <= Len(ts) /\ n <= Len(oracle) /\ n \in Nat
    <2>1. {Len(ts), Len(oracle)} \in SUBSET Nat /\ {Len(ts), Len(oracle)} # {}
      OBVIOUS
    <2>2. n \in {Len(ts), Len(oracle)} /\ \A y \in {Len(ts), Len(oracle)} : n <= y
      BY <1>2, <2>1, MinIsLeast
    <2>3. QED
      BY <2>1, <2>2
  <1>4. PICK differ : differ = {i \in 1..n : ts[i] # oracle[i]}
    OBVIOUS
  <1>5. ASSUME NEW m \in Nat, m <= n, \A i \in 1..m : i \notin differ
        PROVE  IsPrefix(SubSeq(ts, 1, m), ts) /\ IsPrefix(SubSeq(ts, 1, m), oracle)
    <2>1. \A i \in 1..m : ts[i] = oracle[i]
      BY <1>3, <1>4, <1>5
    <2>2. m <= Len(ts) /\ m <= Len(oracle)
      BY <1>3, <1>5
    <2>3. QED
      BY <2>1, <2>2, StartIsPrefix
  <1>6. CASE differ # {}
    <2>1. PICK first : first = Min(differ)
      OBVIOUS
    <2>2. first \in differ /\ \A i \in differ : first <= i
      <3>1. differ \in SUBSET Nat
        BY <1>3, <1>4
      <3>2. QED
        BY <1>6, <2>1, <3>1, MinIsLeast
    <2>3. /\ found.status = "DRIFT_DETECTED" /\ found.tick = first
          /\ found.field \in {"stateRoot", "globalRoot"}
      BY <1>1, <1>2, <1>4, <1>6, <2>1 DEF DetectDrift
    <2>4. first \in 1..n /\ ts[first] # oracle[first]
      BY <1>4, <2>2
    <2>5. first - 1 \in Nat /\ first - 1 <= n /\ \A i \in 1..(first - 1) : i \notin differ
      BY <1>3, <2>2, <2>4
    <2>6. IsPrefix(SubSeq(ts, 1, first - 1), ts) /\ IsPrefix(SubSeq(ts, 1, first - 1), oracle)
      BY <1>5, <2>5
    <2>7. ts # oracle
      BY <2>4
    <2>8. QED
      BY <1>1, <2>3, <2>4, <2>6, <2>7
  <1>7. CASE differ = {} /\ Len(ts) # Len(oracle)
    <2>1. found.status = "DRIFT_DETECTED" /\ found.tick = n /\ found.field = "length"
      BY <1>1, <1>2, <1>4, <1>7 DEF DetectDrift
    <2>2. ts # oracle
      BY <1>7
    <2>3. IsPrefix(SubSeq(ts, 1, n - 1), ts) /\ IsPrefix(SubSeq(ts, 1, n - 1), oracle)
      <3>1. CASE n > 0
        <4>1. n - 1 \in Nat /\ n - 1 <= n /\ \A i \in 1..(n - 1) : i \notin differ
          BY <1>3, <1>7, <3>1
        <4>2. QED
          BY <1>5, <4>1
      <3>2. CASE n = 0
        <4>1. SubSeq(ts, 1, n - 1) = <<>> /\ SubSeq(ts, 1, 0) = <<>>
          BY <3>2
        <4>2. 0 \in Nat /\ 0 <= n /\ \A i \in 1..0 : i \notin differ
          BY <3>2
        <4>3. IsPrefix(SubSeq(ts, 1, 0), ts) /\ IsPrefix(SubSeq(ts, 1, 0), oracle)
          BY <1>5, <4>2
        <4>4. QED
          BY <4>1, <4>3
      <3>3. QED
        BY <1>3, <3>1, <3>2
    <2>4. IsPrefix(ts, oracle) \/ IsPrefix(oracle, ts)
      <3>1. \A i \in 1..n : ts[i] = oracle[i] /\ oracle[i] = ts[i]
        BY <1>4, <1>7
      <3>2. CASE n = Len(ts)
        <4>1. IsPrefix(SubSeq(ts, 1, n), oracle)
          BY <1>3, <3>1, StartIsPrefix
        <4>2. SubSeq(ts, 1, n) = ts
          BY <3>2, SubSeqFull
        <4>3. QED
          BY <4>1, <4>2
      <3>3. CASE n = Len(oracle)
        <4>1. IsPrefix(SubSeq(oracle, 1, n), ts)
          BY <1>3, <3>1, StartIsPrefix
        <4>2. SubSeq(oracle, 1, n) = oracle
          BY <3>3, SubSeqFull
        <4>3. QED
          BY <4>1, <4>2
      <3>4. QED
        BY <1>3, <3>2, <3>3
    <2>5. QED
      BY <1>1, <2>1, <2>2, <2>3, <2>4
  <1>8. CASE differ = {} /\ Len(ts) = Len(oracle)
    <2>1. found.status = "DRIFT_OK"
      BY <1>1, <1>2, <1>4, <1>8 DEF DetectDrift
    <2>2. \A i \in 1..n : ts[i] = oracle[i]
      BY <1>4, <1>8
    <2>3. ts = oracle
      BY <1>3, <1>8, <2>2, SeqEqual
    <2>4. QED
      BY <1>1, <2>1, <2>3
  <1>9. QED
    BY <1>6, <1>7, <1>8

-----------------------------------------------------------------------------
(* The alerts. *)

(* One tick of a monitored node, and the drifts the window still has of h. *)
Evaluations == [tail : Tails, drift : Drifts, oracle : Oracles]
Recent(h) == {h[i].drift : i \in {k \in 1..Len(h) : Len(h) - k < Cap}}

(* Where the ring keeps the sample that j others are older than. *)
Place(at, j) == IF at + j < Cap THEN at + j + 1 ELSE at + j - Cap + 1

(* The ring has the drifts of the last Cap evaluations, each at its place. *)
WindowIs(w, h) ==
  /\ w.buf \in Seq(Nat)
  /\ Len(w.buf) = IF Len(h) < Cap THEN Len(h) ELSE Cap
  /\ w.head \in 0..(Cap - 1)
  /\ Len(h) < Cap => w.head = 0
  /\ \A j \in 0..(Len(w.buf) - 1) :
       w.buf[Place(w.head, j)] = h[Len(h) - Len(w.buf) + 1 + j].drift

(* The ring keeps the last Cap samples. *)
LEMMA WindowAdds ==
  ASSUME NEW h \in Seq(Evaluations), NEW e \in Evaluations, NEW w, WindowIs(w, h)
  PROVE  WindowIs(Add(w, e.drift), Append(h, e))
  <1>1. PICK n : n = Len(h)
    OBVIOUS
  <1>2. PICK g : g = Append(h, e)
    OBVIOUS
  <1>3. PICK b, at, x : b = w.buf /\ at = w.head /\ x = e.drift
    OBVIOUS
  <1>4. /\ n \in Nat /\ Len(g) = n + 1 /\ g[n + 1].drift = x
        /\ \A i \in 1..n : g[i] = h[i]
    BY <1>1, <1>2, <1>3
  <1>5. /\ Cap \in Nat /\ Cap >= 1 /\ x \in Nat
    <2>1. Cap \in Nat \ {0}
      BY AlertingAssumption
    <2>2. Drifts \subseteq Nat
      BY ObservingAssumption, Zenon
    <2>3. x \in Drifts
      BY <1>3 DEF Evaluations
    <2>4. QED
      BY <2>1, <2>2, <2>3
  <1>6. /\ b \in Seq(Nat) /\ Len(b) = (IF n < Cap THEN n ELSE Cap) /\ at \in 0..(Cap - 1)
        /\ n < Cap => at = 0
        /\ \A j \in 0..(Len(b) - 1) : b[Place(at, j)] = h[n - Len(b) + 1 + j].drift
    BY <1>1, <1>3 DEF WindowIs
  <1>7. CASE n < Cap
    <2>1. PICK c : c = Append(b, x)
      OBVIOUS
    <2>2. /\ c \in Seq(Nat) /\ Len(c) = n + 1 /\ c[n + 1] = x
          /\ \A i \in 1..n : c[i] = b[i]
      BY <1>4, <1>5, <1>6, <1>7, <2>1
    <2>3. PICK v : v = Add(w, x)
      OBVIOUS
    <2>4. v.buf = c /\ v.head = 0
      <3>1. v = [w EXCEPT !.buf = Append(@, x)]
        BY <1>3, <1>6, <1>7, <2>3 DEF Add
      <3>2. QED
        BY <1>3, <1>6, <1>7, <2>1, <3>1
    <2>5. Len(c) = IF n + 1 < Cap THEN n + 1 ELSE Cap
      BY <1>4, <1>5, <1>7, <2>2
    <2>6. ASSUME NEW j \in 0..n
          PROVE  c[Place(0, j)] = g[n + 1 - Len(c) + 1 + j].drift
      <3>1. Place(0, j) = j + 1 /\ n + 1 - Len(c) + 1 + j = j + 1 /\ j \in Nat /\ j <= n
        BY <1>4, <1>5, <1>7, <2>2 DEF Place
      <3>2. CASE j = n
        BY <1>4, <2>2, <3>1, <3>2
      <3>3. CASE j < n
        <4>1. j \in 0..(Len(b) - 1) /\ n - Len(b) + 1 + j = j + 1 /\ j + 1 \in 1..n
          BY <1>4, <1>6, <1>7, <3>1, <3>3
        <4>2. b[j + 1] = h[j + 1].drift
          BY <1>6, <1>7, <3>1, <4>1
        <4>3. QED
          BY <1>4, <2>2, <3>1, <4>1, <4>2
      <3>4. QED
        BY <1>4, <3>1, <3>2, <3>3
    <2>7. 0 \in 0..(Cap - 1) /\ Len(c) - 1 = n
      BY <1>4, <1>5, <2>2
    <2>8. WindowIs(v, g)
      BY <1>4, <2>2, <2>4, <2>5, <2>6, <2>7 DEF WindowIs
    <2>9. QED
      BY <1>2, <1>3, <2>3, <2>8
  <1>8. CASE ~(n < Cap)
    <2>1. PICK c : c = [b EXCEPT ![at + 1] = x]
      OBVIOUS
    <2>2. PICK to : to = (at + 1) % Cap
      OBVIOUS
    <2>3. PICK v : v = Add(w, x)
      OBVIOUS
    <2>4. v = [buf |-> c, head |-> to]
      <3>1. ~(Len(w.buf) < Cap)
        BY <1>3, <1>5, <1>6, <1>8
      <3>2. QED
        BY <1>3, <2>1, <2>2, <2>3, <3>1 DEF Add
    <2>5. Len(b) = Cap /\ DOMAIN b = 1..Cap /\ at \in Nat /\ at + 1 \in 1..Cap /\ at < Cap
      BY <1>5, <1>6, <1>8
    <2>6. to = IF at + 1 = Cap THEN 0 ELSE at + 1
      <3>1. CASE at + 1 = Cap
        BY <1>5, <2>2, <2>5, <3>1
      <3>2. CASE at + 1 # Cap
        BY <1>5, <2>2, <2>5, <3>2
      <3>3. QED
        BY <3>1, <3>2
    <2>7. /\ c \in Seq(Nat) /\ Len(c) = Cap /\ c[at + 1] = x
          /\ \A i \in 1..Cap : i # at + 1 => c[i] = b[i]
      BY <1>5, <1>6, <2>1, <2>5
    <2>8. ASSUME NEW j \in 0..(Cap - 1)
          PROVE  c[Place(to, j)] = g[n + 1 - Cap + 1 + j].drift
      <3>1. j \in Nat /\ j <= Cap - 1
        BY <1>5
      <3>2. CASE j = Cap - 1
        <4>1. Place(to, j) = at + 1
          BY <1>5, <2>5, <2>6, <3>2 DEF Place
        <4>2. n + 1 - Cap + 1 + j = n + 1
          BY <1>4, <1>5, <3>2
        <4>3. QED
          BY <1>4, <2>7, <4>1, <4>2
      <3>3. CASE j < Cap - 1
        <4>1. PICK k : k = j + 1
          OBVIOUS
        <4>2. /\ Place(to, j) = Place(at, k)
              /\ Place(at, k) \in 1..Cap /\ Place(at, k) # at + 1
          BY <1>5, <2>5, <2>6, <3>1, <3>3, <4>1 DEF Place
        <4>3. /\ k \in 0..(Len(b) - 1) /\ n + 1 - Cap + 1 + j = n - Len(b) + 1 + k
              /\ n - Len(b) + 1 + k \in 1..n
          <5>1. k \in 0..(Cap - 1) /\ k \in Nat
            BY <1>5, <3>1, <3>3, <4>1
          <5>2. n + 1 - Cap + 1 + j = n - Cap + 1 + k
            BY <1>4, <1>5, <3>1, <4>1
          <5>3. n >= Cap
            BY <1>4, <1>5, <1>8
          <5>4. n - Cap + 1 + k \in 1..n
            BY <1>4, <1>5, <3>1, <3>3, <4>1, <5>1, <5>3
          <5>5. QED
            BY <2>5, <5>1, <5>2, <5>4
        <4>4. b[Place(at, k)] = h[n - Len(b) + 1 + k].drift
          BY <1>6, <4>3
        <4>5. c[Place(to, j)] = b[Place(at, k)]
          BY <2>7, <4>2
        <4>6. QED
          BY <1>4, <4>3, <4>4, <4>5
      <3>4. QED
        BY <1>5, <3>1, <3>2, <3>3
    <2>9. /\ Len(c) = (IF n + 1 < Cap THEN n + 1 ELSE Cap) /\ to \in 0..(Cap - 1)
          /\ ~(n + 1 < Cap)
      BY <1>4, <1>5, <1>8, <2>5, <2>6, <2>7
    <2>10. WindowIs(v, g)
      <3>1. v.buf = c /\ v.head = to
        BY <2>4
      <3>2. \A j \in 0..(Len(c) - 1) :
              c[Place(to, j)] = g[Len(g) - Len(c) + 1 + j].drift
        <4>1. Len(c) = Cap /\ Len(g) = n + 1
          BY <1>4, <2>7
        <4>2. ASSUME NEW j \in 0..(Len(c) - 1)
              PROVE  c[Place(to, j)] = g[Len(g) - Len(c) + 1 + j].drift
          <5>1. j \in 0..(Cap - 1)
            BY <4>1
          <5>2. Len(g) - Len(c) + 1 + j = n + 1 - Cap + 1 + j
            BY <1>4, <1>5, <4>1
          <5>3. QED
            BY <2>8, <5>1, <5>2
        <4>3. QED
          BY <4>2
      <3>3. Len(c) = IF Len(g) < Cap THEN Len(g) ELSE Cap
        BY <1>4, <2>9
      <3>4. QED
        BY <1>4, <2>7, <2>9, <3>1, <3>2, <3>3 DEF WindowIs
    <2>11. QED
      BY <1>2, <1>3, <2>3, <2>10
  <1>9. QED
    BY <1>7, <1>8

(* A list of numbers has a bound. *)
LEMMA ListBounded == \A s \in Seq(Nat) : \E b \in Nat : \A i \in DOMAIN s : s[i] <= b
  <1> DEFINE G == {s \in Seq(Nat) : \E b \in Nat : \A i \in DOMAIN s : s[i] <= b}
  <1>1. <<>> \in G
    <2>1. PICK none : none = <<>>
      OBVIOUS
    <2>2. none \in Seq(Nat) /\ DOMAIN none = {} /\ 0 \in Nat
      BY <2>1
    <2>3. none \in G
      BY <2>2
    <2>4. QED
      BY <2>1, <2>3
  <1>2. ASSUME NEW s \in G, NEW x \in Nat PROVE Append(s, x) \in G
    <2>1. PICK b \in Nat : \A i \in DOMAIN s : s[i] <= b
      OBVIOUS
    <2>2. PICK t : t = Append(s, x)
      OBVIOUS
    <2>3. PICK m : m = IF b <= x THEN x ELSE b
      OBVIOUS
    <2>4. m \in Nat /\ b <= m /\ x <= m
      BY <2>3
    <2>5. /\ t \in Seq(Nat) /\ Len(s) \in Nat /\ DOMAIN t = 1..(Len(s) + 1) /\ t[Len(s) + 1] = x
          /\ DOMAIN s = 1..Len(s) /\ \A i \in 1..Len(s) : t[i] = s[i] /\ s[i] \in Nat
      BY <2>2
    <2>6. ASSUME NEW i \in DOMAIN t PROVE t[i] <= m
      <3>1. CASE i = Len(s) + 1
        BY <2>4, <2>5, <3>1
      <3>2. CASE i # Len(s) + 1
        <4>1. i \in 1..Len(s)
          BY <2>5, <3>2
        <4>2. s[i] <= b /\ s[i] \in Nat /\ t[i] = s[i]
          BY <2>1, <2>5, <4>1
        <4>3. QED
          BY <2>4, <4>2
      <3>3. QED
        BY <3>1, <3>2
    <2>7. t \in G
      BY <2>4, <2>5, <2>6
    <2>8. QED
      BY <2>2, <2>7
  <1>3. G = Seq(Nat)
    <2> HIDE DEF G
    <2>1. G \in SUBSET Seq(Nat)
      BY DEF G
    <2>2. QED
      BY <1>1, <1>2, <2>1, SeqInductionSet
  <1>4. QED
    BY <1>3

(* Its maximum is that of the samples it has. *)
LEMMA WindowMax ==
  ASSUME NEW h \in Seq(Evaluations), h # <<>>, NEW w, WindowIs(w, h)
  PROVE  MaxOf(w) = Max(Recent(h)) /\ MaxOf(w) \in Nat
  <1>1. PICK n, b, at : n = Len(h) /\ b = w.buf /\ at = w.head
    OBVIOUS
  <1>2. PICK m : m = Len(b)
    OBVIOUS
  <1>3. Cap \in Nat /\ Cap >= 1 /\ n \in Nat /\ n >= 1
    BY <1>1, AlertingAssumption
  <1>4. /\ b \in Seq(Nat) /\ m = (IF n < Cap THEN n ELSE Cap) /\ at \in 0..(Cap - 1)
        /\ n < Cap => at = 0
        /\ \A j \in 0..(m - 1) : b[Place(at, j)] = h[n - m + 1 + j].drift
    BY <1>1, <1>2 DEF WindowIs
  <1>5. m \in Nat /\ m >= 1 /\ m <= n /\ m <= Cap /\ DOMAIN b = 1..m /\ at \in Nat /\ at < Cap
    <2>1. m \in Nat /\ DOMAIN b = 1..m
      <3>1. b \in Seq(Nat)
        BY <1>4
      <3>2. QED
        BY <1>2, <3>1
    <2>2. at \in Nat /\ at < Cap
      BY <1>3, <1>4
    <2>3. m >= 1 /\ m <= n /\ m <= Cap
      <3>1. CASE n < Cap
        BY <1>3, <1>4, <3>1
      <3>2. CASE ~(n < Cap)
        BY <1>3, <1>4, <3>2
      <3>3. QED
        BY <3>1, <3>2
    <2>4. QED
      BY <2>1, <2>2, <2>3
  <1>6. ASSUME NEW p \in 1..m PROVE b[p] \in Recent(h)
    <2>1. PICK j : j = IF p - 1 >= at THEN p - 1 - at ELSE p - 1 - at + Cap
      OBVIOUS
    <2>2. j \in 0..(m - 1) /\ Place(at, j) = p
      <3>1. CASE n < Cap
        BY <1>3, <1>4, <1>5, <2>1, <3>1 DEF Place
      <3>2. CASE ~(n < Cap)
        BY <1>3, <1>4, <1>5, <2>1, <3>2 DEF Place
      <3>3. QED
        BY <3>1, <3>2
    <2>3. PICK i : i = n - m + 1 + j
      OBVIOUS
    <2>4. i \in 1..n /\ n - i < Cap
      BY <1>3, <1>5, <2>2, <2>3
    <2>5. b[p] = h[i].drift
      BY <1>4, <2>2, <2>3
    <2>6. QED
      BY <1>1, <2>4, <2>5 DEF Recent
  <1>7. ASSUME NEW i \in 1..n, n - i < Cap PROVE h[i].drift \in ToSet(b)
    <2>1. PICK j : j = i - (n - m + 1)
      OBVIOUS
    <2>2. j \in 0..(m - 1) /\ n - m + 1 + j = i
      BY <1>3, <1>4, <1>5, <1>7, <2>1
    <2>3. Place(at, j) \in 1..m
      <3>1. CASE n < Cap
        BY <1>3, <1>4, <1>5, <2>2, <3>1 DEF Place
      <3>2. CASE ~(n < Cap)
        BY <1>3, <1>4, <1>5, <2>2, <3>2 DEF Place
      <3>3. QED
        BY <3>1, <3>2
    <2>4. b[Place(at, j)] = h[i].drift
      BY <1>4, <2>2
    <2>5. QED
      BY <1>5, <2>3, <2>4 DEF ToSet
  <1>8. ToSet(b) = Recent(h)
    <2>1. ToSet(b) \subseteq Recent(h)
      BY <1>5, <1>6 DEF ToSet
    <2>2. Recent(h) \subseteq ToSet(b)
      BY <1>1, <1>7 DEF Recent
    <2>3. QED
      BY <2>1, <2>2
  <1>9. b # <<>>
    BY <1>2, <1>5
  <1>10. MaxOf(w) = Max(ToSet(b))
    BY <1>1, <1>9 DEF MaxOf
  <1>11. Max(ToSet(b)) \in Nat
    <2>1. PICK c \in Nat : \A i \in DOMAIN b : b[i] <= c
      BY <1>4, ListBounded
    <2>2. ToSet(b) \in SUBSET Nat /\ \A y \in ToSet(b) : y <= c
      BY <1>4, <2>1 DEF ToSet
    <2>3. ToSet(b) # {}
      <3>1. 1 \in DOMAIN b
        BY <1>5
      <3>2. QED
        BY <3>1 DEF ToSet
    <2>4. Max(ToSet(b)) \in ToSet(b)
      BY <2>2, <2>3, MaxIsGreatest
    <2>5. QED
      BY <2>2, <2>4
  <1>12. QED
    BY <1>8, <1>10, <1>11

(* What is told of the alerts. *)
RuleNames == {"recovery-sla", "scheduler-drift", "ts-go-drift"}
Severities == {"clear", "WARNING", "CRITICAL"}
ToldEvents == [rule : RuleNames, state : {"FIRING", "RESOLVED"}, severity : Severities]

LEMMA RulesAre ==
  /\ Rules[1] = "recovery-sla" /\ Rules[2] = "scheduler-drift" /\ Rules[3] = "ts-go-drift"
  /\ ToSet(Rules) = RuleNames
  <1>1. /\ DOMAIN Rules = 1..3
        /\ Rules[1] = "recovery-sla" /\ Rules[2] = "scheduler-drift" /\ Rules[3] = "ts-go-drift"
    BY DEF Rules
  <1>2. ToSet(Rules) = {Rules[i] : i \in 1..3}
    BY <1>1 DEF ToSet
  <1>3. QED
    BY <1>1, <1>2 DEF RuleNames

(* What an event says the rule is now. *)
Says(e) == IF e.state = "RESOLVED" THEN "clear" ELSE e.severity

(* One event more changes what is believed of its rule, and of it only. *)
LEMMA BelievedAppend ==
  ASSUME NEW log \in Seq(ToldEvents), NEW e \in ToldEvents
  PROVE  LET new == Append(log, e) IN
         /\ \A i \in 0..Len(log), rule \in RuleNames : Believed(new, i, rule) = Believed(log, i, rule)
         /\ \A rule \in RuleNames :
              Believed(new, Len(log) + 1, rule) =
                IF e.rule = rule THEN Says(e) ELSE Believed(log, Len(log), rule)
  <1>1. PICK new : new = Append(log, e)
    OBVIOUS
  <1>2. PICK n : n = Len(log)
    OBVIOUS
  <1>3. n \in Nat /\ new[n + 1] = e /\ \A i \in 1..n : new[i] = log[i]
    BY <1>1, <1>2
  <1>4. ASSUME NEW i \in 0..n, NEW rule \in RuleNames
        PROVE  Believed(new, i, rule) = Believed(log, i, rule)
    <2>1. PICK heard : heard = {k \in 1..i : log[k].rule = rule}
      OBVIOUS
    <2>2. i \in Nat /\ i <= n /\ \A k \in 1..i : k \in 1..n
      BY <1>3
    <2>3. heard = {k \in 1..i : new[k].rule = rule}
      BY <1>3, <2>1, <2>2
    <2>4. CASE heard = {}
      BY <2>1, <2>3, <2>4 DEF Believed
    <2>5. CASE heard # {}
      <3>1. heard \in SUBSET (1..i)
        BY <2>1
      <3>2. Max(heard) \in heard
        BY <2>2, <2>5, <3>1, MaxOfInterval
      <3>3. new[Max(heard)] = log[Max(heard)]
        BY <1>3, <2>2, <3>1, <3>2
      <3>4. QED
        BY <2>1, <2>3, <2>5, <3>3 DEF Believed
    <2>6. QED
      BY <2>4, <2>5
  <1>5. ASSUME NEW rule \in RuleNames, e.rule # rule
        PROVE  Believed(new, n + 1, rule) = Believed(log, n, rule)
    <2>1. PICK heard : heard = {k \in 1..n : log[k].rule = rule}
      OBVIOUS
    <2>2. heard = {k \in 1..(n + 1) : new[k].rule = rule}
      <3>1. ASSUME NEW k \in 1..(n + 1), new[k].rule = rule PROVE k \in heard
        <4>1. k # n + 1
          BY <1>3, <1>5, <3>1
        <4>2. k \in 1..n
          BY <1>3, <4>1
        <4>3. QED
          BY <1>3, <2>1, <3>1, <4>2
      <3>2. ASSUME NEW k \in heard PROVE k \in 1..(n + 1) /\ new[k].rule = rule
        BY <1>3, <2>1
      <3>3. QED
        BY <3>1, <3>2
    <2>3. CASE heard = {}
      BY <2>1, <2>2, <2>3 DEF Believed
    <2>4. CASE heard # {}
      <3>1. heard \in SUBSET (1..n)
        BY <2>1
      <3>2. Max(heard) \in heard
        BY <1>3, <2>4, <3>1, MaxOfInterval
      <3>3. new[Max(heard)] = log[Max(heard)]
        BY <1>3, <3>1, <3>2
      <3>4. QED
        BY <2>1, <2>2, <2>4, <3>3 DEF Believed
    <2>5. QED
      BY <2>3, <2>4
  <1>6. ASSUME NEW rule \in RuleNames, e.rule = rule
        PROVE  Believed(new, n + 1, rule) = Says(e)
    <2>1. PICK heard : heard = {k \in 1..(n + 1) : new[k].rule = rule}
      OBVIOUS
    <2>2. n + 1 \in heard /\ heard \in SUBSET (1..(n + 1)) /\ n + 1 \in Nat
      BY <1>3, <1>6, <2>1
    <2>3. Max(heard) \in heard /\ \A k \in heard : k <= Max(heard)
      <3>1. heard # {}
        BY <2>2
      <3>2. QED
        BY <2>2, <3>1, MaxOfInterval
    <2>4. Max(heard) = n + 1
      <3>1. Max(heard) \in 1..(n + 1) /\ n + 1 <= Max(heard)
        BY <2>2, <2>3
      <3>2. QED
        BY <1>3, <3>1
    <2>5. heard # {}
      BY <2>2
    <2>6. QED
      BY <1>3, <2>1, <2>4, <2>5 DEF Believed, Says
  <1>7. QED
    BY <1>1, <1>2, <1>4, <1>5, <1>6

(* Nothing is told twice, and no alert is resolved that does not fire. *)
ToldOnce(log) ==
  \A i \in DOMAIN log :
    LET e == log[i]
        before == Believed(log, i - 1, e.rule)
    IN  IF e.state = "FIRING" THEN e.severity \notin {"clear", before}
                              ELSE e.severity = before /\ before # "clear"

(* What a receiver of the log believes is what the manager has as firing. *)
LogTells(log, firing) ==
  /\ log \in Seq(ToldEvents)
  /\ ToldOnce(log)
  /\ \A rule \in RuleNames : Believed(log, Len(log), rule) = firing[rule]

(* The transition of one rule tells what it is now. *)
LEMMA TransitionTells ==
  ASSUME NEW log, NEW f, LogTells(log, f), NEW rule \in RuleNames, NEW now \in Severities,
         \A r \in RuleNames : f[r] \in Severities, NEW g,
         g[rule] = now, \A r \in RuleNames \ {rule} : g[r] = f[r]
  PROVE  /\ LogTells(log \o Transition(rule, f[rule], now), g)
         /\ Transition(rule, f[rule], now) \in Seq(ToldEvents)
  <1>1. PICK before : before = f[rule]
    OBVIOUS
  <1>2. PICK news : news = Transition(rule, before, now)
    OBVIOUS
  <1>3. /\ log \in Seq(ToldEvents) /\ ToldOnce(log) /\ before \in Severities
        /\ \A r \in RuleNames : Believed(log, Len(log), r) = f[r]
    BY <1>1 DEF LogTells
  <1>4. CASE now = before
    <2>1. PICK none : none = <<>>
      OBVIOUS
    <2>2. news = none /\ none \in Seq(ToldEvents)
      BY <1>2, <1>4, <2>1 DEF Transition
    <2>3. log \o none = log
      BY <1>3, <2>1, ConcatEmptySeq
    <2>4. \A r \in RuleNames : g[r] = f[r]
      BY <1>1, <1>4
    <2>5. LogTells(log, g)
      BY <1>3, <2>4 DEF LogTells
    <2>6. QED
      BY <1>1, <1>2, <2>2, <2>3, <2>5
  <1>5. CASE now # before
    <2>1. PICK e : e = IF now # "clear" THEN Event(rule, "FIRING", now)
                       ELSE Event(rule, "RESOLVED", before)
      OBVIOUS
    <2>2. news = <<e>>
      BY <1>2, <1>5, <2>1 DEF Transition
    <2>3. /\ e \in ToldEvents /\ e.rule = rule
          /\ now # "clear" => e.state = "FIRING" /\ e.severity = now
          /\ now = "clear" => e.state = "RESOLVED" /\ e.severity = before
      BY <1>3, <2>1 DEF Event, ToldEvents
    <2>4. PICK new : new = Append(log, e)
      OBVIOUS
    <2>5. PICK n : n = Len(log)
      OBVIOUS
    <2>6. /\ new \in Seq(ToldEvents) /\ Len(new) = n + 1 /\ n \in Nat /\ new[n + 1] = e
          /\ \A i \in 1..n : new[i] = log[i] /\ log[i] \in ToldEvents
      BY <1>3, <2>3, <2>4, <2>5
    <2>7. /\ \A i \in 0..n, r \in RuleNames : Believed(new, i, r) = Believed(log, i, r)
          /\ \A r \in RuleNames :
               Believed(new, n + 1, r) = IF e.rule = r THEN Says(e) ELSE Believed(log, n, r)
      BY <1>3, <2>3, <2>4, <2>5, BelievedAppend
    <2>8. Says(e) = now
      BY <2>3 DEF Says
    <2>9. \A r \in RuleNames : Believed(new, Len(new), r) = g[r]
      BY <1>3, <2>3, <2>5, <2>6, <2>7, <2>8
    <2>10. ASSUME NEW i \in DOMAIN new
           PROVE  LET x == new[i]
                      was == Believed(new, i - 1, x.rule)
                  IN  IF x.state = "FIRING" THEN x.severity \notin {"clear", was}
                                            ELSE x.severity = was /\ was # "clear"
      <3>1. i \in 1..(n + 1)
        BY <2>6
      <3>2. CASE i = n + 1
        <4>1. n \in 0..n /\ i - 1 = n
          BY <2>6, <3>2
        <4>2. Believed(new, n, rule) = before
          BY <1>1, <1>3, <2>5, <2>7, <4>1
        <4>3. new[i] = e
          BY <2>6, <3>2
        <4>4. QED
          BY <1>5, <2>3, <4>1, <4>2, <4>3
      <3>3. CASE i # n + 1
        <4>1. i \in 1..n /\ i - 1 \in 0..n /\ i \in DOMAIN log
          BY <1>3, <2>5, <2>6, <3>1, <3>3
        <4>2. new[i] = log[i] /\ log[i].rule \in RuleNames
          BY <2>6, <4>1 DEF ToldEvents
        <4>3. Believed(new, i - 1, log[i].rule) = Believed(log, i - 1, log[i].rule)
          BY <2>7, <4>1, <4>2
        <4>4. QED
          BY <1>3, <4>1, <4>2, <4>3 DEF ToldOnce
      <3>4. QED
        BY <3>2, <3>3
    <2>11. ToldOnce(new)
      BY <2>10 DEF ToldOnce
    <2>12. LogTells(new, g)
      BY <2>6, <2>9, <2>11 DEF LogTells
    <2>13. log \o <<e>> = new /\ <<e>> \in Seq(ToldEvents)
      BY <1>3, <2>3, <2>4, AppendIsConcat
    <2>14. QED
      BY <1>1, <1>2, <2>2, <2>12, <2>13
  <1>6. QED
    BY <1>4, <1>5

(* All three transitions of an evaluation tell what fires now. *)
LEMMA EvaluateTells ==
  ASSUME NEW log, NEW f \in [RuleNames -> Severities], LogTells(log, f), NEW input
  PROVE  /\ Evaluate(f, input).firing = Verdicts(input)
         /\ Verdicts(input) \in [RuleNames -> Severities]
         /\ LogTells(log \o Evaluate(f, input).events, Verdicts(input))
  <1>1. PICK v : v = Verdicts(input)
    OBVIOUS
  <1>2. v \in [RuleNames -> Severities]
    <2>1. /\ RecoverySlaRule(input.budget) \in Severities
          /\ SchedulerDriftRule(input.drift) \in Severities
          /\ TsGoDriftRule(input.oracle) \in Severities
      BY DEF RecoverySlaRule, SchedulerDriftRule, TsGoDriftRule, Severities
    <2>2. QED
      BY <1>1, <2>1, RulesAre DEF Verdicts, RuleNames
  <1> DEFINE T(rule) == Transition(rule, f[rule], v[rule])
  <1>3. PICK t1, t2, t3 : t1 = T("recovery-sla") /\ t2 = T("scheduler-drift") /\ t3 = T("ts-go-drift")
    OBVIOUS
  <1>4. Evaluate(f, input).firing = v /\ Evaluate(f, input).events = t1 \o t2 \o t3
    BY <1>1, <1>3, RulesAre DEF Evaluate
  <1>5. PICK g1, g2 : /\ g1 = [f EXCEPT !["recovery-sla"] = v["recovery-sla"]]
                      /\ g2 = [g1 EXCEPT !["scheduler-drift"] = v["scheduler-drift"]]
    OBVIOUS
  <1>6. /\ g1 \in [RuleNames -> Severities] /\ g2 \in [RuleNames -> Severities]
        /\ g1["recovery-sla"] = v["recovery-sla"]
        /\ g1["scheduler-drift"] = f["scheduler-drift"] /\ g1["ts-go-drift"] = f["ts-go-drift"]
        /\ g2["recovery-sla"] = v["recovery-sla"]
        /\ g2["scheduler-drift"] = v["scheduler-drift"] /\ g2["ts-go-drift"] = f["ts-go-drift"]
    BY <1>2, <1>5 DEF RuleNames
  <1>7. LogTells(log \o t1, g1) /\ t1 \in Seq(ToldEvents)
    BY <1>2, <1>3, <1>6, TransitionTells DEF RuleNames
  <1>8. LogTells((log \o t1) \o t2, g2) /\ t2 \in Seq(ToldEvents)
    BY <1>2, <1>3, <1>6, <1>7, TransitionTells DEF RuleNames
  <1>9. LogTells(((log \o t1) \o t2) \o t3, v) /\ t3 \in Seq(ToldEvents)
    BY <1>2, <1>3, <1>6, <1>8, TransitionTells DEF RuleNames
  <1>10. log \o (t1 \o t2 \o t3) = ((log \o t1) \o t2) \o t3
    <2>1. log \in Seq(ToldEvents) /\ t1 \o t2 \in Seq(ToldEvents)
      BY <1>7, <1>8, ConcatProperties DEF LogTells
    <2>2. log \o ((t1 \o t2) \o t3) = (log \o (t1 \o t2)) \o t3
      <3>1. t3 \in Seq(ToldEvents)
        BY <1>9
      <3>2. QED
        BY <2>1, <3>1, ConcatAssociative
    <2>3. log \o (t1 \o t2) = (log \o t1) \o t2
      BY <1>7, <1>8, <2>1, ConcatAssociative
    <2>4. QED
      BY <2>2, <2>3
  <1>11. QED
    BY <1>1, <1>2, <1>4, <1>9, <1>10

(* What an evaluation at the end of h is given. *)
InputOf(h) ==
  [budget |-> EstimatedRecoveryBudgetMs(h[Len(h)].tail), drift |-> Max(Recent(h)),
   oracle |-> h[Len(h)].oracle]

(* The state the alerts keep after the ticks h. *)
AlertFacts(h, w, f, log) ==
  /\ h \in Seq(Evaluations)
  /\ WindowIs(w, h)
  /\ f \in [RuleNames -> Severities]
  /\ LogTells(log, f)
  /\ h # <<>> => f = Verdicts(InputOf(h))

LEMMA AlertsBegin == AlertFacts(<<>>, EmptyWindow, NothingFires, <<>>)
  <1>1. PICK none : none = <<>>
    OBVIOUS
  <1>2. /\ none \in Seq(Evaluations) /\ none \in Seq(Nat) /\ none \in Seq(ToldEvents)
        /\ Len(none) = 0 /\ DOMAIN none = {}
    BY <1>1
  <1>3. Cap \in Nat /\ Cap >= 1
    BY AlertingAssumption
  <1>4. WindowIs(EmptyWindow, none)
    <2>1. PICK w : w = EmptyWindow
      OBVIOUS
    <2>2. w.buf = none /\ w.head = 0
      BY <1>1, <2>1 DEF EmptyWindow
    <2>3. WindowIs(w, none)
      BY <1>2, <1>3, <2>2 DEF WindowIs
    <2>4. QED
      BY <2>1, <2>3
  <1>5. NothingFires \in [RuleNames -> Severities] /\ \A r \in RuleNames : NothingFires[r] = "clear"
    BY RulesAre DEF NothingFires, Severities
  <1>6. \A r : Believed(none, 0, r) = "clear"
    BY DEF Believed
  <1>7. LogTells(none, NothingFires)
    BY <1>2, <1>5, <1>6 DEF LogTells, ToldOnce
  <1>8. QED
    BY <1>1, <1>2, <1>4, <1>5, <1>7 DEF AlertFacts

LEMMA AlertsStep ==
  ASSUME NEW h, NEW w, NEW f, NEW log, AlertFacts(h, w, f, log), NEW e \in Evaluations
  PROVE  LET window == Add(w, e.drift)
             now == Evaluate(f, [budget |-> EstimatedRecoveryBudgetMs(e.tail),
                                 drift |-> MaxOf(window), oracle |-> e.oracle])
         IN  AlertFacts(Append(h, e), window, now.firing, log \o now.events)
  <1>1. PICK g : g = Append(h, e)
    OBVIOUS
  <1>2. PICK window : window = Add(w, e.drift)
    OBVIOUS
  <1>3. PICK input : input = [budget |-> EstimatedRecoveryBudgetMs(e.tail),
                              drift |-> MaxOf(window), oracle |-> e.oracle]
    OBVIOUS
  <1>4. /\ h \in Seq(Evaluations) /\ WindowIs(w, h)
        /\ f \in [RuleNames -> Severities] /\ LogTells(log, f)
    BY DEF AlertFacts
  <1>5. g \in Seq(Evaluations) /\ g # <<>> /\ g[Len(g)] = e
    BY <1>1, <1>4
  <1>6. WindowIs(window, g)
    BY <1>1, <1>2, <1>4, WindowAdds
  <1>7. MaxOf(window) = Max(Recent(g))
    BY <1>5, <1>6, WindowMax
  <1>8. input = InputOf(g)
    BY <1>3, <1>5, <1>7 DEF InputOf
  <1>9. PICK now : now = Evaluate(f, input)
    OBVIOUS
  <1>10. /\ now.firing = Verdicts(input) /\ now.firing \in [RuleNames -> Severities]
         /\ LogTells(log \o now.events, now.firing)
    BY <1>4, <1>9, EvaluateTells
  <1>11. AlertFacts(g, window, now.firing, log \o now.events)
    BY <1>5, <1>6, <1>8, <1>10 DEF AlertFacts
  <1>12. QED
    BY <1>1, <1>2, <1>3, <1>9, <1>11

(* The three conditions, in the words of the alerts v, and of nodeHealth.    *)
Meaning(v, budget, drift, oracle) ==
  LET both == {v["recovery-sla"], v["scheduler-drift"]}
  IN  /\ v["scheduler-drift"] = Severity(IF drift >= DriftCritMs THEN 2
                                         ELSE IF drift >= DriftWarnMs THEN 1 ELSE 0)
      /\ v["recovery-sla"] = Severity(IF budget >= SlaMs THEN 2
                                      ELSE IF budget >= AtRiskMs THEN 1 ELSE 0)
      /\ v["ts-go-drift"] = Severity(IF oracle = "DRIFT_DETECTED" THEN 2 ELSE 0)
      /\ NodeHealth(budget, drift) =
           CASE "CRITICAL" \in both -> "UNHEALTHY"
             [] both \cap {"WARNING", "CRITICAL"} = {"WARNING"} -> "DEGRADED"
             [] both = {"clear"} -> "HEALTHY"

LEMMA VerdictsMean ==
  ASSUME NEW budget \in Nat, NEW drift \in Nat, NEW oracle
  PROVE  Meaning(Verdicts([budget |-> budget, drift |-> drift, oracle |-> oracle]),
                 budget, drift, oracle)
  <1>1. PICK input : input = [budget |-> budget, drift |-> drift, oracle |-> oracle]
    OBVIOUS
  <1>2. PICK v : v = Verdicts(input)
    OBVIOUS
  <1>3. PICK a, b, c : a = v["recovery-sla"] /\ b = v["scheduler-drift"] /\ c = v["ts-go-drift"]
    OBVIOUS
  <1>4. a = RecoverySlaRule(budget) /\ b = SchedulerDriftRule(drift) /\ c = TsGoDriftRule(oracle)
    <2>1. /\ v["recovery-sla"] = RecoverySlaRule(input.budget)
          /\ v["scheduler-drift"] = SchedulerDriftRule(input.drift)
          /\ v["ts-go-drift"] = TsGoDriftRule(input.oracle)
      BY <1>2, RulesAre DEF Verdicts, RuleNames
    <2>2. QED
      BY <1>1, <1>3, <2>1
  <1>5. SlaMs \in Nat /\ AtRiskMs \in Nat /\ AtRiskMs <= SlaMs
        /\ DriftWarnMs \in Nat /\ DriftCritMs \in Nat /\ DriftWarnMs <= DriftCritMs
    BY AlertingAssumption
  <1>6. b = Severity(IF drift >= DriftCritMs THEN 2 ELSE IF drift >= DriftWarnMs THEN 1 ELSE 0)
    BY <1>4, <1>5 DEF SchedulerDriftRule, Severity
  <1>7. a = Severity(IF budget >= SlaMs THEN 2 ELSE IF budget >= AtRiskMs THEN 1 ELSE 0)
    BY <1>4, <1>5 DEF RecoverySlaRule, SlaWatch, Severity
  <1>8. c = Severity(IF oracle = "DRIFT_DETECTED" THEN 2 ELSE 0)
    BY <1>4 DEF TsGoDriftRule, Severity
  <1> DEFINE sla == CASE SlaWatch(budget) = "SLA_VIOLATED" -> "UNHEALTHY"
                      [] SlaWatch(budget) = "SLA_AT_RISK" -> "DEGRADED"
                      [] OTHER -> "HEALTHY"
             Worse(s) == CASE s = "CRITICAL" -> "UNHEALTHY" [] s = "WARNING" -> "DEGRADED"
                           [] OTHER -> "HEALTHY"
  <1>9. a \in Severities /\ sla = Worse(a)
    BY <1>4, <1>5 DEF RecoverySlaRule, SlaWatch, Severities
  <1>10. b \in Severities /\ DriftLevel(drift) = Worse(b)
    BY <1>4, <1>5 DEF SchedulerDriftRule, DriftLevel, Severities
  <1>11. PICK p, q : p = Worse(a) /\ q = Worse(b)
    OBVIOUS
  <1>12. NodeHealth(budget, drift) =
           CASE "UNHEALTHY" \in {p, q} -> "UNHEALTHY"
             [] "UNHEALTHY" \notin {p, q} /\ "DEGRADED" \in {p, q} -> "DEGRADED"
             [] OTHER -> "HEALTHY"
    BY <1>9, <1>10, <1>11, Zenon DEF NodeHealth
  <1>13. NodeHealth(budget, drift) = CASE "CRITICAL" \in {a, b} -> "UNHEALTHY"
                    [] {a, b} \cap {"WARNING", "CRITICAL"} = {"WARNING"} -> "DEGRADED"
                    [] {a, b} = {"clear"} -> "HEALTHY"
    <2>1. CASE a = "CRITICAL" \/ b = "CRITICAL"
      <3>1. "UNHEALTHY" \in {p, q} /\ "CRITICAL" \in {a, b}
        BY <1>11, <2>1
      <3>2. {a, b} \cap {"WARNING", "CRITICAL"} # {"WARNING"} /\ {a, b} # {"clear"}
        BY <2>1
      <3>3. QED
        BY <1>12, <3>1, <3>2
    <2>2. CASE a # "CRITICAL" /\ b # "CRITICAL" /\ (a = "WARNING" \/ b = "WARNING")
      <3>1. "UNHEALTHY" \notin {p, q} /\ "DEGRADED" \in {p, q} /\ "CRITICAL" \notin {a, b}
        BY <1>11, <2>2
      <3>2. {a, b} \cap {"WARNING", "CRITICAL"} = {"WARNING"} /\ {a, b} # {"clear"}
        BY <2>2
      <3>3. QED
        BY <1>12, <3>1, <3>2
    <2>3. CASE a = "clear" /\ b = "clear"
      <3>1. "UNHEALTHY" \notin {p, q} /\ "DEGRADED" \notin {p, q} /\ "CRITICAL" \notin {a, b}
        BY <1>11, <2>3
      <3>2. {a, b} \cap {"WARNING", "CRITICAL"} # {"WARNING"} /\ {a, b} = {"clear"}
        BY <2>3
      <3>3. QED
        BY <1>12, <3>1, <3>2
    <2>4. QED
      BY <1>9, <1>10, <2>1, <2>2, <2>3 DEF Severities
  <1>14. Meaning(v, budget, drift, oracle)
    BY <1>3, <1>6, <1>7, <1>8, <1>13 DEF Meaning
  <1>15. QED
    BY <1>1, <1>2, <1>14

(* A receiver of the transitions knows the conditions. *)
LEMMA AlertsAreTold ==
  ASSUME subject = "alerts", given # <<>>,
         AlertFacts(given, answer.window, answer.firing, answer.log)
  PROVE  AlertsTellTheCondition
  <1>1. PICK n, log, f : n = Len(given) /\ log = answer.log /\ f = answer.firing
    OBVIOUS
  <1>2. /\ given \in Seq(Evaluations) /\ WindowIs(answer.window, given)
        /\ LogTells(log, f) /\ f = Verdicts(InputOf(given))
    BY <1>1 DEF AlertFacts
  <1>3. PICK drift, budget, oracle : /\ drift = Max(Recent(given))
                                     /\ budget = EstimatedRecoveryBudgetMs(given[n].tail)
                                     /\ oracle = given[n].oracle
    OBVIOUS
  <1>4. drift \in Nat
    BY <1>2, <1>3, WindowMax
  <1>5. budget = SnapshotLoadMs + given[n].tail * PerTickMs + MarginMs
    BY <1>3 DEF EstimatedRecoveryBudgetMs, PredictedRecovery
  <1>6. budget \in Nat
    <2>1. given[n] \in Evaluations
      BY <1>1, <1>2
    <2>2. given[n].tail \in Tails
      BY <2>1 DEF Evaluations
    <2>3. Tails \subseteq Nat
      BY ObservingAssumption, Zenon
    <2>4. SnapshotLoadMs \in Nat /\ PerTickMs \in Nat /\ MarginMs \in Nat
      BY AlertingAssumption
    <2>5. given[n].tail * PerTickMs \in Nat
      <3>1. PICK tail : tail = given[n].tail
        OBVIOUS
      <3>2. tail \in Nat
        BY <2>2, <2>3, <3>1
      <3>3. tail * PerTickMs \in Nat
        BY <2>4, <3>2
      <3>4. QED
        BY <3>1, <3>3
    <2>6. QED
      BY <1>5, <2>4, <2>5
  <1>7. f = Verdicts([budget |-> budget, drift |-> drift, oracle |-> oracle])
    BY <1>1, <1>2, <1>3 DEF InputOf
  <1>8. \A rule \in RuleNames : Believed(log, Len(log), rule) = f[rule]
    BY <1>2 DEF LogTells
  <1>9. ToldOnce(log)
    BY <1>2 DEF LogTells
  <1>10. Meaning(f, budget, drift, oracle)
    BY <1>4, <1>6, <1>7, VerdictsMean
  <1>11. /\ Believed(log, Len(log), "recovery-sla") = f["recovery-sla"]
         /\ Believed(log, Len(log), "scheduler-drift") = f["scheduler-drift"]
         /\ Believed(log, Len(log), "ts-go-drift") = f["ts-go-drift"]
    BY <1>8 DEF RuleNames
  <1>12. {given[i].drift : i \in {k \in 1..n : n - k < Cap}} = Recent(given)
    BY <1>1 DEF Recent
  <1>13. QED
    BY <1>1, <1>3, <1>5, <1>9, <1>10, <1>11, <1>12, Zenon DEF AlertsTellTheCondition, ToldOnce, Meaning

(* The history of the evaluations accounts for the window, the alerts and the log. *)
AlertsFollow ==
  /\ subject = "none" => given = <<>>
  /\ subject = "alerts" => /\ given # <<>>
                           /\ AlertFacts(given, answer.window, answer.firing, answer.log)

LEMMA AlertsFollowHolds == ObservingSpec => []AlertsFollow
  <1>1. NothingAsked => AlertsFollow
    BY DEF NothingAsked, AlertsFollow
  <1>2. AlertsFollow /\ [Observe \/ Elsewhere]_asked => AlertsFollow'
    <2> SUFFICES ASSUME AlertsFollow, [Observe \/ Elsewhere]_asked PROVE AlertsFollow'
      OBVIOUS
    <2>1. CASE Planning
      BY <2>1 DEF Planning, Put, AlertsFollow
    <2>2. CASE Comparing
      BY <2>2 DEF Comparing, Put, AlertsFollow
    <2>3. CASE Watching
      <3>1. PICK w, f, log : /\ w = (IF given = <<>> THEN EmptyWindow ELSE answer.window)
                             /\ f = (IF given = <<>> THEN NothingFires ELSE answer.firing)
                             /\ log = (IF given = <<>> THEN <<>> ELSE answer.log)
        OBVIOUS
      <3>2. AlertFacts(given, w, f, log)
        <4>1. CASE given = <<>>
          BY <3>1, <4>1, AlertsBegin
        <4>2. CASE given # <<>>
          <5>1. subject = "alerts"
            BY <2>3, <4>2 DEF Watching, AlertsFollow
          <5>2. QED
            BY <3>1, <4>2, <5>1 DEF AlertsFollow
        <4>3. QED
          BY <4>1, <4>2
      <3>3. PICK tail \in Tails, drift \in Drifts, oracle \in Oracles :
              LET window == Add(w, drift)
                  now == Evaluate(f, [budget |-> EstimatedRecoveryBudgetMs(tail),
                                      drift |-> MaxOf(window), oracle |-> oracle])
              IN  Put("alerts", Append(given, [tail |-> tail, drift |-> drift, oracle |-> oracle]),
                      [window |-> window, firing |-> now.firing, log |-> log \o now.events])
        BY <2>3, <3>1, Zenon DEF Watching
      <3>4. PICK e : e = [tail |-> tail, drift |-> drift, oracle |-> oracle]
        OBVIOUS
      <3>5. e \in Evaluations /\ e.tail = tail /\ e.drift = drift /\ e.oracle = oracle
        BY <3>4 DEF Evaluations
      <3>6. PICK window, now :
              /\ window = Add(w, drift)
              /\ now = Evaluate(f, [budget |-> EstimatedRecoveryBudgetMs(tail),
                                    drift |-> MaxOf(window), oracle |-> oracle])
        OBVIOUS
      <3>7. AlertFacts(Append(given, e), window, now.firing, log \o now.events)
        BY <3>2, <3>5, <3>6, AlertsStep
      <3>8. /\ subject' = "alerts" /\ given' = Append(given, e)
            /\ answer' = [window |-> window, firing |-> now.firing, log |-> log \o now.events]
        BY <3>3, <3>4, <3>6 DEF Put
      <3>9. /\ answer'.window = window /\ answer'.firing = now.firing
            /\ answer'.log = log \o now.events
        BY <3>8
      <3>10. given' # <<>>
        <4>1. given \in Seq(Evaluations)
          BY <3>2 DEF AlertFacts
        <4>2. QED
          BY <3>5, <3>8, <4>1
      <3>11. QED
        BY <3>7, <3>8, <3>9, <3>10 DEF AlertsFollow
    <2>4. CASE Replaying
      BY <2>4 DEF Replaying, Put, AlertsFollow
    <2>5. CASE Soaking
      BY <2>5 DEF Soaking, Put, AlertsFollow
    <2>6. CASE Elsewhere
      BY <2>6 DEF Elsewhere, AlertsFollow
    <2>7. CASE UNCHANGED asked
      BY <2>7 DEF asked, AlertsFollow
    <2>8. QED
      BY <2>1, <2>2, <2>3, <2>4, <2>5, <2>6, <2>7 DEF Observe
  <1>3. QED
    BY <1>1, <1>2, PTL DEF ObservingSpec

LEMMA AlertsTell == AlertsFollow => AlertsTellTheCondition
  <1> SUFFICES ASSUME AlertsFollow, subject = "alerts" PROVE AlertsTellTheCondition
    BY DEF AlertsTellTheCondition
  <1>1. given # <<>> /\ AlertFacts(given, answer.window, answer.firing, answer.log)
    BY DEF AlertsFollow
  <1>2. QED
    BY <1>1, AlertsAreTold

LEMMA DriftTells == Computed => DriftIsTheFirstDifference
  <1> SUFFICES ASSUME Computed, subject = "drift" PROVE DriftIsTheFirstDifference
    BY DEF DriftIsTheFirstDifference
  <1>1. PICK ts \in Streams, oracle \in Streams :
          given = [ts |-> ts, oracle |-> oracle] /\ answer = DetectDrift(ts, oracle)
    BY DEF Computed
  <1>2. given.ts = ts /\ given.oracle = oracle
    BY <1>1
  <1>3. ts \in Seq(ToSet(ts)) /\ oracle \in Seq(ToSet(oracle))
    <2>1. \A stream \in Streams : ListLike(stream)
      BY ObservingAssumption, Zenon
    <2>2. QED
      BY <1>1, <2>1 DEF ListLike
  <1>4. PICK U : U = ToSet(ts) \cup ToSet(oracle)
    OBVIOUS
  <1>5. ts \in Seq(U) /\ oracle \in Seq(U)
    BY <1>3, <1>4, SeqMonotonic
  <1>6. PICK found : found = DetectDrift(ts, oracle)
    OBVIOUS
  <1>7. /\ found.status = "DRIFT_OK" <=> ts = oracle
        /\ found.status = "DRIFT_DETECTED" =>
             LET common == SubSeq(ts, 1, found.tick - 1) IN
             /\ IsPrefix(common, ts) /\ IsPrefix(common, oracle)
             /\ found.field # "length" => ts[found.tick] # oracle[found.tick]
             /\ found.field = "length" => IsPrefix(ts, oracle) \/ IsPrefix(oracle, ts)
    BY <1>5, <1>6, DriftFound
  <1>8. answer = found
    BY <1>1, <1>6
  <1>9. QED
    BY <1>2, <1>7, <1>8 DEF DriftIsTheFirstDifference

-----------------------------------------------------------------------------
(* The soak. *)

(* A step of a soak and when it was; what its reader needs to know of it. *)
Moment(step, at) == [f \in DOMAIN step \cup {"at"} |-> IF f = "at" THEN at ELSE step[f]]
Moments == {Moment(step, at) : step \in SoakStep, at \in Nat \ {0}}
Readable(s) ==
  /\ s.kind \in {"sample", "restart", "restore"} /\ s.at \in Nat /\ s.at > 0
  /\ s.kind = "sample" => /\ s.tail \in Nat /\ s.drift \in Nat /\ s.snapshots \in Nat
                          /\ s.wal \in Nat /\ s.fds \in Nat /\ s.disk \in Nat
  /\ s.kind = "restore" => s.equivalent \in BOOLEAN

LEMMA MomentReads ==
  ASSUME NEW step \in SoakStep, NEW at \in Nat \ {0}
  PROVE  LET s == Moment(step, at) IN Readable(s) /\ s.at = at /\ s.kind = step.kind
  <1>1. PICK s : s = Moment(step, at)
    OBVIOUS
  <1>2. /\ DOMAIN s = DOMAIN step \cup {"at"}
        /\ \A f \in DOMAIN step \cup {"at"} : s[f] = IF f = "at" THEN at ELSE step[f]
    BY <1>1 DEF Moment
  <1>3. s.at = at /\ \A f \in DOMAIN step \ {"at"} : s[f] = step[f]
    BY <1>2
  <1>4. CASE step \in [kind : {"sample"}, tail : Nat, drift : Nat, oracle : Oracles,
                       observer : {"OBSERVED_OK", "OBSERVED_DRIFT"}, snapshots : Nat,
                       wal : Nat, fds : Nat, disk : Nat, dt : Nat]
    <2>1. /\ step.kind = "sample" /\ step.tail \in Nat /\ step.drift \in Nat
          /\ step.snapshots \in Nat /\ step.wal \in Nat /\ step.fds \in Nat /\ step.disk \in Nat
          /\ DOMAIN step = {"kind", "tail", "drift", "oracle", "observer", "snapshots", "wal",
                            "fds", "disk", "dt"}
      BY <1>4
    <2>2. /\ s.kind = step.kind /\ s.tail = step.tail /\ s.drift = step.drift
          /\ s.snapshots = step.snapshots /\ s.wal = step.wal /\ s.fds = step.fds
          /\ s.disk = step.disk
      BY <1>3, <2>1
    <2>3. QED
      BY <1>1, <1>3, <2>1, <2>2 DEF Readable
  <1>5. CASE step \in [kind : {"restart"}, dt : Nat]
    <2>1. step.kind = "restart" /\ DOMAIN step = {"kind", "dt"}
      BY <1>5
    <2>2. s.kind = step.kind
      BY <1>3, <2>1
    <2>3. QED
      BY <1>1, <1>3, <2>1, <2>2 DEF Readable
  <1>6. CASE step \in [kind : {"restore"}, equivalent : BOOLEAN, dt : Nat]
    <2>1. /\ step.kind = "restore" /\ step.equivalent \in BOOLEAN
          /\ DOMAIN step = {"kind", "equivalent", "dt"}
      BY <1>6
    <2>2. s.kind = step.kind /\ s.equivalent = step.equivalent
      BY <1>3, <2>1
    <2>3. QED
      BY <1>1, <1>3, <2>1, <2>2 DEF Readable
  <1>7. QED
    BY <1>4, <1>5, <1>6 DEF SoakStep

LEMMA MomentsRead == \A s \in Moments : Readable(s)
  BY MomentReads DEF Moments

(* What SoakMonitor and SoakProgram keep. *)
Classes == {"consensus", "recovery", "growth", "operational", "durability", "resource", "duration"}
Monitors ==
  [samples : Nat, restarts : Nat, violations : Seq(Classes), maxTail : Nat, maxBudget : Nat,
   firing : [RuleNames -> Severities], growth : Seq(Moments)]
SoakPrograms ==
  [inner : Monitors, a1 : Seq(Classes), resources : Seq(Moments), restores : Nat,
   firstMs : Nat, lastMs : Nat]

LEMMA SingleIsList ==
  ASSUME NEW U, NEW x \in U PROVE <<x>> \in Seq(U) /\ Len(<<x>>) = 1
  <1>1. <<x>> \in Seq(U)
    OBVIOUS
  <1>2. Len(<<x>>) = 1
    OBVIOUS
  <1>3. QED
    BY <1>1, <1>2

(* A list of classes that is put together is empty if all its parts are. *)
LEMMA ClassIsList ==
  /\ <<>> \in Seq(Classes)
  /\ \A class \in Classes : <<class>> \in Seq(Classes) /\ <<class>> # <<>>
  <1>1. Len(<<>>) = 0 /\ <<>> \in Seq(Classes)
    OBVIOUS
  <1>2. ASSUME NEW class \in Classes PROVE <<class>> \in Seq(Classes) /\ <<class>> # <<>>
    <2>1. <<class>> \in Seq(Classes) /\ Len(<<class>>) = 1
      BY SingleIsList
    <2>2. PICK one, none : one = <<class>> /\ none = <<>> /\ Len(one) = 1 /\ Len(none) = 0
      BY <1>1, <2>1
    <2>3. one # none
      BY <2>2
    <2>4. QED
      BY <2>1, <2>2, <2>3
  <1>3. QED
    BY <1>1, <1>2

LEMMA BothEmpty ==
  ASSUME NEW a \in Seq(Classes), NEW b \in Seq(Classes)
  PROVE  a \o b \in Seq(Classes) /\ (a \o b = <<>> <=> a = <<>> /\ b = <<>>)
  <1>1. PICK c : c = a \o b
    OBVIOUS
  <1>2. c \in Seq(Classes)
    BY <1>1
  <1>3. Len(c) = Len(a) + Len(b) /\ Len(a) \in Nat /\ Len(b) \in Nat
    BY <1>1
  <1>4. \A x \in Seq(Classes) : x = <<>> <=> Len(x) = 0
    OBVIOUS
  <1>5. QED
    BY <1>1, <1>2, <1>3, <1>4

(* An alert is critical if one of the conditions is. *)
LEMMA CriticalIs ==
  ASSUME NEW budget \in Nat, NEW drift \in Nat, NEW oracle, NEW f,
         f = Verdicts([budget |-> budget, drift |-> drift, oracle |-> oracle])
  PROVE  (\E rule \in DOMAIN f : f[rule] = "CRITICAL")
           <=> budget >= SlaMs \/ drift >= DriftCritMs \/ oracle = "DRIFT_DETECTED"
  <1>1. PICK input : input = [budget |-> budget, drift |-> drift, oracle |-> oracle]
    OBVIOUS
  <1>2. /\ DOMAIN f = RuleNames
        /\ f["recovery-sla"] = RecoverySlaRule(input.budget)
        /\ f["scheduler-drift"] = SchedulerDriftRule(input.drift)
        /\ f["ts-go-drift"] = TsGoDriftRule(input.oracle)
    BY <1>1, RulesAre DEF Verdicts, RuleNames
  <1>3. /\ f["recovery-sla"] = RecoverySlaRule(budget)
        /\ f["scheduler-drift"] = SchedulerDriftRule(drift)
        /\ f["ts-go-drift"] = TsGoDriftRule(oracle)
    BY <1>1, <1>2
  <1>4. /\ SlaMs \in Nat /\ AtRiskMs \in Nat /\ AtRiskMs <= SlaMs
        /\ DriftWarnMs \in Nat /\ DriftCritMs \in Nat /\ DriftWarnMs <= DriftCritMs
    BY AlertingAssumption
  <1>5. f["recovery-sla"] = "CRITICAL" <=> budget >= SlaMs
    BY <1>3, <1>4 DEF RecoverySlaRule, SlaWatch
  <1>6. f["scheduler-drift"] = "CRITICAL" <=> drift >= DriftCritMs
    BY <1>3, <1>4 DEF SchedulerDriftRule
  <1>7. f["ts-go-drift"] = "CRITICAL" <=> oracle = "DRIFT_DETECTED"
    BY <1>3 DEF TsGoDriftRule
  <1>8. (\E rule \in DOMAIN f : f[rule] = "CRITICAL")
          <=> \/ f["recovery-sla"] = "CRITICAL" \/ f["scheduler-drift"] = "CRITICAL"
              \/ f["ts-go-drift"] = "CRITICAL"
    BY <1>2 DEF RuleNames
  <1>9. QED
    BY <1>5, <1>6, <1>7, <1>8

(* What SoakMonitor finds in a sample. *)
Violations(s, f) ==
  If(s.oracle = "DRIFT_DETECTED", "consensus")
  \o If(s.observer = "OBSERVED_DRIFT", "consensus")
  \o If(s.tail > SoakCadence, "recovery")
  \o If(EstimatedRecoveryBudgetMs(s.tail) > SoakSlaMs, "recovery")
  \o If(s.snapshots > RetentionMax, "growth")
  \o If(\E rule \in DOMAIN f : f[rule] = "CRITICAL", "operational")

LEMMA BudgetIs ==
  ASSUME NEW s, s.tail \in Nat
  PROVE  EstimatedRecoveryBudgetMs(s.tail) = Budget(s) /\ Budget(s) \in Nat
  <1>1. PICK tail : tail = s.tail
    OBVIOUS
  <1>2. tail \in Nat /\ SnapshotLoadMs \in Nat /\ PerTickMs \in Nat /\ MarginMs \in Nat
    BY <1>1, AlertingAssumption
  <1>3. tail * PerTickMs \in Nat
    BY <1>2
  <1>4. Budget(s) = SnapshotLoadMs + tail * PerTickMs + MarginMs
    BY <1>1 DEF Budget
  <1>5. EstimatedRecoveryBudgetMs(s.tail) = SnapshotLoadMs + tail * PerTickMs + MarginMs
    BY <1>1 DEF EstimatedRecoveryBudgetMs, PredictedRecovery
  <1>6. QED
    BY <1>2, <1>3, <1>4, <1>5

LEMMA ViolationsAre ==
  ASSUME NEW s \in Moments, s.kind = "sample", NEW f,
         f = Verdicts([budget |-> EstimatedRecoveryBudgetMs(s.tail), drift |-> s.drift,
                       oracle |-> s.oracle])
  PROVE  Violations(s, f) \in Seq(Classes) /\ (Violations(s, f) = <<>> <=> InBounds(s))
  <1>1. PICK a, b, c, d, e, g :
          /\ a = If(s.oracle = "DRIFT_DETECTED", "consensus")
          /\ b = If(s.observer = "OBSERVED_DRIFT", "consensus")
          /\ c = If(s.tail > SoakCadence, "recovery")
          /\ d = If(EstimatedRecoveryBudgetMs(s.tail) > SoakSlaMs, "recovery")
          /\ e = If(s.snapshots > RetentionMax, "growth")
          /\ g = If(\E rule \in DOMAIN f : f[rule] = "CRITICAL", "operational")
    OBVIOUS
  <1>2. s.tail \in Nat /\ s.drift \in Nat /\ s.snapshots \in Nat
    BY MomentsRead DEF Readable
  <1>3. EstimatedRecoveryBudgetMs(s.tail) = Budget(s) /\ Budget(s) \in Nat
    BY <1>2, BudgetIs
  <1>4. a \in Seq(Classes) /\ (a = <<>> <=> s.oracle # "DRIFT_DETECTED")
    BY <1>1, ClassIsList DEF If, Classes
  <1>5. b \in Seq(Classes) /\ (b = <<>> <=> s.observer # "OBSERVED_DRIFT")
    BY <1>1, ClassIsList DEF If, Classes
  <1>6. c \in Seq(Classes) /\ (c = <<>> <=> s.tail <= SoakCadence)
    <2>1. c \in Seq(Classes) /\ (c = <<>> <=> ~(s.tail > SoakCadence))
      BY <1>1, ClassIsList DEF If, Classes
    <2>2. SoakCadence \in Nat
      BY SoakAssumption
    <2>3. QED
      BY <1>2, <2>1, <2>2
  <1>7. d \in Seq(Classes) /\ (d = <<>> <=> Budget(s) <= SoakSlaMs)
    <2>1. d \in Seq(Classes) /\ (d = <<>> <=> ~(EstimatedRecoveryBudgetMs(s.tail) > SoakSlaMs))
      BY <1>1, ClassIsList DEF If, Classes
    <2>2. SoakSlaMs \in Nat
      BY SoakAssumption
    <2>3. QED
      BY <1>3, <2>1, <2>2
  <1>8. e \in Seq(Classes) /\ (e = <<>> <=> s.snapshots <= RetentionMax)
    <2>1. e \in Seq(Classes) /\ (e = <<>> <=> ~(s.snapshots > RetentionMax))
      BY <1>1, ClassIsList DEF If, Classes
    <2>2. RetentionMax \in Nat
      BY SoakAssumption
    <2>3. QED
      BY <1>2, <2>1, <2>2
  <1>9. /\ g \in Seq(Classes)
        /\ g = <<>> <=> Budget(s) < SlaMs /\ s.drift < DriftCritMs /\ s.oracle # "DRIFT_DETECTED"
    <2>1. g \in Seq(Classes) /\ (g = <<>> <=> ~(\E rule \in DOMAIN f : f[rule] = "CRITICAL"))
      BY <1>1, ClassIsList DEF If, Classes
    <2>2. (\E rule \in DOMAIN f : f[rule] = "CRITICAL")
            <=> Budget(s) >= SlaMs \/ s.drift >= DriftCritMs \/ s.oracle = "DRIFT_DETECTED"
      BY <1>2, <1>3, CriticalIs
    <2>3. SlaMs \in Nat /\ DriftCritMs \in Nat
      BY AlertingAssumption
    <2>4. QED
      BY <1>2, <1>3, <2>1, <2>2, <2>3
  <1>10. a \o b \in Seq(Classes) /\ (a \o b = <<>> <=> a = <<>> /\ b = <<>>)
    BY <1>4, <1>5, BothEmpty
  <1>11. a \o b \o c \in Seq(Classes) /\ (a \o b \o c = <<>> <=> a \o b = <<>> /\ c = <<>>)
    BY <1>6, <1>10, BothEmpty
  <1>12. /\ a \o b \o c \o d \in Seq(Classes)
         /\ a \o b \o c \o d = <<>> <=> a \o b \o c = <<>> /\ d = <<>>
    BY <1>7, <1>11, BothEmpty
  <1>13. /\ a \o b \o c \o d \o e \in Seq(Classes)
         /\ a \o b \o c \o d \o e = <<>> <=> a \o b \o c \o d = <<>> /\ e = <<>>
    BY <1>8, <1>12, BothEmpty
  <1>14. /\ a \o b \o c \o d \o e \o g \in Seq(Classes)
         /\ a \o b \o c \o d \o e \o g = <<>> <=> a \o b \o c \o d \o e = <<>> /\ g = <<>>
    BY <1>9, <1>13, BothEmpty
  <1>15. Violations(s, f) = a \o b \o c \o d \o e \o g
    BY <1>1 DEF Violations
  <1>16. Violations(s, f) \in Seq(Classes)
    BY <1>14, <1>15
  <1>17. Violations(s, f) = <<>>
           <=> a = <<>> /\ b = <<>> /\ c = <<>> /\ d = <<>> /\ e = <<>> /\ g = <<>>
    BY <1>10, <1>11, <1>12, <1>13, <1>14, <1>15, Zenon
  <1>18. Violations(s, f) = <<>> <=> InBounds(s)
    BY <1>4, <1>5, <1>6, <1>7, <1>8, <1>9, <1>17, Zenon DEF InBounds
  <1>19. QED
    BY <1>16, <1>18

(* GrowthWatch keeps what it is given and lets its oldest reading go. *)
LEMMA GrowthKept ==
  ASSUME NEW buf \in Seq(Moments), NEW s \in Moments
  PROVE  SampleGrowth(buf, s) \in Seq(Moments)
  <1>1. PICK longer : longer = Append(buf, s)
    OBVIOUS
  <1>2. longer \in Seq(Moments) /\ longer # <<>>
    BY <1>1
  <1>3. Tail(longer) \in Seq(Moments)
    BY <1>2
  <1>4. SampleGrowth(buf, s) = IF Len(longer) > GrowthCap THEN Tail(longer) ELSE longer
    BY <1>1 DEF SampleGrowth
  <1>5. QED
    BY <1>2, <1>3, <1>4

(* The greater of two numbers. *)
LEMMA GreaterIs ==
  ASSUME NEW a \in Nat, NEW b \in Nat
  PROVE  Max({a, b}) \in Nat /\ Max({a, b}) = IF a >= b THEN a ELSE b
  <1>1. PICK c : c = IF a >= b THEN a ELSE b
    OBVIOUS
  <1>2. c \in {a, b} /\ c \in Nat /\ \A y \in {a, b} : y <= c
    BY <1>1
  <1>3. {a, b} \in SUBSET Nat /\ {a, b} # {}
    OBVIOUS
  <1>4. Max({a, b}) \in {a, b} /\ \A y \in {a, b} : y <= Max({a, b})
    BY <1>2, <1>3, MaxIsGreatest
  <1>5. Max({a, b}) = c
    BY <1>2, <1>4
  <1>6. QED
    BY <1>1, <1>2, <1>5

(* A sample as SoakMonitor records it. *)
LEMMA SampleRecorded ==
  ASSUME NEW m \in Monitors, NEW s \in Moments, s.kind = "sample"
  PROVE  LET r == RecordSample(m, s) IN
         /\ r \in Monitors
         /\ r.samples = m.samples + 1 /\ r.restarts = m.restarts
         /\ r.violations = <<>> <=> m.violations = <<>> /\ InBounds(s)
         /\ r.maxTail = Max({m.maxTail, s.tail})
         /\ r.maxBudget = Max({m.maxBudget, Budget(s)})
         /\ r.growth = SampleGrowth(m.growth, s)
  <1>1. PICK r : r = RecordSample(m, s)
    OBVIOUS
  <1>2. PICK input : input = [budget |-> EstimatedRecoveryBudgetMs(s.tail), drift |-> s.drift,
                              oracle |-> s.oracle]
    OBVIOUS
  <1>3. PICK f : f = Verdicts(input)
    OBVIOUS
  <1>4. f = Evaluate(m.firing, input).firing
    BY <1>3 DEF Evaluate
  <1>5. PICK found : found = Violations(s, f)
    OBVIOUS
  <1>6. PICK all, growth, tail, budget :
          /\ all = m.violations \o found /\ growth = SampleGrowth(m.growth, s)
          /\ tail = Max({m.maxTail, s.tail})
          /\ budget = Max({m.maxBudget, EstimatedRecoveryBudgetMs(s.tail)})
    OBVIOUS
  <1>7. r = [m EXCEPT !.samples = @ + 1, !.violations = all, !.firing = f, !.growth = growth,
                      !.maxTail = tail, !.maxBudget = budget]
    <2>1. f = Evaluate(m.firing, [budget |-> EstimatedRecoveryBudgetMs(s.tail),
                                  drift |-> s.drift, oracle |-> s.oracle]).firing
      BY <1>2, <1>4
    <2>2. r = [m EXCEPT !.samples = @ + 1, !.violations = @ \o Violations(s, f), !.firing = f,
                        !.growth = SampleGrowth(@, s), !.maxTail = Max({@, s.tail}),
                        !.maxBudget = Max({@, EstimatedRecoveryBudgetMs(s.tail)})]
      BY <1>1, <2>1, Zenon DEF RecordSample, Violations
    <2>3. QED
      BY <1>5, <1>6, <2>2
  <1>8. /\ s.tail \in Nat /\ EstimatedRecoveryBudgetMs(s.tail) = Budget(s) /\ Budget(s) \in Nat
    <2>1. s.tail \in Nat
      BY MomentsRead DEF Readable
    <2>2. QED
      BY <2>1, BudgetIs
  <1>9. /\ m.samples \in Nat /\ m.restarts \in Nat /\ m.violations \in Seq(Classes)
        /\ m.maxTail \in Nat /\ m.maxBudget \in Nat /\ m.growth \in Seq(Moments)
    BY DEF Monitors
  <1>10. found \in Seq(Classes) /\ (found = <<>> <=> InBounds(s))
    BY <1>2, <1>3, <1>5, ViolationsAre
  <1>11. all \in Seq(Classes) /\ (all = <<>> <=> m.violations = <<>> /\ InBounds(s))
    BY <1>6, <1>9, <1>10, BothEmpty
  <1>12. growth \in Seq(Moments)
    BY <1>6, <1>9, GrowthKept
  <1>13. tail \in Nat /\ budget \in Nat
    BY <1>6, <1>8, <1>9, GreaterIs
  <1>14. f \in [RuleNames -> Severities]
    <2>1. /\ f = [rule \in RuleNames |-> f[rule]]
          /\ f["recovery-sla"] = RecoverySlaRule(input.budget)
          /\ f["scheduler-drift"] = SchedulerDriftRule(input.drift)
          /\ f["ts-go-drift"] = TsGoDriftRule(input.oracle)
      BY <1>3, RulesAre DEF Verdicts, RuleNames
    <2>2. \A rule \in RuleNames : f[rule] \in Severities
      BY <2>1 DEF RuleNames, Severities, RecoverySlaRule, SchedulerDriftRule, TsGoDriftRule
    <2>3. QED
      BY <2>1, <2>2
  <1>15. /\ r.samples = m.samples + 1 /\ r.restarts = m.restarts /\ r.violations = all
         /\ r.maxTail = tail /\ r.maxBudget = budget /\ r.growth = growth
    BY <1>7 DEF Monitors
  <1>16. r \in Monitors
    <2>1. m.samples + 1 \in Nat
      BY <1>9
    <2>2. QED
      BY <1>7, <1>11, <1>12, <1>13, <1>14, <2>1 DEF Monitors
  <1>17. QED
    BY <1>1, <1>6, <1>8, <1>11, <1>15, <1>16

(* What a sample, a restart and a restored backup change. *)
LEMMA SampleTaken ==
  ASSUME NEW p \in SoakPrograms, NEW s \in Moments, s.kind = "sample"
  PROVE  LET q == SampleResources(Record(p, s), s) IN
         /\ q \in SoakPrograms
         /\ q.inner = RecordSample(p.inner, s)
         /\ q.resources = Append(p.resources, s)
         /\ q.a1 = p.a1 /\ q.restores = p.restores
         /\ q.firstMs = (IF p.firstMs = 0 THEN s.at ELSE p.firstMs) /\ q.lastMs = s.at
  <1>1. PICK inner, resources, first :
          /\ inner = RecordSample(p.inner, s) /\ resources = Append(p.resources, s)
          /\ first = IF p.firstMs = 0 THEN s.at ELSE p.firstMs
    OBVIOUS
  <1>2. /\ p.inner \in Monitors /\ p.a1 \in Seq(Classes) /\ p.resources \in Seq(Moments)
        /\ p.restores \in Nat /\ p.firstMs \in Nat /\ p.lastMs \in Nat
        /\ p = [inner |-> p.inner, a1 |-> p.a1, resources |-> p.resources,
                restores |-> p.restores, firstMs |-> p.firstMs, lastMs |-> p.lastMs]
    BY DEF SoakPrograms
  <1>3. s.at \in Nat /\ s.at > 0
    BY MomentsRead DEF Readable
  <1>4. inner \in Monitors
    BY <1>1, <1>2, SampleRecorded
  <1>5. resources \in Seq(Moments) /\ first \in Nat
    BY <1>1, <1>2, <1>3
  <1>6. PICK a : a = Touched(p, s.at)
    OBVIOUS
  <1>7. a = [inner |-> p.inner, a1 |-> p.a1, resources |-> p.resources,
             restores |-> p.restores, firstMs |-> first, lastMs |-> s.at]
    BY <1>1, <1>2, <1>6 DEF Touched
  <1>8. PICK b : b = Record(p, s)
    OBVIOUS
  <1>9. b = [inner |-> inner, a1 |-> p.a1, resources |-> p.resources,
             restores |-> p.restores, firstMs |-> first, lastMs |-> s.at]
    <2>1. b = [a EXCEPT !.inner = RecordSample(@, s)]
      BY <1>6, <1>8 DEF Record
    <2>2. a.inner = p.inner
      BY <1>7
    <2>3. b = [a EXCEPT !.inner = inner]
      BY <1>1, <2>1, <2>2
    <2>4. QED
      BY <1>7, <2>3
  <1>10. PICK c : c = Touched(b, s.at)
    OBVIOUS
  <1>11. c = b
    <2>1. first # 0
      BY <1>1, <1>3
    <2>2. b.firstMs = first
      BY <1>9
    <2>3. c = [b EXCEPT !.firstMs = first, !.lastMs = s.at]
      BY <1>10, <2>1, <2>2 DEF Touched
    <2>4. c = [inner |-> inner, a1 |-> p.a1, resources |-> p.resources,
               restores |-> p.restores, firstMs |-> first, lastMs |-> s.at]
      BY <1>9, <2>3
    <2>5. QED
      BY <1>9, <2>4
  <1>12. PICK q : q = SampleResources(b, s)
    OBVIOUS
  <1>13. q = [inner |-> inner, a1 |-> p.a1, resources |-> resources,
              restores |-> p.restores, firstMs |-> first, lastMs |-> s.at]
    <2>1. q = [b EXCEPT !.resources = Append(@, s)]
      BY <1>10, <1>11, <1>12, Zenon DEF SampleResources
    <2>2. QED
      BY <1>1, <1>9, <2>1
  <1>14. q \in SoakPrograms
    BY <1>2, <1>3, <1>4, <1>5, <1>13 DEF SoakPrograms
  <1>15. QED
    BY <1>1, <1>8, <1>12, <1>13, <1>14

LEMMA RestartNoted ==
  ASSUME NEW p \in SoakPrograms
  PROVE  LET q == [p EXCEPT !.inner = NoteRestart(@)] IN
         /\ q \in SoakPrograms
         /\ q.inner \in Monitors /\ q.inner.restarts = p.inner.restarts + 1
         /\ q.inner.samples = p.inner.samples /\ q.inner.violations = p.inner.violations
         /\ q.inner.maxTail = p.inner.maxTail /\ q.inner.maxBudget = p.inner.maxBudget
         /\ q.inner.growth = p.inner.growth
         /\ q.resources = p.resources /\ q.a1 = p.a1 /\ q.restores = p.restores
         /\ q.firstMs = p.firstMs /\ q.lastMs = p.lastMs
  <1>1. PICK m : m = NoteRestart(p.inner)
    OBVIOUS
  <1>2. p.inner \in Monitors
    BY DEF SoakPrograms
  <1>3. m = [p.inner EXCEPT !.restarts = @ + 1]
    BY <1>1 DEF NoteRestart
  <1>4. /\ m \in Monitors /\ m.restarts = p.inner.restarts + 1
        /\ m.samples = p.inner.samples /\ m.violations = p.inner.violations
        /\ m.maxTail = p.inner.maxTail /\ m.maxBudget = p.inner.maxBudget
        /\ m.growth = p.inner.growth
    <2>1. /\ p.inner.restarts \in Nat
          /\ m = [samples |-> p.inner.samples, restarts |-> p.inner.restarts + 1,
                  violations |-> p.inner.violations, maxTail |-> p.inner.maxTail,
                  maxBudget |-> p.inner.maxBudget, firing |-> p.inner.firing,
                  growth |-> p.inner.growth]
      BY <1>2, <1>3 DEF Monitors
    <2>2. /\ p.inner.samples \in Nat /\ p.inner.violations \in Seq(Classes)
          /\ p.inner.maxTail \in Nat /\ p.inner.maxBudget \in Nat
          /\ p.inner.firing \in [RuleNames -> Severities] /\ p.inner.growth \in Seq(Moments)
      BY <1>2 DEF Monitors
    <2>3. m \in Monitors
      BY <2>1, <2>2 DEF Monitors
    <2>4. QED
      BY <2>1, <2>3
  <1>5. PICK q : q = [p EXCEPT !.inner = NoteRestart(@)]
    OBVIOUS
  <1>6. q = [p EXCEPT !.inner = m]
    BY <1>1, <1>5
  <1>7. /\ q \in SoakPrograms /\ q.inner = m
        /\ q.resources = p.resources /\ q.a1 = p.a1 /\ q.restores = p.restores
        /\ q.firstMs = p.firstMs /\ q.lastMs = p.lastMs
    BY <1>4, <1>6 DEF SoakPrograms
  <1>8. QED
    BY <1>4, <1>5, <1>7

LEMMA RestoreCompared ==
  ASSUME NEW p \in SoakPrograms, NEW equivalent \in BOOLEAN
  PROVE  LET q == CheckRestoreEquivalence(p, equivalent) IN
         /\ q \in SoakPrograms
         /\ q.restores = p.restores + 1
         /\ q.a1 = <<>> <=> p.a1 = <<>> /\ equivalent
         /\ q.inner = p.inner /\ q.resources = p.resources
         /\ q.firstMs = p.firstMs /\ q.lastMs = p.lastMs
  <1>1. PICK q : q = CheckRestoreEquivalence(p, equivalent)
    OBVIOUS
  <1>2. PICK found : found = If(~equivalent, "durability")
    OBVIOUS
  <1>3. found \in Seq(Classes) /\ (found = <<>> <=> equivalent)
    BY <1>2, ClassIsList DEF If, Classes
  <1>4. PICK all : all = p.a1 \o found
    OBVIOUS
  <1>5. p.a1 \in Seq(Classes)
    BY DEF SoakPrograms
  <1>6. all \in Seq(Classes) /\ (all = <<>> <=> p.a1 = <<>> /\ equivalent)
    BY <1>3, <1>4, <1>5, BothEmpty
  <1>7. q = [p EXCEPT !.restores = @ + 1, !.a1 = all]
    BY <1>1, <1>2, <1>4 DEF CheckRestoreEquivalence
  <1>8. /\ q \in SoakPrograms /\ q.restores = p.restores + 1 /\ q.a1 = all
        /\ q.inner = p.inner /\ q.resources = p.resources
        /\ q.firstMs = p.firstMs /\ q.lastMs = p.lastMs
    <2>1. /\ p.restores \in Nat /\ p.restores + 1 \in Nat
          /\ p = [inner |-> p.inner, a1 |-> p.a1, resources |-> p.resources,
                  restores |-> p.restores, firstMs |-> p.firstMs, lastMs |-> p.lastMs]
      BY DEF SoakPrograms
    <2>2. q = [inner |-> p.inner, a1 |-> all, resources |-> p.resources,
               restores |-> p.restores + 1, firstMs |-> p.firstMs, lastMs |-> p.lastMs]
      BY <1>7, <2>1
    <2>3. /\ p.inner \in Monitors /\ p.resources \in Seq(Moments)
          /\ p.firstMs \in Nat /\ p.lastMs \in Nat
      BY DEF SoakPrograms
    <2>4. q \in SoakPrograms
      BY <1>6, <2>1, <2>2, <2>3 DEF SoakPrograms
    <2>5. QED
      BY <2>2, <2>4
  <1>9. QED
    BY <1>1, <1>6, <1>8

(* A step adds its place to those of its kind. *)
LEMMA OfKindAdds ==
  ASSUME NEW h \in Seq(Moments), NEW s \in Moments, NEW kind
  PROVE  LET g == Append(h, s)
             old == OfKind(h, kind)
             new == OfKind(g, kind)
         IN  /\ old \in SUBSET (1..Len(h)) /\ IsFiniteSet(old) /\ Cardinality(old) \in Nat
             /\ \A i \in 1..Len(h) : g[i] = h[i]
             /\ Len(h) + 1 \notin old /\ g[Len(h) + 1] = s
             /\ s.kind = kind => /\ new = old \cup {Len(h) + 1}
                                 /\ Cardinality(new) = Cardinality(old) + 1
             /\ s.kind # kind => new = old
  <1>1. PICK n, g, old, new : /\ n = Len(h) /\ g = Append(h, s)
                              /\ old = OfKind(h, kind) /\ new = OfKind(g, kind)
    OBVIOUS
  <1>2. n \in Nat /\ DOMAIN h = 1..n
    BY <1>1
  <1>3. DOMAIN g = 1..(n + 1) /\ g[n + 1] = s /\ \A i \in 1..n : g[i] = h[i]
    BY <1>1
  <1>4. old = {i \in 1..n : h[i].kind = kind} /\ new = {i \in 1..(n + 1) : g[i].kind = kind}
    BY <1>1, <1>2, <1>3 DEF OfKind
  <1>5. old \in SUBSET (1..n) /\ n + 1 \notin old
    BY <1>2, <1>4
  <1>6. IsFiniteSet(old) /\ Cardinality(old) \in Nat
    <2>1. IsFiniteSet(1..n)
      BY <1>2, FS_Interval
    <2>2. QED
      BY <1>5, <2>1, FS_Subset, FS_CardinalityType
  <1>7. ASSUME s.kind = kind
        PROVE  new = old \cup {n + 1} /\ Cardinality(new) = Cardinality(old) + 1
    <2>1. new = old \cup {n + 1}
      BY <1>2, <1>3, <1>4, <1>7
    <2>2. QED
      BY <1>5, <1>6, <2>1, FS_AddElement
  <1>8. ASSUME s.kind # kind PROVE new = old
    BY <1>2, <1>3, <1>4, <1>8
  <1>9. QED
    BY <1>1, <1>3, <1>5, <1>6, <1>7, <1>8

(* The samples of a history, in the order in which they were taken. *)
SamplesAt(h, at) ==
  LET samples == OfKind(h, "sample") IN
  /\ at \in Seq(Nat)
  /\ \A k \in DOMAIN at : at[k] \in samples
  /\ \A i \in samples : \E k \in DOMAIN at : at[k] = i
  /\ \A k, l \in DOMAIN at : k < l => at[k] < at[l]
  /\ Len(at) = Cardinality(samples)
  /\ \A k \in DOMAIN at : Cardinality({j \in samples : j >= at[k]}) = Len(at) - k + 1

LEMMA SamplesAdd ==
  ASSUME NEW h \in Seq(Moments), NEW s \in Moments, NEW at, SamplesAt(h, at)
  PROVE  /\ s.kind = "sample" => SamplesAt(Append(h, s), Append(at, Len(h) + 1))
         /\ s.kind # "sample" => SamplesAt(Append(h, s), at)
  <1>1. PICK n, m, g, old, new :
          /\ n = Len(h) /\ m = Len(at) /\ g = Append(h, s)
          /\ old = OfKind(h, "sample") /\ new = OfKind(g, "sample")
    OBVIOUS
  <1>2. /\ old \in SUBSET (1..n) /\ IsFiniteSet(old) /\ n + 1 \notin old
        /\ s.kind = "sample" => /\ new = old \cup {n + 1}
                                /\ Cardinality(new) = Cardinality(old) + 1
        /\ s.kind # "sample" => new = old
    BY <1>1, OfKindAdds
  <1>3. /\ at \in Seq(Nat) /\ \A k \in DOMAIN at : at[k] \in old
        /\ \A i \in old : \E k \in DOMAIN at : at[k] = i
        /\ \A k, l \in DOMAIN at : k < l => at[k] < at[l]
        /\ m = Cardinality(old)
        /\ \A k \in DOMAIN at : Cardinality({j \in old : j >= at[k]}) = m - k + 1
    BY <1>1 DEF SamplesAt
  <1>4. n \in Nat /\ m \in Nat /\ DOMAIN at = 1..m
    <2>1. n \in Nat
      BY <1>1
    <2>2. at \in Seq(Nat)
      BY <1>3
    <2>3. QED
      BY <1>1, <2>1, <2>2
  <1>5. ASSUME s.kind # "sample" PROVE SamplesAt(g, at)
    BY <1>1, <1>2, <1>5 DEF SamplesAt
  <1>6. ASSUME s.kind = "sample" PROVE SamplesAt(g, Append(at, n + 1))
    <2>1. PICK to : to = Append(at, n + 1)
      OBVIOUS
    <2>2. /\ to \in Seq(Nat) /\ Len(to) = m + 1 /\ DOMAIN to = 1..(m + 1) /\ to[m + 1] = n + 1
          /\ \A k \in 1..m : to[k] = at[k]
      BY <1>1, <1>3, <1>4, <2>1
    <2>3. new = old \cup {n + 1} /\ Cardinality(new) = m + 1
      BY <1>2, <1>3, <1>6
    <2>4. \A k \in 1..(m + 1) : k \in 1..m \/ k = m + 1
      BY <1>4
    <2>5. \A k \in 1..m : to[k] \in 1..n
      BY <1>2, <1>3, <1>4, <2>2
    <2>6. \A k \in DOMAIN to : to[k] \in new
      BY <1>3, <1>4, <2>2, <2>3, <2>4
    <2>7. \A i \in new : \E k \in DOMAIN to : to[k] = i
      <3> SUFFICES ASSUME NEW i \in new PROVE \E k \in DOMAIN to : to[k] = i
        OBVIOUS
      <3>1. CASE i = n + 1
        <4>1. m + 1 \in DOMAIN to
          BY <1>4, <2>2
        <4>2. QED
          BY <2>2, <3>1, <4>1
      <3>2. CASE i # n + 1
        <4>1. i \in old
          BY <2>3, <3>2
        <4>2. PICK k \in 1..m : at[k] = i
          BY <1>3, <1>4, <4>1
        <4>3. k \in DOMAIN to /\ to[k] = i
          BY <1>4, <2>2, <4>2
        <4>4. QED
          BY <4>3
      <3>3. QED
        BY <3>1, <3>2
    <2>8. \A k, l \in DOMAIN to : k < l => to[k] < to[l]
      <3> SUFFICES ASSUME NEW k \in 1..(m + 1), NEW l \in 1..(m + 1), k < l PROVE to[k] < to[l]
        BY <2>2
      <3>1. k \in 1..m
        BY <1>4
      <3>2. CASE l = m + 1
        <4>1. to[k] \in 1..n /\ to[l] = n + 1
          BY <2>2, <2>5, <3>1, <3>2
        <4>2. QED
          BY <1>4, <4>1
      <3>3. CASE l \in 1..m
        BY <1>3, <1>4, <2>2, <3>1, <3>3
      <3>4. QED
        BY <2>4, <3>2, <3>3
    <2>9. ASSUME NEW k \in DOMAIN to
          PROVE  Cardinality({j \in new : j >= to[k]}) = (m + 1) - k + 1
      <3>1. k \in 1..(m + 1)
        BY <2>2
      <3>2. CASE k = m + 1
        <4>1. {j \in new : j >= to[k]} = {n + 1}
          <5>1. \A j \in old : ~(j >= n + 1)
            BY <1>2, <1>4
          <5>2. n + 1 >= n + 1
            BY <1>4
          <5>3. QED
            BY <2>2, <2>3, <3>2, <5>1, <5>2
        <4>2. (m + 1) - k + 1 = 1
          BY <1>4, <3>2
        <4>3. QED
          BY <4>1, <4>2, FS_Singleton
      <3>3. CASE k \in 1..m
        <4>1. PICK kept : kept = {j \in old : j >= at[k]}
          OBVIOUS
        <4>2. IsFiniteSet(kept) /\ n + 1 \notin kept /\ Cardinality(kept) = m - k + 1
          BY <1>2, <1>3, <1>4, <3>3, <4>1, FS_Subset
        <4>3. {j \in new : j >= to[k]} = kept \cup {n + 1}
          <5>1. n + 1 >= at[k] /\ to[k] = at[k]
            BY <1>4, <2>2, <2>5, <3>3
          <5>2. QED
            BY <2>3, <4>1, <5>1
        <4>4. Cardinality(kept \cup {n + 1}) = Cardinality(kept) + 1
          BY <4>2, FS_AddElement
        <4>5. k \in Nat
          BY <3>1
        <4>6. m - k + 1 + 1 = (m + 1) - k + 1
          BY <1>4, <4>5
        <4>7. QED
          BY <4>2, <4>3, <4>4, <4>6, Zenon
      <3>4. QED
        BY <2>4, <3>1, <3>2, <3>3
    <2>10. SamplesAt(g, to)
      BY <1>1, <2>2, <2>3, <2>6, <2>7, <2>8, <2>9 DEF SamplesAt
    <2>11. QED
      BY <2>1, <2>10
  <1>7. QED
    BY <1>1, <1>5, <1>6

(* What SoakProgram has of the samples: all of them, the last of them in the *)
(* GrowthWatch, and the times of the first and the last.                     *)
KeepsSamples(h, at, p) ==
  LET m == Len(at)
      growth == p.inner.growth
  IN  /\ p.inner.samples = m
      /\ Len(p.resources) = m /\ \A k \in 1..m : p.resources[k] = h[at[k]]
      /\ Len(growth) = IF m < GrowthCap THEN m ELSE GrowthCap
      /\ \A j \in 1..Len(growth) : growth[j] = h[at[m - Len(growth) + j]]
      /\ p.firstMs = IF m = 0 THEN 0 ELSE h[at[1]].at
      /\ p.lastMs = IF m = 0 THEN 0 ELSE h[at[m]].at

LEMMA KeepsTheSample ==
  ASSUME NEW h \in Seq(Moments), NEW s \in Moments, s.kind = "sample",
         NEW at, SamplesAt(h, at), NEW p \in SoakPrograms, KeepsSamples(h, at, p)
  PROVE  KeepsSamples(Append(h, s), Append(at, Len(h) + 1), SampleResources(Record(p, s), s))
  <1>1. PICK n, m, g, to, q :
          /\ n = Len(h) /\ m = Len(at) /\ g = Append(h, s) /\ to = Append(at, n + 1)
          /\ q = SampleResources(Record(p, s), s)
    OBVIOUS
  <1>2. PICK buf, rs, buf2, rs2 :
          /\ buf = p.inner.growth /\ rs = p.resources
          /\ buf2 = q.inner.growth /\ rs2 = q.resources
    OBVIOUS
  <1>3. at \in Seq(Nat) /\ \A k \in DOMAIN at : at[k] \in 1..n
    <2>1. at \in Seq(Nat) /\ \A k \in DOMAIN at : at[k] \in OfKind(h, "sample")
      BY DEF SamplesAt
    <2>2. OfKind(h, "sample") \in SUBSET (1..n)
      BY <1>1, OfKindAdds
    <2>3. QED
      BY <2>1, <2>2
  <1>4. n \in Nat /\ m \in Nat /\ DOMAIN at = 1..m
    <2>1. n \in Nat
      BY <1>1
    <2>2. QED
      BY <1>1, <1>3, <2>1
  <1>5. /\ Len(to) = m + 1 /\ to[m + 1] = n + 1 /\ \A k \in 1..m : to[k] = at[k]
    BY <1>1, <1>3, <1>4
  <1>6. g[n + 1] = s /\ \A i \in 1..n : g[i] = h[i]
    BY <1>1
  <1>7. g[to[m + 1]] = s /\ \A k \in 1..m : g[to[k]] = h[at[k]]
    BY <1>3, <1>4, <1>5, <1>6
  <1>8. /\ p.inner \in Monitors /\ buf \in Seq(Moments) /\ rs \in Seq(Moments)
        /\ p.firstMs \in Nat
    BY <1>2 DEF SoakPrograms, Monitors
  <1>9. /\ q.inner = RecordSample(p.inner, s) /\ rs2 = Append(rs, s)
        /\ q.firstMs = (IF p.firstMs = 0 THEN s.at ELSE p.firstMs) /\ q.lastMs = s.at
    BY <1>1, <1>2, SampleTaken
  <1>10. q.inner.samples = p.inner.samples + 1 /\ buf2 = SampleGrowth(buf, s)
    BY <1>2, <1>8, <1>9, SampleRecorded
  <1>11. /\ p.inner.samples = m
         /\ Len(rs) = m /\ \A k \in 1..m : rs[k] = h[at[k]]
         /\ Len(buf) = (IF m < GrowthCap THEN m ELSE GrowthCap)
         /\ \A j \in 1..Len(buf) : buf[j] = h[at[m - Len(buf) + j]]
         /\ p.firstMs = (IF m = 0 THEN 0 ELSE h[at[1]].at)
    BY <1>1, <1>2 DEF KeepsSamples
  <1>12. q.inner.samples = m + 1
    BY <1>10, <1>11
  <1>13. Len(rs2) = m + 1 /\ \A k \in 1..(m + 1) : rs2[k] = g[to[k]]
    <2>1. Len(rs2) = m + 1 /\ rs2[m + 1] = s /\ \A k \in 1..m : rs2[k] = rs[k]
      BY <1>4, <1>8, <1>9, <1>11
    <2>2. \A k \in 1..(m + 1) : k \in 1..m \/ k = m + 1
      BY <1>4
    <2>3. QED
      BY <1>7, <1>11, <2>1, <2>2
  <1>14. /\ Len(buf2) = (IF m + 1 < GrowthCap THEN m + 1 ELSE GrowthCap)
         /\ \A j \in 1..Len(buf2) : buf2[j] = g[to[m + 1 - Len(buf2) + j]]
    <2>1. GrowthCap \in Nat /\ GrowthCap >= 2
      BY SoakAssumption
    <2>2. PICK l, longer : l = Len(buf) /\ longer = Append(buf, s)
      OBVIOUS
    <2>3. l \in Nat
      BY <1>8, <2>2
    <2>4. /\ longer \in Seq(Moments) /\ Len(longer) = l + 1 /\ longer[l + 1] = s
          /\ \A j \in 1..l : longer[j] = buf[j]
      BY <1>8, <2>2, <2>3
    <2>5. l <= m
      BY <1>4, <1>11, <2>1, <2>2
    <2>6. ASSUME NEW j \in 1..(l + 1) PROVE longer[j] = g[to[m - l + j]]
      <3>1. j \in Nat
        OBVIOUS
      <3>2. CASE j = l + 1
        <4>1. m - l + j = m + 1
          BY <1>4, <2>3, <3>2
        <4>2. QED
          BY <1>7, <2>4, <3>2, <4>1
      <3>3. CASE j # l + 1
        <4>1. j \in 1..l /\ m - l + j \in 1..m
          BY <1>4, <2>3, <2>5, <3>1, <3>3
        <4>2. QED
          BY <1>7, <1>11, <2>2, <2>4, <4>1
      <3>4. QED
        BY <3>2, <3>3
    <2>7. buf2 = IF Len(longer) > GrowthCap THEN Tail(longer) ELSE longer
      BY <1>10, <2>2 DEF SampleGrowth
    <2>8. CASE m < GrowthCap
      <3>1. l = m /\ ~(Len(longer) > GrowthCap)
        BY <1>4, <1>11, <2>1, <2>2, <2>4, <2>8
      <3>2. buf2 = longer /\ Len(buf2) = m + 1
        BY <2>4, <2>7, <3>1
      <3>3. m + 1 = IF m + 1 < GrowthCap THEN m + 1 ELSE GrowthCap
        BY <1>4, <2>1, <2>8
      <3>4. \A j \in 1..(m + 1) : buf2[j] = g[to[m + 1 - (m + 1) + j]]
        <4> SUFFICES ASSUME NEW j \in 1..(m + 1)
                     PROVE  buf2[j] = g[to[m + 1 - (m + 1) + j]]
          OBVIOUS
        <4>1. m + 1 - (m + 1) + j = m - l + j
          BY <1>4, <3>1
        <4>2. QED
          BY <2>6, <3>1, <3>2, <4>1
      <3>5. QED
        BY <3>2, <3>3, <3>4
    <2>9. CASE ~(m < GrowthCap)
      <3>1. l = GrowthCap /\ Len(longer) > GrowthCap
        BY <1>4, <1>11, <2>1, <2>2, <2>4, <2>9
      <3>2. buf2 = Tail(longer)
        BY <2>7, <3>1
      <3>3. Len(buf2) = l /\ \A j \in 1..l : buf2[j] = longer[j + 1]
        BY <2>3, <2>4, <3>2
      <3>4. l = IF m + 1 < GrowthCap THEN m + 1 ELSE GrowthCap
        BY <1>4, <2>1, <2>9, <3>1
      <3>5. ASSUME NEW j \in 1..l PROVE buf2[j] = g[to[m + 1 - l + j]]
        <4>1. j + 1 \in 1..(l + 1) /\ m - l + (j + 1) = m + 1 - l + j
          BY <1>4, <2>3
        <4>2. longer[j + 1] = g[to[m - l + (j + 1)]]
          BY <2>6, <4>1
        <4>3. QED
          BY <3>3, <4>1, <4>2
      <3>6. QED
        BY <3>3, <3>4, <3>5
    <2>10. QED
      BY <2>8, <2>9
  <1>15. q.firstMs = g[to[1]].at
    <2>1. CASE m = 0
      BY <1>4, <1>7, <1>9, <1>11, <2>1
    <2>2. CASE m # 0
      <3>1. 1 \in 1..m
        BY <1>4, <2>2
      <3>2. at[1] \in 1..n
        BY <1>3, <1>4, <3>1
      <3>3. h[at[1]].at # 0
        <4>1. h[at[1]] \in Moments
          BY <1>1, <3>2
        <4>2. QED
          BY <4>1, MomentsRead DEF Readable
      <3>4. QED
        BY <1>7, <1>9, <1>11, <2>2, <3>1, <3>3
    <2>3. QED
      BY <2>1, <2>2
  <1>16. q.lastMs = g[to[m + 1]].at
    BY <1>7, <1>9
  <1>17. KeepsSamples(g, to, q)
    <2>1. m + 1 # 0
      BY <1>4
    <2>2. Len(to) = m + 1
      BY <1>5
    <2>3. Len(q.resources) = Len(to) /\ \A k \in 1..Len(to) : q.resources[k] = g[to[k]]
      BY <1>2, <1>13, <2>2, Zenon
    <2>4. /\ Len(q.inner.growth) = IF Len(to) < GrowthCap THEN Len(to) ELSE GrowthCap
          /\ \A j \in 1..Len(q.inner.growth) :
               q.inner.growth[j] = g[to[Len(to) - Len(q.inner.growth) + j]]
      <3>1. PICK grown : grown = q.inner.growth
        OBVIOUS
      <3>2. grown = buf2
        BY <1>2, <3>1
      <3>3. Len(buf2) \in Nat
        <4>1. GrowthCap \in Nat
          BY SoakAssumption
        <4>2. QED
          BY <1>4, <1>14, <4>1
      <3>4. /\ Len(grown) = IF Len(to) < GrowthCap THEN Len(to) ELSE GrowthCap
            /\ \A j \in 1..Len(grown) : grown[j] = g[to[Len(to) - Len(grown) + j]]
        <4>1. Len(grown) = IF Len(to) < GrowthCap THEN Len(to) ELSE GrowthCap
          BY <1>14, <2>2, <3>2
        <4>2. ASSUME NEW j \in 1..Len(grown)
              PROVE  grown[j] = g[to[Len(to) - Len(grown) + j]]
          <5>1. PICK i : i = m + 1 - Len(buf2) + j
            OBVIOUS
          <5>2. buf2[j] = g[to[i]]
            BY <1>14, <3>2, <5>1
          <5>3. i = Len(to) - Len(grown) + j
            BY <1>4, <2>2, <3>2, <3>3, <5>1
          <5>4. QED
            BY <3>2, <5>2, <5>3
        <4>3. QED
          BY <4>1, <4>2
      <3>5. QED
        BY <3>1, <3>4, Zenon
    <2>5. /\ q.firstMs = IF Len(to) = 0 THEN 0 ELSE g[to[1]].at
          /\ q.lastMs = IF Len(to) = 0 THEN 0 ELSE g[to[Len(to)]].at
      BY <1>15, <1>16, <2>1, <2>2
    <2>6. QED
      BY <1>12, <2>2, <2>3, <2>4, <2>5, Zenon DEF KeepsSamples
  <1>18. QED
    BY <1>1, <1>17

(* A step that is not a sample leaves them as they are. *)
LEMMA KeepsTheOthers ==
  ASSUME NEW h \in Seq(Moments), NEW s \in Moments, NEW at, SamplesAt(h, at),
         NEW p, NEW q, KeepsSamples(h, at, p), q.inner.samples = p.inner.samples,
         q.inner.growth = p.inner.growth, q.resources = p.resources,
         q.firstMs = p.firstMs, q.lastMs = p.lastMs
  PROVE  KeepsSamples(Append(h, s), at, q)
  <1>1. PICK n, m, g, buf, rs :
          /\ n = Len(h) /\ m = Len(at) /\ g = Append(h, s)
          /\ buf = p.inner.growth /\ rs = p.resources
    OBVIOUS
  <1>2. at \in Seq(Nat) /\ \A k \in DOMAIN at : at[k] \in 1..n
    <2>1. at \in Seq(Nat) /\ \A k \in DOMAIN at : at[k] \in OfKind(h, "sample")
      BY DEF SamplesAt
    <2>2. OfKind(h, "sample") \in SUBSET (1..n)
      BY <1>1, OfKindAdds
    <2>3. QED
      BY <2>1, <2>2
  <1>3. m \in Nat /\ DOMAIN at = 1..m
    BY <1>1, <1>2
  <1>4. \A k \in 1..m : g[at[k]] = h[at[k]]
    <2>1. \A i \in 1..n : g[i] = h[i]
      BY <1>1
    <2>2. QED
      BY <1>2, <1>3, <2>1
  <1>5. /\ p.inner.samples = m
        /\ Len(rs) = m /\ \A k \in 1..m : rs[k] = h[at[k]]
        /\ Len(buf) = (IF m < GrowthCap THEN m ELSE GrowthCap)
        /\ \A j \in 1..Len(buf) : buf[j] = h[at[m - Len(buf) + j]]
        /\ p.firstMs = (IF m = 0 THEN 0 ELSE h[at[1]].at)
        /\ p.lastMs = (IF m = 0 THEN 0 ELSE h[at[m]].at)
    BY <1>1 DEF KeepsSamples
  <1>6. GrowthCap \in Nat
    BY SoakAssumption
  <1>7. \A j \in 1..Len(buf) : m - Len(buf) + j \in 1..m
    BY <1>3, <1>5, <1>6
  <1>8. m # 0 => 1 \in 1..m /\ m \in 1..m
    BY <1>3
  <1>9. KeepsSamples(g, at, q)
    <2>1. q.inner.samples = Len(at) /\ Len(q.resources) = Len(at)
      BY <1>1, <1>5
    <2>2. \A k \in 1..Len(at) : q.resources[k] = g[at[k]]
      BY <1>1, <1>4, <1>5
    <2>3. Len(q.inner.growth) = IF Len(at) < GrowthCap THEN Len(at) ELSE GrowthCap
      BY <1>1, <1>5
    <2>4. \A j \in 1..Len(q.inner.growth) :
            q.inner.growth[j] = g[at[Len(at) - Len(q.inner.growth) + j]]
      <3>1. \A j \in 1..Len(buf) : buf[j] = g[at[m - Len(buf) + j]]
        BY <1>4, <1>5, <1>7, Zenon
      <3>2. QED
        BY <1>1, <3>1, Zenon
    <2>5. /\ q.firstMs = IF Len(at) = 0 THEN 0 ELSE g[at[1]].at
          /\ q.lastMs = IF Len(at) = 0 THEN 0 ELSE g[at[Len(at)]].at
      BY <1>1, <1>4, <1>5, <1>8
    <2>6. QED
      BY <2>1, <2>2, <2>3, <2>4, <2>5, Zenon DEF KeepsSamples
  <1>10. QED
    BY <1>1, <1>9

(* The greatest of a set of numbers is its Max. *)
Greatest(m, T) == m \in T /\ T \subseteq Nat /\ \A x \in T : x <= m

LEMMA GreatestIsMax == \A T : \A m \in T : Greatest(m, T) => m = Max(T)
  <1> SUFFICES ASSUME NEW T, NEW m \in T, Greatest(m, T) PROVE m = Max(T)
    OBVIOUS
  <1>1. m \in Nat /\ T \in SUBSET Nat /\ T # {} /\ \A y \in T : y <= m
    BY DEF Greatest
  <1>2. Max(T) \in T /\ \A y \in T : y <= Max(T)
    BY <1>1, MaxIsGreatest
  <1>3. PICK c : c = Max(T)
    OBVIOUS
  <1>4. c \in Nat /\ c <= m /\ m <= c
    BY <1>1, <1>2, <1>3
  <1>5. QED
    BY <1>1, <1>3, <1>4

LEMMA GreatestAdds ==
  ASSUME NEW T, NEW m, Greatest(m, T), NEW x \in Nat
  PROVE  Greatest(Max({m, x}), T \cup {x})
  <1>1. m \in Nat /\ m \in T /\ T \subseteq Nat /\ \A y \in T : y <= m
    BY DEF Greatest
  <1>2. PICK c : c = Max({m, x})
    OBVIOUS
  <1>3. c = IF m >= x THEN m ELSE x
    BY <1>1, <1>2, GreaterIs
  <1>4. c \in T \cup {x} /\ T \cup {x} \subseteq Nat /\ \A y \in T \cup {x} : y <= c
    BY <1>1, <1>3
  <1>5. QED
    BY <1>2, <1>4 DEF Greatest

(* All that the maxima of a report are taken of. *)
TailsOf(h) == {0} \cup {h[i].tail : i \in OfKind(h, "sample")}
BudgetsOf(h) == {0} \cup {Budget(h[i]) : i \in OfKind(h, "sample")}

(* What is counted, the maxima, and whether anything was found. *)
Judges(h, p) ==
  /\ p.inner.restarts = Cardinality(OfKind(h, "restart"))
  /\ p.restores = Cardinality(OfKind(h, "restore"))
  /\ p.inner.violations = <<>> <=> \A i \in OfKind(h, "sample") : InBounds(h[i])
  /\ p.a1 = <<>> <=> \A i \in OfKind(h, "restore") : h[i].equivalent
  /\ Greatest(p.inner.maxTail, TailsOf(h))
  /\ Greatest(p.inner.maxBudget, BudgetsOf(h))

(* What holds of all of a kind holds of them after a step if it holds of it. *)
LEMMA OfAllAdds ==
  ASSUME NEW h \in Seq(Moments), NEW s \in Moments
  PROVE  /\ s.kind = "sample" =>
              ((\A i \in OfKind(Append(h, s), "sample") : InBounds(Append(h, s)[i]))
                 <=> InBounds(s) /\ \A i \in OfKind(h, "sample") : InBounds(h[i]))
         /\ s.kind # "sample" =>
              ((\A i \in OfKind(Append(h, s), "sample") : InBounds(Append(h, s)[i]))
                 <=> \A i \in OfKind(h, "sample") : InBounds(h[i]))
         /\ s.kind = "restore" =>
              ((\A i \in OfKind(Append(h, s), "restore") : Append(h, s)[i].equivalent)
                 <=> s.equivalent /\ \A i \in OfKind(h, "restore") : h[i].equivalent)
         /\ s.kind # "restore" =>
              ((\A i \in OfKind(Append(h, s), "restore") : Append(h, s)[i].equivalent)
                 <=> \A i \in OfKind(h, "restore") : h[i].equivalent)
  <1>1. PICK n, g : n = Len(h) /\ g = Append(h, s)
    OBVIOUS
  <1>2. PICK a, b, c, d : /\ a = OfKind(h, "sample") /\ b = OfKind(g, "sample")
                          /\ c = OfKind(h, "restore") /\ d = OfKind(g, "restore")
    OBVIOUS
  <1>3. /\ a \in SUBSET (1..n) /\ n + 1 \notin a
        /\ s.kind = "sample" => b = a \cup {n + 1}
        /\ s.kind # "sample" => b = a
    BY <1>1, <1>2, OfKindAdds
  <1>4. /\ c \in SUBSET (1..n) /\ n + 1 \notin c
        /\ s.kind = "restore" => d = c \cup {n + 1}
        /\ s.kind # "restore" => d = c
    <2>1. /\ OfKind(h, "restore") \in SUBSET (1..Len(h))
          /\ Len(h) + 1 \notin OfKind(h, "restore")
          /\ s.kind = "restore" =>
               OfKind(Append(h, s), "restore") = OfKind(h, "restore") \cup {Len(h) + 1}
          /\ s.kind # "restore" => OfKind(Append(h, s), "restore") = OfKind(h, "restore")
      BY OfKindAdds
    <2>2. QED
      BY <1>1, <1>2, <2>1
  <1>5. g[n + 1] = s /\ \A i \in 1..n : g[i] = h[i]
    BY <1>1
  <1>6. /\ \A i \in a : InBounds(g[i]) <=> InBounds(h[i])
        /\ InBounds(g[n + 1]) <=> InBounds(s)
    BY <1>3, <1>5
  <1>7. /\ s.kind = "sample" => ((\A i \in b : InBounds(g[i]))
                                   <=> InBounds(s) /\ \A i \in a : InBounds(h[i]))
        /\ s.kind # "sample" => ((\A i \in b : InBounds(g[i])) <=> \A i \in a : InBounds(h[i]))
    BY <1>3, <1>6, Zenon
  <1>8. /\ \A i \in c : g[i].equivalent = h[i].equivalent
        /\ g[n + 1].equivalent = s.equivalent
    BY <1>4, <1>5
  <1>9. /\ s.kind = "restore" => ((\A i \in d : g[i].equivalent)
                                   <=> s.equivalent /\ \A i \in c : h[i].equivalent)
        /\ s.kind # "restore" => ((\A i \in d : g[i].equivalent) <=> \A i \in c : h[i].equivalent)
    BY <1>4, <1>8, Zenon
  <1>10. QED
    BY <1>1, <1>2, <1>7, <1>9, Zenon

LEMMA MaximaAdd ==
  ASSUME NEW h \in Seq(Moments), NEW s \in Moments
  PROVE  /\ s.kind = "sample" => /\ TailsOf(Append(h, s)) = TailsOf(h) \cup {s.tail}
                                 /\ BudgetsOf(Append(h, s)) = BudgetsOf(h) \cup {Budget(s)}
         /\ s.kind # "sample" => /\ TailsOf(Append(h, s)) = TailsOf(h)
                                 /\ BudgetsOf(Append(h, s)) = BudgetsOf(h)
  <1>1. PICK n, g, a, b : /\ n = Len(h) /\ g = Append(h, s)
                          /\ a = OfKind(h, "sample") /\ b = OfKind(g, "sample")
    OBVIOUS
  <1>2. /\ a \in SUBSET (1..n) /\ n + 1 \notin a
        /\ s.kind = "sample" => b = a \cup {n + 1}
        /\ s.kind # "sample" => b = a
    <2>1. OfKind(h, "sample") \in SUBSET (1..Len(h)) /\ Len(h) + 1 \notin OfKind(h, "sample")
      BY OfKindAdds
    <2>2. s.kind = "sample" => OfKind(Append(h, s), "sample") = OfKind(h, "sample") \cup {Len(h) + 1}
      BY OfKindAdds
    <2>3. s.kind # "sample" => OfKind(Append(h, s), "sample") = OfKind(h, "sample")
      BY OfKindAdds
    <2>4. QED
      BY <1>1, <2>1, <2>2, <2>3
  <1>3. g[n + 1] = s /\ \A i \in 1..n : g[i] = h[i]
    BY <1>1
  <1>4. \A i \in a : g[i] = h[i]
    BY <1>2, <1>3
  <1>5. ASSUME s.kind = "sample"
        PROVE  /\ TailsOf(g) = TailsOf(h) \cup {s.tail}
               /\ BudgetsOf(g) = BudgetsOf(h) \cup {Budget(s)}
    <2>1. {g[i].tail : i \in b} = {h[i].tail : i \in a} \cup {s.tail}
      BY <1>2, <1>3, <1>4, <1>5
    <2>2. {Budget(g[i]) : i \in b} = {Budget(h[i]) : i \in a} \cup {Budget(s)}
      BY <1>2, <1>3, <1>4, <1>5
    <2>3. QED
      BY <1>1, <2>1, <2>2 DEF TailsOf, BudgetsOf
  <1>6. ASSUME s.kind # "sample"
        PROVE  TailsOf(g) = TailsOf(h) /\ BudgetsOf(g) = BudgetsOf(h)
    <2>1. {g[i].tail : i \in b} = {h[i].tail : i \in a}
      BY <1>2, <1>4, <1>6
    <2>2. {Budget(g[i]) : i \in b} = {Budget(h[i]) : i \in a}
      BY <1>2, <1>4, <1>6
    <2>3. QED
      BY <1>1, <2>1, <2>2 DEF TailsOf, BudgetsOf
  <1>7. QED
    BY <1>1, <1>5, <1>6

(* Time does not go back. *)
Timed(h) == \A i, j \in DOMAIN h : i <= j => h[i].at <= h[j].at

LEMMA TimedAdds ==
  ASSUME NEW h \in Seq(Moments), Timed(h), NEW s \in Moments,
         h # <<>> => h[Len(h)].at <= s.at
  PROVE  Timed(Append(h, s))
  <1>1. PICK n, g : n = Len(h) /\ g = Append(h, s)
    OBVIOUS
  <1>2. n \in Nat /\ DOMAIN h = 1..n /\ (n # 0 => h # <<>>)
    BY <1>1
  <1>3. DOMAIN g = 1..(n + 1) /\ g[n + 1] = s /\ \A i \in 1..n : g[i] = h[i]
    BY <1>1
  <1>4. \A i \in 1..n : h[i].at \in Nat
    BY <1>1, MomentsRead DEF Readable
  <1>5. s.at \in Nat
    BY MomentsRead DEF Readable
  <1>6. ASSUME NEW i \in 1..(n + 1), NEW j \in 1..(n + 1), i <= j PROVE g[i].at <= g[j].at
    <2>1. CASE i = n + 1
      <3>1. j = n + 1
        BY <1>2, <1>6, <2>1
      <3>2. QED
        BY <1>3, <1>5, <2>1, <3>1
    <2>2. CASE i # n + 1 /\ j = n + 1
      <3>1. i \in 1..n /\ n \in 1..n /\ i <= n /\ n # 0
        BY <1>2, <2>2
      <3>2. h[i].at <= h[n].at
        BY <1>2, <3>1 DEF Timed
      <3>3. h[n].at <= s.at
        BY <1>1, <1>2, <3>1
      <3>4. h[i].at \in Nat /\ h[n].at \in Nat
        BY <1>4, <3>1
      <3>5. g[i].at = h[i].at /\ g[j].at = s.at
        BY <1>3, <2>2, <3>1
      <3>6. QED
        BY <1>5, <3>2, <3>3, <3>4, <3>5
    <2>3. CASE i # n + 1 /\ j # n + 1
      <3>1. i \in 1..n /\ j \in 1..n
        BY <1>2, <2>3
      <3>2. QED
        BY <1>2, <1>3, <1>6, <3>1 DEF Timed
    <2>4. QED
      BY <2>1, <2>2, <2>3
  <1>7. QED
    BY <1>1, <1>3, <1>6 DEF Timed

(* The history of a soak accounts for what is kept of it. *)
SoakFacts(h, p) ==
  /\ h \in Seq(Moments) /\ p \in SoakPrograms /\ Timed(h)
  /\ \E at : SamplesAt(h, at) /\ KeepsSamples(h, at, p)
  /\ Judges(h, p)

LEMMA SoakBegins == SoakFacts(<<>>, NewProgram)
  <1>1. PICK none, p : none = <<>> /\ p = NewProgram
    OBVIOUS
  <1>2. /\ none \in Seq(Moments) /\ none \in Seq(Nat) /\ none \in Seq(Classes)
        /\ Len(none) = 0 /\ DOMAIN none = {}
    BY <1>1
  <1>3. \A kind : OfKind(none, kind) = {}
    BY <1>2 DEF OfKind
  <1>4. Cardinality({}) = 0
    BY FS_EmptySet
  <1>5. PICK m : m = NewMonitor
    OBVIOUS
  <1>6. m = [samples |-> 0, restarts |-> 0, violations |-> none, maxTail |-> 0, maxBudget |-> 0,
             firing |-> NothingFires, growth |-> none]
    BY <1>1, <1>5 DEF NewMonitor
  <1>7. NothingFires \in [RuleNames -> Severities]
    BY RulesAre DEF NothingFires, Severities
  <1>8. m \in Monitors
    BY <1>2, <1>6, <1>7 DEF Monitors
  <1>9. p = [inner |-> m, a1 |-> none, resources |-> none, restores |-> 0, firstMs |-> 0,
             lastMs |-> 0]
    BY <1>1, <1>5 DEF NewProgram
  <1>10. p \in SoakPrograms
    BY <1>2, <1>8, <1>9 DEF SoakPrograms
  <1>11. /\ p.inner = m /\ p.a1 = none /\ p.resources = none /\ p.restores = 0
         /\ p.firstMs = 0 /\ p.lastMs = 0
         /\ m.samples = 0 /\ m.restarts = 0 /\ m.violations = none
         /\ m.maxTail = 0 /\ m.maxBudget = 0 /\ m.growth = none
    BY <1>6, <1>9
  <1>12. Timed(none)
    BY <1>2 DEF Timed
  <1>13. SamplesAt(none, none)
    BY <1>2, <1>3, <1>4 DEF SamplesAt
  <1>14. KeepsSamples(none, none, p)
    <2>1. GrowthCap \in Nat /\ GrowthCap >= 2
      BY SoakAssumption
    <2>2. 0 = IF 0 < GrowthCap THEN 0 ELSE GrowthCap
      BY <2>1
    <2>3. 1..0 = {}
      OBVIOUS
    <2>4. QED
      BY <1>2, <1>11, <2>2, <2>3 DEF KeepsSamples
  <1>15. Judges(none, p)
    <2>1. TailsOf(none) = {0} /\ BudgetsOf(none) = {0}
      BY <1>3 DEF TailsOf, BudgetsOf
    <2>2. Greatest(0, {0})
      BY DEF Greatest
    <2>3. QED
      BY <1>1, <1>3, <1>4, <1>11, <2>1, <2>2 DEF Judges
  <1>16. SoakFacts(none, p)
    BY <1>2, <1>10, <1>12, <1>13, <1>14, <1>15 DEF SoakFacts
  <1>17. QED
    BY <1>1, <1>16

LEMMA SoakSamples ==
  ASSUME NEW h, NEW p, SoakFacts(h, p), NEW s \in Moments, s.kind = "sample",
         h # <<>> => h[Len(h)].at <= s.at
  PROVE  SoakFacts(Append(h, s), SampleResources(Record(p, s), s))
  <1>1. /\ h \in Seq(Moments) /\ p \in SoakPrograms /\ Timed(h) /\ Judges(h, p)
        /\ p.inner \in Monitors
    BY DEF SoakFacts, SoakPrograms
  <1>2. PICK at : SamplesAt(h, at) /\ KeepsSamples(h, at, p)
    BY DEF SoakFacts
  <1>3. PICK g, q, m : g = Append(h, s) /\ q = SampleResources(Record(p, s), s) /\ m = p.inner
    OBVIOUS
  <1>4. /\ q \in SoakPrograms /\ q.inner = RecordSample(m, s)
        /\ q.a1 = p.a1 /\ q.restores = p.restores
    BY <1>1, <1>3, SampleTaken
  <1>5. PICK r : r = q.inner
    OBVIOUS
  <1>6. /\ r.restarts = m.restarts
        /\ r.violations = <<>> <=> m.violations = <<>> /\ InBounds(s)
        /\ r.maxTail = Max({m.maxTail, s.tail})
        /\ r.maxBudget = Max({m.maxBudget, Budget(s)})
    <2>1. m \in Monitors /\ r = RecordSample(m, s)
      BY <1>1, <1>3, <1>4, <1>5
    <2>2. QED
      BY <2>1, SampleRecorded
  <1>7. g \in Seq(Moments)
    BY <1>1, <1>3
  <1>8. Timed(g)
    BY <1>1, <1>3, TimedAdds
  <1>9. SamplesAt(g, Append(at, Len(h) + 1)) /\ KeepsSamples(g, Append(at, Len(h) + 1), q)
    BY <1>1, <1>2, <1>3, SamplesAdd, KeepsTheSample
  <1>10. Judges(g, q)
    <2>1. /\ OfKind(g, "restart") = OfKind(h, "restart")
          /\ OfKind(g, "restore") = OfKind(h, "restore")
      BY <1>1, <1>3, OfKindAdds
    <2>2. /\ m.restarts = Cardinality(OfKind(h, "restart"))
          /\ p.restores = Cardinality(OfKind(h, "restore"))
          /\ m.violations = <<>> <=> \A i \in OfKind(h, "sample") : InBounds(h[i])
          /\ p.a1 = <<>> <=> \A i \in OfKind(h, "restore") : h[i].equivalent
          /\ Greatest(m.maxTail, TailsOf(h)) /\ Greatest(m.maxBudget, BudgetsOf(h))
      BY <1>1, <1>3 DEF Judges
    <2>3. /\ (\A i \in OfKind(g, "sample") : InBounds(g[i]))
               <=> InBounds(s) /\ \A i \in OfKind(h, "sample") : InBounds(h[i])
          /\ (\A i \in OfKind(g, "restore") : g[i].equivalent)
               <=> \A i \in OfKind(h, "restore") : h[i].equivalent
      BY <1>1, <1>3, OfAllAdds
    <2>4. TailsOf(g) = TailsOf(h) \cup {s.tail} /\ BudgetsOf(g) = BudgetsOf(h) \cup {Budget(s)}
      BY <1>1, <1>3, MaximaAdd
    <2>5. s.tail \in Nat /\ Budget(s) \in Nat
      <3>1. s.tail \in Nat
        BY MomentsRead DEF Readable
      <3>2. QED
        BY <3>1, BudgetIs
    <2>6. Greatest(r.maxTail, TailsOf(g)) /\ Greatest(r.maxBudget, BudgetsOf(g))
      BY <1>6, <2>2, <2>4, <2>5, GreatestAdds
    <2>7. r.restarts = Cardinality(OfKind(g, "restart"))
      BY <1>6, <2>1, <2>2
    <2>8. q.restores = Cardinality(OfKind(g, "restore"))
      BY <1>4, <2>1, <2>2
    <2>9. r.violations = <<>> <=> \A i \in OfKind(g, "sample") : InBounds(g[i])
      BY <1>6, <2>2, <2>3, Zenon
    <2>10. q.a1 = <<>> <=> \A i \in OfKind(g, "restore") : g[i].equivalent
      BY <1>4, <2>2, <2>3, Zenon
    <2>11. QED
      BY <1>5, <2>6, <2>7, <2>8, <2>9, <2>10, Zenon DEF Judges
  <1>11. SoakFacts(g, q)
    BY <1>4, <1>7, <1>8, <1>9, <1>10, Zenon DEF SoakFacts
  <1>12. QED
    BY <1>3, <1>11

LEMMA SoakRestarts ==
  ASSUME NEW h, NEW p, SoakFacts(h, p), NEW s \in Moments, s.kind = "restart",
         h # <<>> => h[Len(h)].at <= s.at
  PROVE  SoakFacts(Append(h, s), [p EXCEPT !.inner = NoteRestart(@)])
  <1>1. h \in Seq(Moments) /\ p \in SoakPrograms /\ Timed(h) /\ Judges(h, p)
    BY DEF SoakFacts
  <1>2. PICK at : SamplesAt(h, at) /\ KeepsSamples(h, at, p)
    BY DEF SoakFacts
  <1>3. PICK g, q : g = Append(h, s) /\ q = [p EXCEPT !.inner = NoteRestart(@)]
    OBVIOUS
  <1>4. /\ q \in SoakPrograms
        /\ q.inner \in Monitors /\ q.inner.restarts = p.inner.restarts + 1
        /\ q.inner.samples = p.inner.samples /\ q.inner.violations = p.inner.violations
        /\ q.inner.maxTail = p.inner.maxTail /\ q.inner.maxBudget = p.inner.maxBudget
        /\ q.inner.growth = p.inner.growth
        /\ q.resources = p.resources /\ q.a1 = p.a1 /\ q.restores = p.restores
        /\ q.firstMs = p.firstMs /\ q.lastMs = p.lastMs
    BY <1>1, <1>3, RestartNoted
  <1>5. g \in Seq(Moments) /\ s.kind # "sample"
    BY <1>1, <1>3
  <1>6. Timed(g)
    BY <1>1, <1>3, TimedAdds
  <1>7. SamplesAt(g, at)
    BY <1>1, <1>2, <1>3, <1>5, SamplesAdd
  <1>8. KeepsSamples(g, at, q)
    BY <1>1, <1>2, <1>3, <1>4, KeepsTheOthers
  <1>9. Judges(g, q)
    <2>1. /\ Cardinality(OfKind(g, "restart")) = Cardinality(OfKind(h, "restart")) + 1
          /\ OfKind(g, "restore") = OfKind(h, "restore")
      BY <1>1, <1>3, OfKindAdds
    <2>2. /\ p.inner.restarts = Cardinality(OfKind(h, "restart"))
          /\ p.restores = Cardinality(OfKind(h, "restore"))
          /\ p.inner.violations = <<>> <=> \A i \in OfKind(h, "sample") : InBounds(h[i])
          /\ p.a1 = <<>> <=> \A i \in OfKind(h, "restore") : h[i].equivalent
          /\ Greatest(p.inner.maxTail, TailsOf(h)) /\ Greatest(p.inner.maxBudget, BudgetsOf(h))
      BY <1>1 DEF Judges
    <2>3. /\ (\A i \in OfKind(g, "sample") : InBounds(g[i]))
               <=> \A i \in OfKind(h, "sample") : InBounds(h[i])
          /\ (\A i \in OfKind(g, "restore") : g[i].equivalent)
               <=> \A i \in OfKind(h, "restore") : h[i].equivalent
      BY <1>1, <1>3, <1>5, OfAllAdds
    <2>4. TailsOf(g) = TailsOf(h) /\ BudgetsOf(g) = BudgetsOf(h)
      BY <1>1, <1>3, <1>5, MaximaAdd
    <2>5. q.inner.violations = <<>> <=> \A i \in OfKind(g, "sample") : InBounds(g[i])
      BY <1>4, <2>2, <2>3, Zenon
    <2>6. q.a1 = <<>> <=> \A i \in OfKind(g, "restore") : g[i].equivalent
      BY <1>4, <2>2, <2>3, Zenon
    <2>7. /\ q.inner.restarts = Cardinality(OfKind(g, "restart"))
          /\ q.restores = Cardinality(OfKind(g, "restore"))
      BY <1>4, <2>1, <2>2
    <2>8. Greatest(q.inner.maxTail, TailsOf(g)) /\ Greatest(q.inner.maxBudget, BudgetsOf(g))
      BY <1>4, <2>2, <2>4
    <2>9. QED
      BY <2>5, <2>6, <2>7, <2>8, Zenon DEF Judges
  <1>10. SoakFacts(g, q)
    BY <1>4, <1>5, <1>6, <1>7, <1>8, <1>9, Zenon DEF SoakFacts
  <1>11. QED
    BY <1>3, <1>10

LEMMA SoakRestores ==
  ASSUME NEW h, NEW p, SoakFacts(h, p), NEW s \in Moments, s.kind = "restore",
         h # <<>> => h[Len(h)].at <= s.at
  PROVE  SoakFacts(Append(h, s), CheckRestoreEquivalence(p, s.equivalent))
  <1>1. h \in Seq(Moments) /\ p \in SoakPrograms /\ Timed(h) /\ Judges(h, p)
    BY DEF SoakFacts
  <1>2. PICK at : SamplesAt(h, at) /\ KeepsSamples(h, at, p)
    BY DEF SoakFacts
  <1>3. PICK g, q : g = Append(h, s) /\ q = CheckRestoreEquivalence(p, s.equivalent)
    OBVIOUS
  <1>4. s.equivalent \in BOOLEAN
    BY MomentsRead DEF Readable
  <1>5. /\ q \in SoakPrograms
        /\ q.restores = p.restores + 1
        /\ q.a1 = <<>> <=> p.a1 = <<>> /\ s.equivalent
        /\ q.inner = p.inner /\ q.resources = p.resources
        /\ q.firstMs = p.firstMs /\ q.lastMs = p.lastMs
    BY <1>1, <1>3, <1>4, RestoreCompared
  <1>6. g \in Seq(Moments) /\ s.kind # "sample"
    BY <1>1, <1>3
  <1>7. Timed(g)
    BY <1>1, <1>3, TimedAdds
  <1>8. SamplesAt(g, at)
    BY <1>1, <1>2, <1>3, <1>6, SamplesAdd
  <1>9. KeepsSamples(g, at, q)
    <2>1. q.inner.samples = p.inner.samples /\ q.inner.growth = p.inner.growth
      BY <1>5
    <2>2. QED
      BY <1>1, <1>2, <1>3, <1>5, <2>1, KeepsTheOthers
  <1>10. Judges(g, q)
    <2>1. /\ Cardinality(OfKind(g, "restore")) = Cardinality(OfKind(h, "restore")) + 1
          /\ OfKind(g, "restart") = OfKind(h, "restart")
      BY <1>1, <1>3, OfKindAdds
    <2>2. /\ p.inner.restarts = Cardinality(OfKind(h, "restart"))
          /\ p.restores = Cardinality(OfKind(h, "restore"))
          /\ p.inner.violations = <<>> <=> \A i \in OfKind(h, "sample") : InBounds(h[i])
          /\ p.a1 = <<>> <=> \A i \in OfKind(h, "restore") : h[i].equivalent
          /\ Greatest(p.inner.maxTail, TailsOf(h)) /\ Greatest(p.inner.maxBudget, BudgetsOf(h))
      BY <1>1 DEF Judges
    <2>3. /\ (\A i \in OfKind(g, "sample") : InBounds(g[i]))
               <=> \A i \in OfKind(h, "sample") : InBounds(h[i])
          /\ (\A i \in OfKind(g, "restore") : g[i].equivalent)
               <=> s.equivalent /\ \A i \in OfKind(h, "restore") : h[i].equivalent
      BY <1>1, <1>3, <1>6, OfAllAdds
    <2>4. TailsOf(g) = TailsOf(h) /\ BudgetsOf(g) = BudgetsOf(h)
      BY <1>1, <1>3, <1>6, MaximaAdd
    <2>5. q.inner.violations = <<>> <=> \A i \in OfKind(g, "sample") : InBounds(g[i])
      BY <1>5, <2>2, <2>3, Zenon
    <2>6. q.a1 = <<>> <=> \A i \in OfKind(g, "restore") : g[i].equivalent
      BY <1>5, <2>2, <2>3, Zenon
    <2>7. /\ q.inner.restarts = Cardinality(OfKind(g, "restart"))
          /\ q.restores = Cardinality(OfKind(g, "restore"))
      BY <1>5, <2>1, <2>2
    <2>8. Greatest(q.inner.maxTail, TailsOf(g)) /\ Greatest(q.inner.maxBudget, BudgetsOf(g))
      BY <1>5, <2>2, <2>4
    <2>9. QED
      BY <2>5, <2>6, <2>7, <2>8, Zenon DEF Judges
  <1>11. SoakFacts(g, q)
    BY <1>5, <1>6, <1>7, <1>8, <1>9, <1>10, Zenon DEF SoakFacts
  <1>12. QED
    BY <1>3, <1>11

(* A soak is at all times what its history says, and is reported so. *)
SoakFollow ==
  /\ subject = "none" => given = <<>>
  /\ subject = "soak" => /\ given # <<>>
                         /\ SoakFacts(given, answer.program)
                         /\ answer.report = ProgramReport(answer.program)

LEMMA SoakFollowHolds == ObservingSpec => []SoakFollow
  <1>1. NothingAsked => SoakFollow
    BY DEF NothingAsked, SoakFollow
  <1>2. SoakFollow /\ [Observe \/ Elsewhere]_asked => SoakFollow'
    <2> SUFFICES ASSUME SoakFollow, [Observe \/ Elsewhere]_asked PROVE SoakFollow'
      OBVIOUS
    <2>1. CASE Planning
      BY <2>1 DEF Planning, Put, SoakFollow
    <2>2. CASE Comparing
      BY <2>2 DEF Comparing, Put, SoakFollow
    <2>3. CASE Watching
      BY <2>3 DEF Watching, Put, SoakFollow
    <2>4. CASE Replaying
      BY <2>4 DEF Replaying, Put, SoakFollow
    <2>5. CASE Soaking
      <3>1. PICK p : p = IF given = <<>> THEN NewProgram ELSE answer.program
        OBVIOUS
      <3>2. SoakFacts(given, p)
        <4>1. CASE given = <<>>
          BY <3>1, <4>1, SoakBegins
        <4>2. CASE given # <<>>
          <5>1. subject = "soak"
            BY <2>5, <4>2 DEF Soaking, SoakFollow
          <5>2. QED
            BY <3>1, <4>2, <5>1 DEF SoakFollow
        <4>3. QED
          BY <4>1, <4>2
      <3>3. PICK step \in SoakSteps :
              LET at == (IF given = <<>> THEN 1 ELSE Last(given).at) + step.dt
                  s == [f \in DOMAIN step \cup {"at"} |-> IF f = "at" THEN at ELSE step[f]]
                  after == CASE s.kind = "sample" -> SampleResources(Record(p, s), s)
                             [] s.kind = "restart" -> [p EXCEPT !.inner = NoteRestart(@)]
                             [] s.kind = "restore" -> CheckRestoreEquivalence(p, s.equivalent)
              IN  Put("soak", Append(given, s), [program |-> after, report |-> ProgramReport(after)])
        BY <2>5, <3>1, Zenon DEF Soaking
      <3>4. PICK now : now = IF given = <<>> THEN 1 ELSE Last(given).at
        OBVIOUS
      <3>5. PICK at : at = now + step.dt
        OBVIOUS
      <3>6. PICK s : s = Moment(step, at)
        OBVIOUS
      <3>7. PICK after : after = CASE s.kind = "sample" -> SampleResources(Record(p, s), s)
                                   [] s.kind = "restart" -> [p EXCEPT !.inner = NoteRestart(@)]
                                   [] s.kind = "restore" -> CheckRestoreEquivalence(p, s.equivalent)
        OBVIOUS
      <3>8. Put("soak", Append(given, s), [program |-> after, report |-> ProgramReport(after)])
        BY <3>3, <3>4, <3>5, <3>6, <3>7, Zenon DEF Moment
      <3>9. given \in Seq(Moments)
        BY <3>2 DEF SoakFacts
      <3>10. now \in Nat \ {0} /\ (given # <<>> => now = given[Len(given)].at)
        <4>1. CASE given = <<>>
          BY <3>4, <4>1
        <4>2. CASE given # <<>>
          <5>1. now = given[Len(given)].at
            BY <3>4, <4>2 DEF Last
          <5>2. given[Len(given)] \in Moments
            BY <3>9, <4>2
          <5>3. QED
            BY <5>1, <5>2, MomentsRead DEF Readable
        <4>3. QED
          BY <4>1, <4>2
      <3>11. step \in SoakStep /\ step.dt \in Nat
        <4>1. SoakSteps \subseteq SoakStep
          BY ObservingAssumption, Zenon
        <4>2. QED
          BY <4>1 DEF SoakStep
      <3>12. at \in Nat \ {0} /\ now <= at
        BY <3>5, <3>10, <3>11
      <3>13. s \in Moments /\ s.at = at /\ Readable(s)
        BY <3>6, <3>11, <3>12, MomentReads DEF Moments
      <3>14. given # <<>> => given[Len(given)].at <= s.at
        BY <3>10, <3>12, <3>13
      <3>15. SoakFacts(Append(given, s), after)
        <4>1. CASE s.kind = "sample"
          <5>1. after = SampleResources(Record(p, s), s)
            BY <3>7, <4>1
          <5>2. QED
            BY <3>2, <3>13, <3>14, <4>1, <5>1, SoakSamples
        <4>2. CASE s.kind = "restart"
          <5>1. after = [p EXCEPT !.inner = NoteRestart(@)]
            BY <3>7, <4>2
          <5>2. QED
            BY <3>2, <3>13, <3>14, <4>2, <5>1, SoakRestarts
        <4>3. CASE s.kind = "restore"
          <5>1. after = CheckRestoreEquivalence(p, s.equivalent)
            BY <3>7, <4>3
          <5>2. QED
            BY <3>2, <3>13, <3>14, <4>3, <5>1, SoakRestores
        <4>4. QED
          BY <3>13, <4>1, <4>2, <4>3 DEF Readable
      <3>16. /\ subject' = "soak" /\ given' = Append(given, s)
             /\ answer'.program = after /\ answer'.report = ProgramReport(after)
        BY <3>8 DEF Put
      <3>17. Append(given, s) # <<>>
        <4>1. PICK longer : longer = Append(given, s)
          OBVIOUS
        <4>2. Len(longer) = Len(given) + 1 /\ Len(given) \in Nat
          BY <3>9, <3>13, <4>1
        <4>3. longer # <<>>
          BY <4>2
        <4>4. QED
          BY <4>1, <4>3
      <3>18. QED
        BY <3>15, <3>16, <3>17 DEF SoakFollow
    <2>6. CASE Elsewhere
      BY <2>6 DEF Elsewhere, SoakFollow
    <2>7. CASE UNCHANGED asked
      BY <2>7 DEF asked, SoakFollow
    <2>8. QED
      BY <2>1, <2>2, <2>3, <2>4, <2>5, <2>6, <2>7 DEF Observe
  <1>3. QED
    BY <1>1, <1>2, PTL DEF ObservingSpec

(* The first and the last sample, and those that the GrowthWatch still has. *)
LEMMA FirstAndLast ==
  ASSUME NEW h \in Seq(Moments), NEW at, SamplesAt(h, at), Len(at) >= 1
  PROVE  LET samples == OfKind(h, "sample") IN
         /\ Min(samples) = at[1] /\ Max(samples) = at[Len(at)]
         /\ at[1] \in 1..Len(h) /\ at[Len(at)] \in 1..Len(h) /\ at[1] <= at[Len(at)]
  <1>1. PICK samples, m, n : samples = OfKind(h, "sample") /\ m = Len(at) /\ n = Len(h)
    OBVIOUS
  <1>2. /\ at \in Seq(Nat) /\ \A k \in DOMAIN at : at[k] \in samples
        /\ \A i \in samples : \E k \in DOMAIN at : at[k] = i
        /\ \A k, l \in DOMAIN at : k < l => at[k] < at[l]
    BY <1>1 DEF SamplesAt
  <1>3. m \in Nat /\ m >= 1 /\ DOMAIN at = 1..m /\ \A k \in 1..m : at[k] \in Nat
    BY <1>1, <1>2
  <1>4. n \in Nat /\ samples \in SUBSET (1..n)
    <2>1. n \in Nat /\ DOMAIN h = 1..n
      BY <1>1
    <2>2. QED
      BY <1>1, <2>1 DEF OfKind
  <1>5. 1 \in 1..m /\ m \in 1..m
    BY <1>3
  <1>6. \A i \in samples : at[1] <= i /\ i <= at[m]
    <2> SUFFICES ASSUME NEW i \in samples PROVE at[1] <= i /\ i <= at[m]
      OBVIOUS
    <2>1. PICK k \in 1..m : at[k] = i
      BY <1>2, <1>3
    <2>2. k \in Nat /\ 1 <= k /\ k <= m
      BY <1>3
    <2>3. at[1] \in Nat /\ at[k] \in Nat /\ at[m] \in Nat
      BY <1>3, <1>5
    <2>4. 1 < k => at[1] < at[k]
      BY <1>2, <1>3, <1>5
    <2>5. k < m => at[k] < at[m]
      BY <1>2, <1>3, <1>5
    <2>6. (1 < k \/ k = 1) /\ (k < m \/ k = m)
      BY <1>3, <2>2
    <2>7. QED
      BY <2>1, <2>3, <2>4, <2>5, <2>6
  <1>7. at[1] \in samples /\ at[m] \in samples
    BY <1>2, <1>3, <1>5
  <1>8. Min(samples) \in samples /\ \A y \in samples : Min(samples) <= y
    <2>1. samples \in SUBSET Nat /\ samples # {}
      BY <1>4, <1>7
    <2>2. QED
      BY <2>1, MinIsLeast
  <1>9. Max(samples) \in samples /\ \A y \in samples : y <= Max(samples)
    <2>1. samples # {}
      BY <1>7
    <2>2. QED
      BY <1>4, <2>1, MaxOfInterval
  <1>10. \A y \in samples : y \in Nat
    BY <1>4
  <1>11. PICK low, high : low = Min(samples) /\ high = Max(samples)
    OBVIOUS
  <1>12. /\ low <= at[1] /\ at[1] <= low /\ low \in Nat /\ at[1] \in Nat
         /\ high <= at[m] /\ at[m] <= high /\ high \in Nat /\ at[m] \in Nat
    BY <1>6, <1>7, <1>8, <1>9, <1>10, <1>11
  <1>13. low = at[1] /\ high = at[m]
    BY <1>12
  <1>14. at[1] <= at[m] /\ at[1] \in 1..n /\ at[m] \in 1..n
    BY <1>4, <1>6, <1>7
  <1>15. QED
    BY <1>1, <1>11, <1>13, <1>14

LEMMA KeptAre ==
  ASSUME NEW h \in Seq(Moments), NEW at, SamplesAt(h, at), Len(at) >= 1, NEW l \in Nat,
         l = IF Len(at) < GrowthCap THEN Len(at) ELSE GrowthCap
  PROVE  LET samples == OfKind(h, "sample")
             kept == {i \in samples : Cardinality({j \in samples : j >= i}) <= GrowthCap}
         IN  /\ Cardinality(kept) = l
             /\ Min(kept) = at[Len(at) - l + 1]
             /\ Len(at) - l + 1 \in 1..Len(at)
  <1>1. PICK samples, m, c :
          samples = OfKind(h, "sample") /\ m = Len(at) /\ c = m - l + 1
    OBVIOUS
  <1>2. /\ at \in Seq(Nat) /\ \A k \in DOMAIN at : at[k] \in samples
        /\ \A i \in samples : \E k \in DOMAIN at : at[k] = i
        /\ \A k, i \in DOMAIN at : k < i => at[k] < at[i]
        /\ \A k \in DOMAIN at : Cardinality({j \in samples : j >= at[k]}) = m - k + 1
    BY <1>1 DEF SamplesAt
  <1>3. m \in Nat /\ m >= 1 /\ DOMAIN at = 1..m /\ \A k \in 1..m : at[k] \in Nat
    BY <1>1, <1>2
  <1>4. GrowthCap \in Nat /\ GrowthCap >= 2
    BY SoakAssumption
  <1>5. c \in 1..m /\ m - c + 1 = l
    BY <1>1, <1>3, <1>4
  <1>6. PICK kept : kept = {i \in samples : Cardinality({j \in samples : j >= i}) <= GrowthCap}
    OBVIOUS
  <1>7. \A k \in 1..m : at[k] \in kept <=> k >= c
    <2> SUFFICES ASSUME NEW k \in 1..m PROVE at[k] \in kept <=> k >= c
      OBVIOUS
    <2>1. Cardinality({j \in samples : j >= at[k]}) = m - k + 1 /\ at[k] \in samples
      BY <1>2, <1>3
    <2>2. at[k] \in kept <=> m - k + 1 <= GrowthCap
      BY <1>6, <2>1
    <2>3. m - k + 1 <= GrowthCap <=> k >= c
      BY <1>1, <1>3, <1>4
    <2>4. QED
      BY <2>2, <2>3
  <1>8. \A k \in 1..m : at[k] >= at[c] <=> k >= c
    <2> SUFFICES ASSUME NEW k \in 1..m PROVE at[k] >= at[c] <=> k >= c
      OBVIOUS
    <2>1. k < c => at[k] < at[c]
      BY <1>2, <1>3, <1>5
    <2>2. c < k => at[c] < at[k]
      BY <1>2, <1>3, <1>5
    <2>3. k \in Nat /\ c \in Nat /\ at[k] \in Nat /\ at[c] \in Nat
      BY <1>3, <1>5
    <2>4. k < c \/ c < k \/ k = c
      BY <2>3
    <2>5. QED
      BY <2>1, <2>2, <2>3, <2>4
  <1>9. kept = {j \in samples : j >= at[c]}
    <2>1. \A i \in samples : i \in kept <=> i >= at[c]
      <3> SUFFICES ASSUME NEW i \in samples PROVE i \in kept <=> i >= at[c]
        OBVIOUS
      <3>1. PICK k \in 1..m : at[k] = i
        BY <1>2, <1>3
      <3>2. QED
        BY <1>7, <1>8, <3>1
    <2>2. QED
      BY <1>6, <2>1
  <1>10. Cardinality(kept) = l
    BY <1>2, <1>3, <1>5, <1>9
  <1>11. at[c] \in kept /\ kept \in SUBSET Nat
    <2>1. samples \subseteq Nat
      BY <1>2, <1>3
    <2>2. at[c] \in samples /\ at[c] >= at[c]
      <3>1. at[c] \in Nat /\ at[c] \in samples
        BY <1>2, <1>3, <1>5
      <3>2. QED
        BY <3>1
    <2>3. QED
      BY <1>9, <2>1, <2>2
  <1>12. PICK low : low = Min(kept)
    OBVIOUS
  <1>13. low \in kept /\ \A y \in kept : low <= y
    <2>1. kept # {}
      BY <1>11
    <2>2. QED
      BY <1>11, <1>12, <2>1, MinIsLeast
  <1>14. low <= at[c] /\ low >= at[c] /\ low \in Nat /\ at[c] \in Nat
    BY <1>9, <1>11, <1>13
  <1>15. low = at[c]
    BY <1>14
  <1>16. QED
    BY <1>1, <1>5, <1>6, <1>10, <1>12, <1>15

(* From the first sample to the last. *)
SpanOf(h) ==
  LET samples == OfKind(h, "sample")
  IN  IF Cardinality(samples) = 0 THEN 0 ELSE h[Max(samples)].at - h[Min(samples)].at
FastIn(h, field, ceil) ==
  LET samples == OfKind(h, "sample")
  IN  /\ Cardinality(samples) >= 2
      /\ h[Max(samples)][field] - h[Min(samples)][field] > ceil * Max({1, SpanOf(h)})

LEMMA SpanIs ==
  ASSUME NEW h, NEW p, SoakFacts(h, p), NEW at, SamplesAt(h, at), KeepsSamples(h, at, p)
  PROVE  SpanOf(h) \in Nat /\ SpanOf(h) = AtLeast(0, p.lastMs - p.firstMs)
  <1>1. PICK m, span : m = Len(at) /\ span = SpanOf(h)
    OBVIOUS
  <1>2. h \in Seq(Moments) /\ Timed(h)
    BY DEF SoakFacts
  <1>3. m \in Nat /\ Cardinality(OfKind(h, "sample")) = m
    <2>1. at \in Seq(Nat)
      BY DEF SamplesAt
    <2>2. QED
      BY <1>1, <2>1 DEF SamplesAt
  <1>4. /\ p.firstMs = IF m = 0 THEN 0 ELSE h[at[1]].at
        /\ p.lastMs = IF m = 0 THEN 0 ELSE h[at[m]].at
    BY <1>1 DEF KeepsSamples
  <1>5. CASE m = 0
    BY <1>1, <1>3, <1>4, <1>5 DEF SpanOf, AtLeast
  <1>6. CASE m # 0
    <2>1. m >= 1
      BY <1>3, <1>6
    <2>2. /\ Min(OfKind(h, "sample")) = at[1] /\ Max(OfKind(h, "sample")) = at[m]
          /\ at[1] \in 1..Len(h) /\ at[m] \in 1..Len(h) /\ at[1] <= at[m]
      BY <1>1, <1>2, <2>1, FirstAndLast
    <2>3. span = h[at[m]].at - h[at[1]].at
      BY <1>1, <1>3, <1>6, <2>2 DEF SpanOf
    <2>4. h[at[1]] \in Moments /\ h[at[m]] \in Moments /\ DOMAIN h = 1..Len(h)
      BY <1>2, <2>2
    <2>5. h[at[1]].at \in Nat /\ h[at[m]].at \in Nat
      BY <2>4, MomentsRead DEF Readable
    <2>6. h[at[1]].at <= h[at[m]].at
      BY <1>2, <2>2, <2>4 DEF Timed
    <2>7. p.firstMs = h[at[1]].at /\ p.lastMs = h[at[m]].at
      BY <1>4, <1>6
    <2>8. QED
      BY <1>1, <2>3, <2>5, <2>6, <2>7 DEF AtLeast
  <1>7. QED
    BY <1>5, <1>6

LEMMA GrowsIs ==
  ASSUME NEW h, NEW p, SoakFacts(h, p), NEW at, SamplesAt(h, at), KeepsSamples(h, at, p),
         NEW field, NEW ceil
  PROVE  Grows(p.resources, field, ceil) <=> FastIn(h, field, ceil)
  <1>1. PICK m, span, rs : m = Len(at) /\ span = SpanOf(h) /\ rs = p.resources
    OBVIOUS
  <1>2. h \in Seq(Moments) /\ p \in SoakPrograms
    BY DEF SoakFacts
  <1>3. m \in Nat /\ Cardinality(OfKind(h, "sample")) = m
    <2>1. at \in Seq(Nat)
      BY DEF SamplesAt
    <2>2. QED
      BY <1>1, <2>1 DEF SamplesAt
  <1>4. rs \in Seq(Moments) /\ Len(rs) = m /\ \A k \in 1..m : rs[k] = h[at[k]]
    <2>1. rs \in Seq(Moments)
      BY <1>1, <1>2 DEF SoakPrograms
    <2>2. QED
      BY <1>1, <2>1 DEF KeepsSamples
  <1>5. CASE m < 2
    <2>1. ~(m >= 2)
      BY <1>3, <1>5
    <2>2. QED
      BY <1>1, <1>3, <1>4, <2>1 DEF Grows, FastIn
  <1>6. CASE m >= 2
    <2>1. m >= 1 /\ m # 0 /\ 1 \in 1..m /\ m \in 1..m
      BY <1>3, <1>6
    <2>2. Min(OfKind(h, "sample")) = at[1] /\ Max(OfKind(h, "sample")) = at[m]
      BY <1>1, <1>2, <2>1, FirstAndLast
    <2>3. rs[1] = h[at[1]] /\ Last(rs) = h[at[m]]
      BY <1>4, <2>1 DEF Last
    <2>4. span = h[at[m]].at - h[at[1]].at
      BY <1>1, <1>3, <2>1, <2>2 DEF SpanOf
    <2>5. span \in Nat
      BY <1>1, SpanIs
    <2>6. AtLeastOne(span) = Max({1, span})
      <3>1. Max({1, span}) = IF 1 >= span THEN 1 ELSE span
        BY <2>5, GreaterIs
      <3>2. QED
        BY <2>5, <3>1 DEF AtLeastOne
    <2>7. PICK widest : widest = Max({1, span})
      OBVIOUS
    <2>8. FastIn(h, field, ceil) <=> h[at[m]][field] - h[at[1]][field] > ceil * widest
      BY <1>1, <1>3, <1>6, <2>2, <2>7 DEF FastIn
    <2>9. Grows(rs, field, ceil) <=> h[at[m]][field] - h[at[1]][field] > ceil * widest
      BY <1>4, <1>6, <2>3, <2>4, <2>6, <2>7 DEF Grows
    <2>10. QED
      BY <1>1, <2>8, <2>9
  <1>7. QED
    BY <1>3, <1>5, <1>6

(* What is reported of the rest of the run. *)
LEMMA SoakVerdictIs ==
  ASSUME NEW h, NEW p, SoakFacts(h, p)
  PROVE  ProgramReport(p).ok <=>
           /\ \A i \in OfKind(h, "sample") : InBounds(h[i])
           /\ \A i \in OfKind(h, "restore") : h[i].equivalent
           /\ SpanOf(h) >= TargetMs
           /\ ~FastIn(h, "fds", FdCeil) /\ ~FastIn(h, "disk", DiskCeil)
  <1>1. PICK at : SamplesAt(h, at) /\ KeepsSamples(h, at, p)
    BY DEF SoakFacts
  <1>2. p \in SoakPrograms /\ Judges(h, p) /\ p.a1 \in Seq(Classes)
    BY DEF SoakFacts, SoakPrograms
  <1>3. PICK duration, span : duration = AtLeast(0, p.lastMs - p.firstMs) /\ span = SpanOf(h)
    OBVIOUS
  <1>4. duration = span /\ span \in Nat
    BY <1>1, <1>3, SpanIs
  <1>5. TargetMs \in Nat
    BY SoakAssumption
  <1>6. (TargetMs = 0 \/ duration >= TargetMs) <=> span >= TargetMs
    BY <1>4, <1>5
  <1>7. PICK a, b, c : /\ a = If(Grows(p.resources, "fds", FdCeil), "resource")
                       /\ b = If(Grows(p.resources, "disk", DiskCeil), "resource")
                       /\ c = If(~(TargetMs = 0 \/ duration >= TargetMs), "duration")
    OBVIOUS
  <1>8. a \in Seq(Classes) /\ (a = <<>> <=> ~FastIn(h, "fds", FdCeil))
    <2>1. Grows(p.resources, "fds", FdCeil) <=> FastIn(h, "fds", FdCeil)
      BY <1>1, GrowsIs
    <2>2. a \in Seq(Classes) /\ (a = <<>> <=> ~Grows(p.resources, "fds", FdCeil))
      BY <1>7, ClassIsList DEF If, Classes
    <2>3. QED
      BY <2>1, <2>2
  <1>9. b \in Seq(Classes) /\ (b = <<>> <=> ~FastIn(h, "disk", DiskCeil))
    <2>1. Grows(p.resources, "disk", DiskCeil) <=> FastIn(h, "disk", DiskCeil)
      BY <1>1, GrowsIs
    <2>2. b \in Seq(Classes) /\ (b = <<>> <=> ~Grows(p.resources, "disk", DiskCeil))
      BY <1>7, ClassIsList DEF If, Classes
    <2>3. QED
      BY <2>1, <2>2
  <1>10. c \in Seq(Classes) /\ (c = <<>> <=> span >= TargetMs)
    <2>1. c \in Seq(Classes) /\ (c = <<>> <=> (TargetMs = 0 \/ duration >= TargetMs))
      BY <1>7, ClassIsList DEF If, Classes
    <2>2. QED
      BY <1>6, <2>1
  <1>11. p.a1 \o a \in Seq(Classes) /\ (p.a1 \o a = <<>> <=> p.a1 = <<>> /\ a = <<>>)
    BY <1>2, <1>8, BothEmpty
  <1>12. p.a1 \o a \o b \in Seq(Classes) /\ (p.a1 \o a \o b = <<>> <=> p.a1 \o a = <<>> /\ b = <<>>)
    BY <1>9, <1>11, BothEmpty
  <1>13. p.a1 \o a \o b \o c = <<>> <=> p.a1 \o a \o b = <<>> /\ c = <<>>
    BY <1>10, <1>12, BothEmpty
  <1>14. ProgramReport(p).ok <=> /\ p.inner.violations = <<>>
                                 /\ p.a1 \o a \o b \o c = <<>>
                                 /\ TargetMs = 0 \/ duration >= TargetMs
    BY <1>3, <1>7 DEF ProgramReport, MonitorReport
  <1>15. /\ p.inner.violations = <<>> <=> \A i \in OfKind(h, "sample") : InBounds(h[i])
         /\ p.a1 = <<>> <=> \A i \in OfKind(h, "restore") : h[i].equivalent
    BY <1>2 DEF Judges
  <1>16. QED
    BY <1>3, <1>6, <1>8, <1>9, <1>10, <1>11, <1>12, <1>13, <1>14, <1>15, Zenon

(* The samples that GrowthWatch still has. *)
KeptOf(h) ==
  LET samples == OfKind(h, "sample")
  IN  {i \in samples : Cardinality({j \in samples : j >= i}) <= GrowthCap}

LEMMA GrowthIs ==
  ASSUME NEW h, NEW p, SoakFacts(h, p), Cardinality(OfKind(h, "sample")) >= 2
  PROVE  LET last == h[Max(OfKind(h, "sample"))]
             oldest == h[Min(KeptOf(h))]
             s == last.at - oldest.at
         IN  GrowthRates(p.inner.growth) =
               [samples |-> Cardinality(KeptOf(h)), span |-> s,
                bytes |-> IF s > 0 THEN last.wal - oldest.wal ELSE 0]
  <1>1. PICK at : SamplesAt(h, at) /\ KeepsSamples(h, at, p)
    BY DEF SoakFacts
  <1>2. PICK m, buf, l, kept : /\ m = Len(at) /\ buf = p.inner.growth /\ l = Len(buf)
                               /\ kept = KeptOf(h)
    OBVIOUS
  <1>3. h \in Seq(Moments) /\ buf \in Seq(Moments)
    BY <1>2 DEF SoakFacts, SoakPrograms, Monitors
  <1>4. m \in Nat /\ m >= 2 /\ m >= 1
    <2>1. at \in Seq(Nat)
      BY <1>1 DEF SamplesAt
    <2>2. m = Cardinality(OfKind(h, "sample"))
      BY <1>1, <1>2 DEF SamplesAt
    <2>3. m \in Nat
      BY <1>2, <2>1
    <2>4. QED
      BY <2>2, <2>3
  <1>5. /\ l = (IF m < GrowthCap THEN m ELSE GrowthCap)
        /\ \A j \in 1..l : buf[j] = h[at[m - l + j]]
    BY <1>1, <1>2 DEF KeepsSamples
  <1>6. GrowthCap \in Nat /\ GrowthCap >= 2
    BY SoakAssumption
  <1>7. l \in Nat /\ l >= 2 /\ 1 \in 1..l /\ l \in 1..l /\ m - l + l = m
    BY <1>4, <1>5, <1>6
  <1>8. Cardinality(kept) = l /\ Min(kept) = at[m - l + 1]
    BY <1>1, <1>2, <1>3, <1>4, <1>5, <1>7, KeptAre DEF KeptOf
  <1>9. Max(OfKind(h, "sample")) = at[m]
    BY <1>1, <1>2, <1>3, <1>4, FirstAndLast
  <1>10. PICK last, oldest : last = h[at[m]] /\ oldest = h[at[m - l + 1]]
    OBVIOUS
  <1>11. buf[1] = oldest /\ buf[l] = last
    BY <1>5, <1>7, <1>10
  <1>12. Last(buf) = last
    BY <1>2, <1>11 DEF Last
  <1>13. ~(Len(buf) < 2) /\ Len(buf) = l
    BY <1>2, <1>7
  <1>14. GrowthRates(buf) = [samples |-> l, span |-> last.at - oldest.at,
                             bytes |-> IF last.at - oldest.at > 0 THEN last.wal - oldest.wal ELSE 0]
    BY <1>11, <1>12, <1>13 DEF GrowthRates
  <1>15. last = h[Max(OfKind(h, "sample"))] /\ oldest = h[Min(kept)]
    BY <1>8, <1>9, <1>10
  <1>16. QED
    BY <1>2, <1>8, <1>14, <1>15

LEMMA SoakIsReported ==
  ASSUME NEW h, NEW p, SoakFacts(h, p)
  PROVE  ReportsTheRun(h, ProgramReport(p))
  <1>1. PICK report : report = ProgramReport(p)
    OBVIOUS
  <1>2. report.ok <=>
           /\ \A i \in OfKind(h, "sample") : InBounds(h[i])
           /\ \A i \in OfKind(h, "restore") : h[i].equivalent
           /\ SpanOf(h) >= TargetMs
           /\ ~FastIn(h, "fds", FdCeil) /\ ~FastIn(h, "disk", DiskCeil)
    BY <1>1, SoakVerdictIs
  <1>3. /\ report.restores = p.restores
        /\ report.base.samples = p.inner.samples /\ report.base.restarts = p.inner.restarts
        /\ report.base.maxTail = p.inner.maxTail /\ report.base.maxBudget = p.inner.maxBudget
        /\ report.base.growth = GrowthRates(p.inner.growth)
    BY <1>1 DEF ProgramReport, MonitorReport
  <1>4. Judges(h, p)
    BY DEF SoakFacts
  <1>5. p.inner.samples = Cardinality(OfKind(h, "sample"))
    <2>1. PICK at : SamplesAt(h, at) /\ KeepsSamples(h, at, p)
      BY DEF SoakFacts
    <2>2. QED
      BY <2>1 DEF SamplesAt, KeepsSamples
  <1>6. /\ report.base.restarts = Cardinality(OfKind(h, "restart"))
        /\ report.restores = Cardinality(OfKind(h, "restore"))
        /\ report.base.samples = Cardinality(OfKind(h, "sample"))
    BY <1>3, <1>4, <1>5 DEF Judges
  <1>7. report.base.maxTail = Max(TailsOf(h)) /\ report.base.maxBudget = Max(BudgetsOf(h))
    <2>1. Greatest(p.inner.maxTail, TailsOf(h)) /\ Greatest(p.inner.maxBudget, BudgetsOf(h))
      BY <1>4 DEF Judges
    <2>2. p.inner.maxTail \in TailsOf(h) /\ p.inner.maxBudget \in BudgetsOf(h)
      BY <2>1 DEF Greatest
    <2>3. p.inner.maxTail = Max(TailsOf(h)) /\ p.inner.maxBudget = Max(BudgetsOf(h))
      BY <2>1, <2>2, GreatestIsMax
    <2>4. QED
      BY <1>3, <2>3
  <1>8. Cardinality(OfKind(h, "sample")) >= 2 =>
          LET last == h[Max(OfKind(h, "sample"))]
              oldest == h[Min(KeptOf(h))]
              s == last.at - oldest.at
          IN  report.base.growth =
                [samples |-> Cardinality(KeptOf(h)), span |-> s,
                 bytes |-> IF s > 0 THEN last.wal - oldest.wal ELSE 0]
    BY <1>3, GrowthIs
  <1>9. ReportsTheRun(h, report)
    BY <1>2, <1>6, <1>7, <1>8, Zenon
       DEF ReportsTheRun, SpanOf, FastIn, KeptOf, TailsOf, BudgetsOf
  <1>10. QED
    BY <1>1, <1>9

LEMMA SoakTells == SoakFollow => SoakReportsTheRun
  BY SoakIsReported DEF SoakFollow, SoakReportsTheRun

-----------------------------------------------------------------------------
(* A receiver of the transitions of the alerts knows the conditions, drift is *)
(* found where the streams first differ, and a soak is reported as it was:   *)
(* the AlertManager, detectDrift and SoakProgram.report.                     *)
THEOREM MonitorIsRight == ObservingSpec => []MonitorTellsTheTruth
  <1>1. AlertsFollow /\ Computed /\ SoakFollow => MonitorTellsTheTruth
    BY AlertsTell, DriftTells, SoakTells DEF MonitorTellsTheTruth
  <1>2. QED
    BY <1>1, AlertsFollowHolds, ComputedHolds, SoakFollowHolds, PTL

-----------------------------------------------------------------------------
(* Publication: how FlattenSeq joins lists of at most one entry. *)

(* What FlattenSeq has joined after each of its lists. *)
Joins(m, f) ==
  /\ f[0] = <<>>
  /\ \A k \in 1..Len(m) : f[k] = f[k - 1] \o m[k]

IsFlat(m, g) ==
  g = [i \in 1..Len(m) |-> IF i = 1 THEN m[i] ELSE g[i - 1] \o m[i]]

LEMMA FlatExists ==
  ASSUME NEW T, NEW m \in Seq(Seq(T))
  PROVE  \E g : IsFlat(m, g)
  <1> DEFINE V == Seq(T)
             next == [p \in V \X V |-> p[1] \o p[2]]
  <1>1. Len(m) \in Nat /\ DOMAIN m = 1..Len(m) /\ \A i \in 1..Len(m) : m[i] \in V
    OBVIOUS
  <1>2. next \in [V \X V -> V] /\ \A v, w \in V : next[<<v, w>>] = v \o w
    <2>1. \A v, w \in V : v \o w \in V
      BY ConcatProperties
    <2> HIDE DEF V
    <2>2. QED
      BY <2>1
  <1>3. <<>> \in V
    OBVIOUS
  <1> HIDE DEF next
  <1>4. PICK h : ListFold(m, <<>>, next, h) /\ \A s \in SUBSET DOMAIN m : h[s] \in V
    BY <1>2, <1>3, ListFoldExists
  <1>5. \A s \in SUBSET DOMAIN m :
          h[s] = IF s = {} THEN <<>> ELSE next[<<h[s \ {Max(s)}], m[Max(s)]>>]
    BY <1>4 DEF ListFold
  <1> DEFINE g == [i \in 1..Len(m) |-> h[1..i]]
  <1>6. ASSUME NEW i \in 1..Len(m)
        PROVE  h[1..i] = IF i = 1 THEN m[i] ELSE h[1..(i - 1)] \o m[i]
    <2>1. /\ 1..i \in SUBSET DOMAIN m /\ 1..i # {}
          /\ Max(1..i) = i /\ (1..i) \ {i} = 1..(i - 1)
      BY <1>1, LastOfInterval
    <2>2. h[1..i] = next[<<h[1..(i - 1)], m[i]>>]
      BY <1>5, <2>1
    <2>3. 1..(i - 1) \in SUBSET DOMAIN m /\ h[1..(i - 1)] \in V
      <3>1. 1..(i - 1) \subseteq DOMAIN m
        BY <2>1
      <3>2. QED
        BY <1>4, <3>1
    <2>4. h[1..i] = h[1..(i - 1)] \o m[i]
      BY <1>1, <1>2, <2>2, <2>3
    <2>5. i = 1 => h[1..(i - 1)] = <<>>
      <3>1. i = 1 => 1..(i - 1) = {}
        OBVIOUS
      <3>2. {} \in SUBSET DOMAIN m
        OBVIOUS
      <3>3. h[{}] = <<>>
        BY <1>5, <3>2
      <3>4. QED
        BY <3>1, <3>3
    <2>6. <<>> \o m[i] = m[i]
      BY <1>1
    <2>7. QED
      BY <2>4, <2>5, <2>6
  <1>7. \A i \in 2..Len(m) : i - 1 \in 1..Len(m)
    BY <1>1
  <1>8. \A i \in 1..Len(m) : g[i] = IF i = 1 THEN m[i] ELSE g[i - 1] \o m[i]
    BY <1>1, <1>6, <1>7
  <1>9. IsFlat(m, g)
    BY <1>8 DEF IsFlat
  <1>10. QED
    BY <1>9

LEMMA FlattenIs ==
  ASSUME NEW T, NEW m \in Seq(Seq(T))
  PROVE  \E f : Joins(m, f) /\ FlattenSeq(m) = f[Len(m)]
  <1> DEFINE h == CHOOSE g : IsFlat(m, g)
             f == [k \in 0..Len(m) |-> IF k = 0 THEN <<>> ELSE h[k]]
  <1>1. Len(m) \in Nat /\ \A i \in 1..Len(m) : m[i] \in Seq(T)
    OBVIOUS
  <1>2. IsFlat(m, h)
    BY FlatExists
  <1>3. FlattenSeq(m) = IF Len(m) = 0 THEN m ELSE h[Len(m)]
    BY Zenon DEF FlattenSeq, IsFlat
  <1>4. \A i \in 1..Len(m) : h[i] = IF i = 1 THEN m[i] ELSE h[i - 1] \o m[i]
    BY <1>2 DEF IsFlat
  <1> HIDE DEF h
  <1>5. ASSUME NEW k \in 1..Len(m) PROVE f[k] = f[k - 1] \o m[k]
    <2>1. k \in 0..Len(m) /\ k - 1 \in 0..Len(m) /\ k # 0 /\ (k - 1 = 0 <=> k = 1)
      BY <1>1
    <2>2. f[k] = h[k] /\ f[k - 1] = IF k = 1 THEN <<>> ELSE h[k - 1]
      BY <2>1
    <2>3. <<>> \o m[k] = m[k]
      BY <1>1
    <2>4. QED
      BY <1>4, <2>2, <2>3
  <1>6. f[0] = <<>> /\ (Len(m) = 0 => m = <<>>)
    BY <1>1
  <1>7. FlattenSeq(m) = f[Len(m)]
    BY <1>1, <1>3, <1>6
  <1>8. QED
    BY <1>5, <1>6, <1>7 DEF Joins

(* The lists of m that are not empty, and how many of them come up to the    *)
(* i-th list.                                                                *)
Filled(m) == {j \in DOMAIN m : m[j] # <<>>}
Rank(m, i) == Cardinality({j \in Filled(m) : j <= i})

(* One more place adds one to the rank where its list is filled.             *)
LEMMA RankSteps ==
  ASSUME NEW m, NEW n \in Nat, DOMAIN m = 1..n, NEW k \in 1..n
  PROVE  /\ Rank(m, 0) = 0 /\ Rank(m, k - 1) \in Nat
         /\ Rank(m, k) = IF k \in Filled(m) THEN Rank(m, k - 1) + 1 ELSE Rank(m, k - 1)
         /\ Rank(m, n) = Cardinality(Filled(m))
  <1>1. PICK on : on = Filled(m)
    OBVIOUS
  <1>2. on \in SUBSET (1..n) /\ IsFiniteSet(1..n)
    BY <1>1, FS_Interval DEF Filled
  <1>3. PICK old, new : old = {j \in on : j <= k - 1} /\ new = {j \in on : j <= k}
    OBVIOUS
  <1>4. IsFiniteSet(old) /\ Cardinality(old) \in Nat
    BY <1>2, <1>3, FS_Subset, FS_CardinalityType
  <1>5. k \notin old /\ (k \in on => new = old \cup {k}) /\ (k \notin on => new = old)
    <2>1. \A j \in on : j <= k <=> j <= k - 1 \/ j = k
      BY <1>2
    <2>2. ~(k <= k - 1) /\ k <= k
      OBVIOUS
    <2>3. \A j : j \in old <=> j \in on /\ j <= k - 1
      BY <1>3
    <2>4. \A j : j \in new <=> j \in on /\ j <= k
      BY <1>3
    <2>5. k \notin old
      BY <2>2, <2>3
    <2>6. \A j : j \in new <=> j \in old \/ (j = k /\ k \in on)
      BY <2>1, <2>2, <2>3, <2>4
    <2>7. ASSUME k \in on PROVE new = old \cup {k}
      BY <2>6, <2>7
    <2>8. ASSUME k \notin on PROVE new = old
      BY <2>6, <2>8
    <2>9. QED
      BY <2>5, <2>7, <2>8
  <1>6. k \in on => Cardinality(new) = Cardinality(old) + 1
    BY <1>4, <1>5, FS_AddElement
  <1>7. {j \in on : j <= 0} = {} /\ {j \in on : j <= n} = on
    <2>1. \A j \in on : ~(j <= 0) /\ j <= n
      BY <1>2
    <2>2. QED
      BY <2>1
  <1>8. Rank(m, 0) = 0 /\ Rank(m, n) = Cardinality(on)
    BY <1>1, <1>7, FS_EmptySet DEF Rank
  <1>9. Rank(m, k) = Cardinality(new) /\ Rank(m, k - 1) = Cardinality(old)
    BY <1>1, <1>3 DEF Rank
  <1>10. QED
    BY <1>1, <1>4, <1>5, <1>6, <1>8, <1>9

(* What is joined of lists of at most one entry: the entries, by their rank. *)
JoinedTo(m, k, flat) ==
  /\ Len(flat) = Rank(m, k)
  /\ \A i \in Filled(m) : i <= k =>
       Rank(m, i) \in 1..Len(flat) /\ m[i] = <<flat[Rank(m, i)]>>
  /\ \A c \in 1..Len(flat) : \E i \in Filled(m) : i <= k /\ m[i] = <<flat[c]>>

LEMMA JoinsOne ==
  ASSUME NEW T, NEW m, NEW n \in Nat, DOMAIN m = 1..n, NEW k \in 1..n,
         m[k] = <<>> \/ \E x \in T : m[k] = <<x>>,
         NEW flat \in Seq(T), JoinedTo(m, k - 1, flat)
  PROVE  flat \o m[k] \in Seq(T) /\ JoinedTo(m, k, flat \o m[k])
  <1>1. Filled(m) \in SUBSET (1..n) /\ (k \in Filled(m) <=> m[k] # <<>>)
    BY DEF Filled
  <1>2. /\ Rank(m, k - 1) \in Nat
        /\ k \in Filled(m) => Rank(m, k) = Rank(m, k - 1) + 1
        /\ k \notin Filled(m) => Rank(m, k) = Rank(m, k - 1)
    BY RankSteps
  <1>3. \A i \in Filled(m) : i <= k <=> i <= k - 1 \/ i = k
    BY <1>1
  <1>4. CASE m[k] = <<>>
    <2>1. flat \o m[k] = flat
      BY <1>4
    <2>2. \A i \in Filled(m) : i <= k <=> i <= k - 1
      BY <1>1, <1>3, <1>4
    <2>3. Rank(m, k) = Rank(m, k - 1)
      BY <1>1, <1>2, <1>4
    <2>4. JoinedTo(m, k, flat)
      BY <2>2, <2>3 DEF JoinedTo
    <2>5. QED
      BY <2>1, <2>4
  <1>5. CASE m[k] # <<>>
    <2>1. PICK x \in T : m[k] = <<x>>
      BY <1>5
    <2>2. PICK new, r : new = flat \o m[k] /\ r = Len(flat)
      OBVIOUS
    <2>3. /\ new \in Seq(T) /\ r \in Nat /\ Len(new) = r + 1
          /\ \A c \in 1..r : new[c] = flat[c]
          /\ new[r + 1] = x
      BY <2>1, <2>2
    <2>4. k \in Filled(m) /\ Rank(m, k) = r + 1
      BY <1>1, <1>2, <1>5, <2>2 DEF JoinedTo
    <2>5. ASSUME NEW i \in Filled(m), i <= k
          PROVE  Rank(m, i) \in 1..Len(new) /\ m[i] = <<new[Rank(m, i)]>>
      <3>1. CASE i = k
        BY <2>1, <2>3, <2>4, <3>1
      <3>2. CASE i <= k - 1
        <4>1. Rank(m, i) \in 1..r /\ m[i] = <<flat[Rank(m, i)]>>
          BY <2>2, <3>2 DEF JoinedTo
        <4>2. QED
          BY <2>3, <4>1
      <3>3. QED
        BY <1>3, <2>5, <3>1, <3>2
    <2>6. ASSUME NEW c \in 1..Len(new)
          PROVE  \E i \in Filled(m) : i <= k /\ m[i] = <<new[c]>>
      <3>1. CASE c = r + 1
        <4>1. k <= k /\ m[k] = <<new[c]>>
          BY <2>1, <2>3, <3>1
        <4>2. QED
          BY <2>4, <4>1
      <3>2. CASE c \in 1..r
        <4>1. PICK i \in Filled(m) : i <= k - 1 /\ m[i] = <<flat[c]>>
          BY <2>2, <3>2 DEF JoinedTo
        <4>2. QED
          BY <1>3, <2>3, <3>2, <4>1
      <3>3. QED
        BY <2>3, <3>1, <3>2
    <2>7. JoinedTo(m, k, new)
      BY <2>3, <2>4, <2>5, <2>6 DEF JoinedTo
    <2>8. QED
      BY <2>2, <2>3, <2>7
  <1>6. QED
    BY <1>4, <1>5

(* The join of lists of at most one entry has the entries in their order.    *)
LEMMA FlattenSingles ==
  ASSUME NEW T, NEW m, NEW n \in Nat, DOMAIN m = 1..n, m \in Seq(Seq(T)),
         \A i \in 1..n : m[i] = <<>> \/ \E x \in T : m[i] = <<x>>
  PROVE  FlattenSeq(m) \in Seq(T) /\ JoinedTo(m, n, FlattenSeq(m))
  <1>1. PICK f : Joins(m, f) /\ FlattenSeq(m) = f[Len(m)]
    BY FlattenIs
  <1>2. Len(m) = n
    OBVIOUS
  <1> DEFINE G == {k \in Nat : k <= n => f[k] \in Seq(T) /\ JoinedTo(m, k, f[k])}
  <1>3. 0 \in G
    <2>1. f[0] = <<>>
      BY <1>1 DEF Joins
    <2>2. Rank(m, 0) = 0
      <3>1. {j \in Filled(m) : j <= 0} = {}
        BY DEF Filled
      <3>2. QED
        BY <3>1, FS_EmptySet DEF Rank
    <2>3. \A i \in Filled(m) : ~(i <= 0)
      BY DEF Filled
    <2>4. PICK none : none = <<>>
      OBVIOUS
    <2>5. none \in Seq(T) /\ Len(none) = 0
      BY <2>4
    <2>6. JoinedTo(m, 0, none)
      BY <2>2, <2>3, <2>5 DEF JoinedTo
    <2>7. QED
      BY <2>1, <2>4, <2>5, <2>6
  <1>4. ASSUME NEW k \in G PROVE k + 1 \in G
    <2>1. CASE k + 1 <= n
      <3>1. PICK l : l = k + 1
        OBVIOUS
      <3>2. l \in 1..n /\ l - 1 = k /\ k <= n
        BY <2>1, <3>1
      <3>3. f[k] \in Seq(T) /\ JoinedTo(m, l - 1, f[k])
        BY <3>2
      <3>4. f[l] = f[k] \o m[l]
        BY <1>1, <1>2, <3>2 DEF Joins
      <3>5. f[k] \o m[l] \in Seq(T) /\ JoinedTo(m, l, f[k] \o m[l])
        BY <3>2, <3>3, JoinsOne
      <3>6. l \in Nat /\ f[l] \in Seq(T) /\ JoinedTo(m, l, f[l])
        BY <3>2, <3>4, <3>5
      <3>7. l \in G
        BY <3>6
      <3>8. QED
        BY <3>1, <3>7
    <2>2. CASE ~(k + 1 <= n)
      <3>1. k + 1 \in Nat
        OBVIOUS
      <3>2. QED
        BY <2>2, <3>1
    <2>3. QED
      BY <2>1, <2>2
  <1>5. G = Nat
    <2> HIDE DEF G
    <2>1. G \in SUBSET Nat
      BY DEF G
    <2>2. QED
      BY <1>3, <1>4, <2>1, NatInductionSet
  <1>6. n \in G
    BY <1>5
  <1>7. QED
    BY <1>1, <1>2, <1>6

(* A sequence of results is refused if and only if one of them is. *)
LEMMA OrRefusedIs ==
  ASSUME NEW results, DOMAIN results \in SUBSET Nat, NEW otherwise
  PROVE  /\ (\E i \in DOMAIN results : IsRefused(results[i]))
              => IsRefused(OrRefused(results, otherwise))
         /\ (\A i \in DOMAIN results : ~IsRefused(results[i]))
              => OrRefused(results, otherwise) = otherwise
  <1>1. PICK refused : refused = {i \in DOMAIN results : IsRefused(results[i])}
    OBVIOUS
  <1>2. OrRefused(results, otherwise) =
          IF refused = {} THEN otherwise ELSE results[Min(refused)]
    BY <1>1 DEF OrRefused
  <1>3. refused \in SUBSET Nat /\ \A i \in refused : IsRefused(results[i])
    BY <1>1
  <1>4. refused # {} => Min(refused) \in refused
    BY <1>3, MinIsLeast
  <1>5. QED
    BY <1>1, <1>2, <1>3, <1>4

LEMMA CellIs ==
  ASSUME NEW items, DOMAIN items \in SUBSET Nat
  PROVE  /\ (\E i \in DOMAIN items : IsRefused(items[i])) => IsRefused(Cell(items))
         /\ (\A i \in DOMAIN items : ~IsRefused(items[i]))
              => Cell(items) = [kind |-> "cell", items |-> items] /\ ~IsRefused(Cell(items))
  <1>1. PICK c : c = [kind |-> "cell", items |-> items]
    OBVIOUS
  <1>2. ~IsRefused(c)
    BY <1>1 DEF IsRefused
  <1>3. Cell(items) = OrRefused(items, c)
    BY <1>1 DEF Cell
  <1>4. QED
    BY <1>1, <1>2, <1>3, OrRefusedIs

-----------------------------------------------------------------------------
(* Bodies: the forms that a message may have, and what cells do to them.    *)
FitBody(b) == b = NoBody \/ JsonBody(b)

BodyStorable(b) ==
  /\ b.kind # "opaque"
  /\ b.kind \in Transfers => /\ {b.to, b.response} \subseteq Addresses
                             /\ b.query_id \in 0..U64Max /\ b.forward \in 0..CoinsMax
  /\ b.kind = "jetton_transfer" => b.amount \in 1..CoinsMax

Bare(b) == IF b.kind \in Transfers THEN [b EXCEPT !.payload = "none"] ELSE b

(* What the cell of a body is, and what it reads as.                        *)
BodyKept(b) ==
  /\ IsRefused(BodyToCell(b)) <=> ~BodyStorable(b)
  /\ BodyStorable(b) => CellToBody(BodyToCell(b)) = Bare(b)

LEMMA ItemIsThere ==
  ASSUME NEW kind, NEW v, kind # "refused"
  PROVE  ~IsRefused(Item(kind, v)) /\ Item(kind, v).v = v
  BY DEF Item, IsRefused

LEMMA StoredIsThere ==
  ASSUME NEW n
  PROVE  /\ IsRefused(Uint64(n)) <=> n \notin 0..U64Max
         /\ n \in 0..U64Max => Uint64(n).v = n
         /\ IsRefused(Coins(n)) <=> n \notin 0..CoinsMax
         /\ n \in 0..CoinsMax => Coins(n).v = n
         /\ IsRefused(Raw(n)) <=> n \notin Addresses
         /\ n \in Addresses => Raw(n).v = n
         /\ ~IsRefused(Bit(n)) /\ Bit(n).v = n
  <1>1. \A code : IsRefused(Refused(code))
    BY DEF Refused, IsRefused
  <1>2. /\ ~IsRefused(Item("uint64", n)) /\ Item("uint64", n).v = n
        /\ ~IsRefused(Item("coins", n)) /\ Item("coins", n).v = n
        /\ ~IsRefused(Item("address", n)) /\ Item("address", n).v = n
        /\ ~IsRefused(Item("bit", n)) /\ Item("bit", n).v = n
    BY DEF Item, IsRefused
  <1>3. QED
    BY <1>1, <1>2 DEF Uint64, Coins, Raw, Bit

LEMMA NoBodyKept ==
  ASSUME NEW b, b = NoBody
  PROVE  BodyKept(b)
  <1>1. b.kind = "none" /\ b.kind \notin Transfers
    BY DEF NoBody, Transfers
  <1>2. PICK e : e = <<>>
    OBVIOUS
  <1>3. DOMAIN e = {}
    BY <1>2
  <1>4. Cell(e) = [kind |-> "cell", items |-> e] /\ ~IsRefused(Cell(e))
    BY <1>3, CellIs
  <1>5. BodyToCell(b) = Cell(e)
    BY <1>1, <1>2 DEF BodyToCell
  <1>6. BodyStorable(b)
    BY <1>1 DEF BodyStorable, Transfers
  <1>7. CellToBody(BodyToCell(b)) = NoBody
    BY <1>2, <1>4, <1>5 DEF CellToBody
  <1>8. Bare(b) = NoBody
    BY <1>1 DEF Bare
  <1>9. QED
    BY <1>4, <1>5, <1>6, <1>7, <1>8 DEF BodyKept

LEMMA OpaqueKept ==
  ASSUME NEW b, b = Opaque
  PROVE  BodyKept(b)
  <1>1. b.kind = "opaque"
    BY DEF Opaque
  <1>2. ~BodyStorable(b)
    BY <1>1 DEF BodyStorable
  <1>3. BodyToCell(b) = Refused("NO_COMMENT")
    BY <1>1 DEF BodyToCell
  <1>4. QED
    BY <1>2, <1>3 DEF BodyKept, IsRefused, Refused

LEMMA CommentKept ==
  ASSUME NEW b, b.kind = "comment", b = Comment(b.comment)
  PROVE  BodyKept(b)
  <1>1. b.kind \notin Transfers
    BY DEF Transfers
  <1>2. PICK q, i1, i2 : i1 = Item("op", "comment") /\ i2 = Item("string", b.comment)
                         /\ q = <<i1, i2>>
    OBVIOUS
  <1>3. ~IsRefused(i1) /\ i1.v = "comment" /\ ~IsRefused(i2) /\ i2.v = b.comment
    BY <1>2, ItemIsThere
  <1>4. DOMAIN q = 1..2 /\ q[1] = i1 /\ q[2] = i2 /\ q # <<>>
    BY <1>2
  <1>5. DOMAIN q \in SUBSET Nat /\ \A i \in DOMAIN q : ~IsRefused(q[i])
    <2>1. \A i \in 1..2 : i = 1 \/ i = 2
      OBVIOUS
    <2>2. QED
      BY <1>3, <1>4, <2>1
  <1>6. Cell(q) = [kind |-> "cell", items |-> q] /\ ~IsRefused(Cell(q))
    BY <1>5, CellIs
  <1>7. BodyToCell(b) = Cell(q)
    BY <1>2 DEF BodyToCell
  <1>8. BodyStorable(b)
    BY <1>1 DEF BodyStorable, Transfers
  <1>9. CellToBody(BodyToCell(b)) = Comment(b.comment)
    BY <1>3, <1>4, <1>6, <1>7 DEF CellToBody, Transfers
  <1>10. Bare(b) = b
    BY <1>1 DEF Bare
  <1>11. QED
    BY <1>6, <1>7, <1>8, <1>9, <1>10 DEF BodyKept

LEMMA JettonKept ==
  ASSUME NEW b, b.kind = "jetton_transfer", {b.query_id, b.amount, b.forward} \subseteq Int,
         b = [kind |-> b.kind, query_id |-> b.query_id, amount |-> b.amount, to |-> b.to,
              response |-> b.response, forward |-> b.forward, payload |-> b.payload]
  PROVE  BodyKept(b)
  <1>1. b.kind \in Transfers /\ b.kind # "opaque" /\ b.kind # "nft_transfer"
    BY DEF Transfers
  <1>2. BodyStorable(b) <=> /\ b.to \in Addresses /\ b.response \in Addresses
                            /\ b.query_id \in 0..U64Max /\ b.forward \in 0..CoinsMax
                            /\ b.amount \in 1..CoinsMax
    BY <1>1 DEF BodyStorable
  <1>3. PICK q, i1, i2, i3, i4, i5, i6, i7 :
          /\ i1 = Item("op", b.kind) /\ i2 = Uint64(b.query_id) /\ i3 = Coins(b.amount)
          /\ i4 = Raw(b.to) /\ i5 = Raw(b.response) /\ i6 = Bit(FALSE) /\ i7 = Coins(b.forward)
          /\ q = <<i1, i2, i3, i4, i5, i6, i7, i6>>
    OBVIOUS
  <1>4. /\ ~IsRefused(i1) /\ i1.v = b.kind
        /\ IsRefused(i2) <=> b.query_id \notin 0..U64Max
        /\ b.query_id \in 0..U64Max => i2.v = b.query_id
        /\ IsRefused(i3) <=> b.amount \notin 0..CoinsMax
        /\ b.amount \in 0..CoinsMax => i3.v = b.amount
        /\ IsRefused(i4) <=> b.to \notin Addresses
        /\ b.to \in Addresses => i4.v = b.to
        /\ IsRefused(i5) <=> b.response \notin Addresses
        /\ b.response \in Addresses => i5.v = b.response
        /\ ~IsRefused(i6) /\ i6.v = FALSE
        /\ IsRefused(i7) <=> b.forward \notin 0..CoinsMax
        /\ b.forward \in 0..CoinsMax => i7.v = b.forward
    BY <1>3, ItemIsThere, StoredIsThere
  <1>5. /\ DOMAIN q = 1..8 /\ q # <<>>
        /\ q[1] = i1 /\ q[2] = i2 /\ q[3] = i3 /\ q[4] = i4
        /\ q[5] = i5 /\ q[6] = i6 /\ q[7] = i7 /\ q[8] = i6
    BY <1>3
  <1>6. DOMAIN q \in SUBSET Nat
    BY <1>5
  <1>7. (\E i \in DOMAIN q : IsRefused(q[i])) <=>
          \/ b.query_id \notin 0..U64Max \/ b.amount \notin 0..CoinsMax
          \/ b.to \notin Addresses \/ b.response \notin Addresses
          \/ b.forward \notin 0..CoinsMax
    <2>1. \A i \in 1..8 : i = 1 \/ i = 2 \/ i = 3 \/ i = 4 \/ i = 5 \/ i = 6 \/ i = 7 \/ i = 8
      OBVIOUS
    <2>2. {2, 3, 4, 5, 7} \subseteq 1..8
      OBVIOUS
    <2>3. (\E i \in DOMAIN q : IsRefused(q[i])) <=>
            IsRefused(i2) \/ IsRefused(i3) \/ IsRefused(i4) \/ IsRefused(i5) \/ IsRefused(i7)
      BY <1>4, <1>5, <2>1, <2>2
    <2>4. QED
      BY <1>4, <2>3
  <1>8. CASE b.amount <= 0
    <2>1. BodyToCell(b) = Refused("W5_JETTON_BAD_AMOUNT")
      BY <1>8 DEF BodyToCell
    <2>2. b.amount \notin 1..CoinsMax
      BY <1>8
    <2>3. QED
      BY <1>2, <2>1, <2>2 DEF BodyKept, IsRefused, Refused
  <1>9. CASE b.amount > 0
    <2>1. BodyToCell(b) = Cell(q)
      BY <1>3, <1>9 DEF BodyToCell
    <2>2. b.amount \in 0..CoinsMax <=> b.amount \in 1..CoinsMax
      <3>1. b.amount \in Int
        OBVIOUS
      <3>2. QED
        <4>1. CoinsMax \in Nat
          BY W5Assumption DEF W5Assumption
        <4>2. PICK n \in Int : n = b.amount
          BY <3>1
        <4>3. n > 0
          BY <1>9, <4>2
        <4>4. n \in 0..CoinsMax <=> n \in 1..CoinsMax
          BY <4>1, <4>3
        <4>5. QED
          BY <4>2, <4>4
    <2>3. IsRefused(BodyToCell(b)) <=> ~BodyStorable(b)
      BY <1>2, <1>6, <1>7, <2>1, <2>2, CellIs
    <2>4. ASSUME BodyStorable(b)
          PROVE  CellToBody(BodyToCell(b)) = Bare(b)
      <3>1. Cell(q) = [kind |-> "cell", items |-> q]
        BY <1>2, <1>6, <1>7, <2>2, <2>4, CellIs
      <3>2. /\ i2.v = b.query_id /\ i3.v = b.amount /\ i4.v = b.to
            /\ i5.v = b.response /\ i7.v = b.forward
        BY <1>2, <1>4, <2>2, <2>4
      <3>3. PICK c : c = Cell(q)
        OBVIOUS
      <3>4. c.items = q
        BY <3>1, <3>3
      <3>5. CellToBody(c) =
              [kind |-> b.kind, query_id |-> b.query_id, amount |-> b.amount, to |-> b.to,
               response |-> b.response, forward |-> b.forward, payload |-> "none"]
        BY <1>1, <1>4, <1>5, <3>2, <3>4 DEF CellToBody, Transfers
      <3>6. Bare(b) = [b EXCEPT !.payload = "none"]
        BY <1>1 DEF Bare
      <3>7. [b EXCEPT !.payload = "none"] =
              [kind |-> b.kind, query_id |-> b.query_id, amount |-> b.amount, to |-> b.to,
               response |-> b.response, forward |-> b.forward, payload |-> "none"]
        OBVIOUS
      <3>8. QED
        BY <2>1, <3>3, <3>5, <3>6, <3>7
    <2>5. QED
      BY <2>3, <2>4 DEF BodyKept
  <1>10. QED
    BY <1>8, <1>9

LEMMA NftKept ==
  ASSUME NEW b, b.kind = "nft_transfer", {b.query_id, b.amount, b.forward} \subseteq Int,
         b.amount = 1,
         b = [kind |-> b.kind, query_id |-> b.query_id, amount |-> b.amount, to |-> b.to,
              response |-> b.response, forward |-> b.forward, payload |-> b.payload]
  PROVE  BodyKept(b)
  <1>1. b.kind \in Transfers /\ b.kind # "opaque" /\ b.kind # "jetton_transfer"
    BY DEF Transfers
  <1>2. BodyStorable(b) <=> /\ b.to \in Addresses /\ b.response \in Addresses
                            /\ b.query_id \in 0..U64Max /\ b.forward \in 0..CoinsMax
    BY <1>1 DEF BodyStorable
  <1>3. PICK q, i1, i2, i3, i4, i5, i6 :
          /\ i1 = Item("op", b.kind) /\ i2 = Uint64(b.query_id)
          /\ i3 = Raw(b.to) /\ i4 = Raw(b.response) /\ i5 = Bit(FALSE) /\ i6 = Coins(b.forward)
          /\ q = <<i1, i2, i3, i4, i5, i6, i5>>
    OBVIOUS
  <1>4. /\ ~IsRefused(i1) /\ i1.v = b.kind
        /\ IsRefused(i2) <=> b.query_id \notin 0..U64Max
        /\ b.query_id \in 0..U64Max => i2.v = b.query_id
        /\ IsRefused(i3) <=> b.to \notin Addresses
        /\ b.to \in Addresses => i3.v = b.to
        /\ IsRefused(i4) <=> b.response \notin Addresses
        /\ b.response \in Addresses => i4.v = b.response
        /\ ~IsRefused(i5) /\ i5.v = FALSE
        /\ IsRefused(i6) <=> b.forward \notin 0..CoinsMax
        /\ b.forward \in 0..CoinsMax => i6.v = b.forward
    BY <1>3, ItemIsThere, StoredIsThere
  <1>5. /\ DOMAIN q = 1..7 /\ q # <<>>
        /\ q[1] = i1 /\ q[2] = i2 /\ q[3] = i3 /\ q[4] = i4
        /\ q[5] = i5 /\ q[6] = i6 /\ q[7] = i5
    BY <1>3
  <1>6. DOMAIN q \in SUBSET Nat
    BY <1>5
  <1>7. (\E i \in DOMAIN q : IsRefused(q[i])) <=>
          \/ b.query_id \notin 0..U64Max \/ b.to \notin Addresses
          \/ b.response \notin Addresses \/ b.forward \notin 0..CoinsMax
    <2>1. \A i \in 1..7 : i = 1 \/ i = 2 \/ i = 3 \/ i = 4 \/ i = 5 \/ i = 6 \/ i = 7
      OBVIOUS
    <2>2. {2, 3, 4, 6} \subseteq 1..7
      OBVIOUS
    <2>3. (\E i \in DOMAIN q : IsRefused(q[i])) <=>
            IsRefused(i2) \/ IsRefused(i3) \/ IsRefused(i4) \/ IsRefused(i6)
      BY <1>4, <1>5, <2>1, <2>2
    <2>4. QED
      BY <1>4, <2>3
  <1>8. BodyToCell(b) = Cell(q)
    BY <1>3 DEF BodyToCell
  <1>9. IsRefused(BodyToCell(b)) <=> ~BodyStorable(b)
    BY <1>2, <1>6, <1>7, <1>8, CellIs
  <1>10. ASSUME BodyStorable(b)
         PROVE  CellToBody(BodyToCell(b)) = Bare(b)
    <2>1. Cell(q) = [kind |-> "cell", items |-> q]
      BY <1>2, <1>6, <1>7, <1>10, CellIs
    <2>2. i2.v = b.query_id /\ i3.v = b.to /\ i4.v = b.response /\ i6.v = b.forward
      BY <1>2, <1>4, <1>10
    <2>3. PICK c : c = Cell(q)
      OBVIOUS
    <2>4. c.items = q
      BY <2>1, <2>3
    <2>5. CellToBody(c) =
            [kind |-> b.kind, query_id |-> b.query_id, amount |-> 1, to |-> b.to,
             response |-> b.response, forward |-> b.forward, payload |-> "none"]
      BY <1>1, <1>4, <1>5, <2>2, <2>4 DEF CellToBody, Transfers
    <2>6. Bare(b) = [b EXCEPT !.payload = "none"]
      BY <1>1 DEF Bare
    <2>7. [b EXCEPT !.payload = "none"] =
            [kind |-> b.kind, query_id |-> b.query_id, amount |-> 1, to |-> b.to,
             response |-> b.response, forward |-> b.forward, payload |-> "none"]
      OBVIOUS
    <2>8. QED
      BY <1>8, <2>3, <2>5, <2>6, <2>7
  <1>11. QED
    BY <1>9, <1>10 DEF BodyKept

LEMMA FitIsKept ==
  ASSUME NEW b, FitBody(b)
  PROVE  /\ BodyKept(b)
         /\ CellToBody(BodyToCell(b)) = Bare(b) => ~IsRefused(CellToBody(BodyToCell(b)))
  <1>1. BodyKept(b)
    <2>1. CASE b.kind = "jetton_transfer" /\ JsonBody(b)
      BY <2>1, JettonKept DEF JsonBody, Opaque, Transfers
    <2>2. CASE b.kind = "nft_transfer" /\ JsonBody(b)
      BY <2>2, NftKept DEF JsonBody, Opaque, Transfers
    <2>3. CASE b.kind = "comment" /\ b = Comment(b.comment)
      BY <2>3, CommentKept
    <2>4. CASE b = Opaque
      BY <2>4, OpaqueKept
    <2>5. CASE b = NoBody
      BY <2>5, NoBodyKept
    <2>6. QED
      BY <2>1, <2>2, <2>3, <2>4, <2>5 DEF FitBody, JsonBody, Transfers
  <1>2. ~IsRefused(Bare(b))
    <2>1. CASE b.kind \in Transfers
      <3>1. /\ b.kind # "refused"
            /\ b = [kind |-> b.kind, query_id |-> b.query_id, amount |-> b.amount, to |-> b.to,
                    response |-> b.response, forward |-> b.forward, payload |-> b.payload]
        BY <2>1 DEF FitBody, JsonBody, Transfers, NoBody, Opaque
      <3>2. [b EXCEPT !.payload = "none"].kind = b.kind
        BY <3>1
      <3>3. QED
        BY <2>1, <3>1, <3>2 DEF Bare, IsRefused
    <2>2. CASE b.kind \notin Transfers
      <3>1. b.kind # "refused"
        BY <2>2 DEF FitBody, JsonBody, NoBody, Opaque
      <3>2. QED
        BY <2>2, <3>1 DEF Bare, IsRefused
    <2>3. QED
      BY <2>1, <2>2
  <1>3. QED
    BY <1>1, <1>2

-----------------------------------------------------------------------------
(* Actions: one that is resolved comes back as it was written, but for the  *)
(* payload, and is refused where a cell cannot hold it.                     *)
ActionKept(a) ==
  /\ IsRefused(ActionToCell(a)) <=> ~Storable(a.msg)
  /\ Storable(a.msg) =>
       LET back == CellToAction(ActionToCell(a)) IN
       /\ ~IsRefused(back) /\ back.msg = Without(a.msg) /\ back.mode \cap CarryBits = {}

LEMMA WithoutIs ==
  ASSUME NEW dest, NEW master, NEW value, NEW b, NEW m,
         m = [dest |-> dest, master |-> master, value |-> value, body |-> b]
  PROVE  Without(m) = [dest |-> dest, master |-> master, value |-> value, body |-> Bare(b)]
  <1>1. m.body = b
    OBVIOUS
  <1>2. CASE b.kind \in Transfers
    <2>1. Without(m) = [m EXCEPT !.body.payload = "none"]
      BY <1>1, <1>2 DEF Without
    <2>2. Bare(b) = [m.body EXCEPT !.payload = "none"]
      BY <1>1, <1>2 DEF Bare
    <2>3. [m EXCEPT !.body.payload = "none"] = [m EXCEPT !.body = Bare(b)]
      BY <2>2
    <2>4. PICK other : other = Bare(b)
      OBVIOUS
    <2>5. [m EXCEPT !.body = other] =
            [dest |-> dest, master |-> master, value |-> value, body |-> other]
      BY SMT
    <2>6. QED
      BY <2>1, <2>3, <2>4, <2>5
  <1>3. CASE b.kind \notin Transfers
    BY <1>1, <1>3 DEF Without, Bare
  <1>4. QED
    BY <1>2, <1>3

LEMMA SendKept ==
  ASSUME NEW dest, NEW value \in Int, NEW b, FitBody(b)
  PROVE  ActionKept(Send(dest, "", value, b))
  <1>1. PICK a : a = Send(dest, "", value, b)
    OBVIOUS
  <1>2. /\ a.mode = Exact /\ a.msg = [dest |-> dest, master |-> "", value |-> value, body |-> b]
        /\ a.msg.dest = dest /\ a.msg.value = value /\ a.msg.body = b
    BY <1>1 DEF Send
  <1>0. (a.msg.value < 0 <=> value < 0) /\ (a.msg.value >= 0 <=> value >= 0)
    <2>1. a.msg.value = value
      BY <1>2
    <2>2. QED
      BY <2>1, Zenon
  <1>00. value >= 0 => ~(value < 0)
    OBVIOUS
  <1>3. a.mode \cap CarryBits = {}
    <2>1. Exact \cap CarryBits = {}
      BY DEF Exact, CarryBits
    <2>2. QED
      BY <1>2, <2>1
  <1>4. Storable(a.msg) <=> dest \in Addresses /\ value \in 0..CoinsMax /\ BodyStorable(b)
    BY <1>2 DEF Storable, BodyStorable
  <1>5. PICK q, i1, i2, i3, i4, i5 :
          /\ i1 = Item("mode", Exact) /\ i2 = Raw(dest) /\ i3 = Bit(b.kind \in Transfers)
          /\ i4 = BodyToCell(b) /\ i5 = Coins(value)
          /\ q = <<i1, i2, i3, i4, i5>>
    OBVIOUS
  <1>6. /\ ~IsRefused(i1) /\ i1.v = Exact
        /\ IsRefused(i2) <=> dest \notin Addresses
        /\ dest \in Addresses => i2.v = dest
        /\ ~IsRefused(i3)
        /\ IsRefused(i4) <=> ~BodyStorable(b)
        /\ IsRefused(i5) <=> value \notin 0..CoinsMax
        /\ value \in 0..CoinsMax => i5.v = value
    <2>1. ~IsRefused(i1) /\ i1.v = Exact
      BY <1>5, ItemIsThere
    <2>2. ~IsRefused(i3)
      BY <1>5, StoredIsThere
    <2>3. IsRefused(i4) <=> ~BodyStorable(b)
      BY <1>5, FitIsKept DEF BodyKept
    <2>4. QED
      BY <1>5, <2>1, <2>2, <2>3, StoredIsThere
  <1>7. /\ DOMAIN q = 1..5 /\ q[1] = i1 /\ q[2] = i2 /\ q[3] = i3 /\ q[4] = i4 /\ q[5] = i5
        /\ DOMAIN q \in SUBSET Nat
    BY <1>5
  <1>8. (\E i \in DOMAIN q : IsRefused(q[i])) <=> ~Storable(a.msg)
    <2>1. \A i \in 1..5 : i = 1 \/ i = 2 \/ i = 3 \/ i = 4 \/ i = 5
      OBVIOUS
    <2>2. {2, 4, 5} \subseteq 1..5
      OBVIOUS
    <2>3. (\E i \in DOMAIN q : IsRefused(q[i])) <=> IsRefused(i2) \/ IsRefused(i4) \/ IsRefused(i5)
      BY <1>6, <1>7, <2>1, <2>2
    <2>4. QED
      BY <1>4, <1>6, <2>3
  <1>9. CASE value < 0
    <2>1. ActionToCell(a) = Refused("W5_NEGATIVE_VALUE")
      <3>1. a.msg.value < 0 /\ ~(a.msg.value >= 0)
        <4>1. value < 0 /\ ~(value >= 0)
          BY <1>9
        <4>2. QED
          BY <1>0, <4>1
      <3>2. QED
        BY <1>3, <3>1 DEF ActionToCell
    <2>2. ~Storable(a.msg)
      BY <1>4, <1>9
    <2>3. ActionKept(a)
      BY <2>1, <2>2 DEF ActionKept, IsRefused, Refused
    <2>4. QED
      BY <1>1, <2>3
  <1>10. CASE value >= 0 /\ dest = ""
    <2>1. ActionToCell(a) = Refused("W5_JETTON_DEST_UNRESOLVED")
      <3>1. ~(a.msg.value < 0) /\ a.msg.value >= 0 /\ a.msg.dest = ""
        <4>1. ~(value < 0) /\ value >= 0
          BY <1>00, <1>10, Zenon
        <4>2. QED
          BY <1>0, <1>2, <1>10, <4>1
      <3>2. QED
        BY <1>3, <3>1 DEF ActionToCell
    <2>2. ~Storable(a.msg)
      BY <1>4, <1>10, W5Assumption DEF W5Assumption
    <2>3. ActionKept(a)
      BY <2>1, <2>2 DEF ActionKept, IsRefused, Refused
    <2>4. QED
      BY <1>1, <2>3
  <1>11. CASE value >= 0 /\ dest # ""
    <2>1. ActionToCell(a) = Cell(q)
      <3>1. ~(a.msg.value < 0) /\ a.msg.value >= 0 /\ ~(a.msg.dest = "")
        <4>1. ~(value < 0) /\ value >= 0
          BY <1>00, <1>11, Zenon
        <4>2. QED
          BY <1>0, <1>2, <1>11, <4>1
      <3>2. Cell(q) = Cell(<<Item("mode", a.mode), Raw(a.msg.dest), Bit(a.msg.body.kind \in Transfers),
                             BodyToCell(a.msg.body), Coins(a.msg.value)>>)
        BY <1>2, <1>5
      <3>3. QED
        BY <1>3, <3>1, <3>2 DEF ActionToCell
    <2>2. IsRefused(ActionToCell(a)) <=> ~Storable(a.msg)
      BY <1>7, <1>8, <2>1, CellIs
    <2>3. ASSUME Storable(a.msg)
          PROVE  LET back == CellToAction(ActionToCell(a)) IN
                 /\ ~IsRefused(back) /\ back.msg = Without(a.msg)
                 /\ back.mode \cap CarryBits = {}
      <3>1. PICK c, body : c = Cell(q) /\ body = CellToBody(i4)
        OBVIOUS
      <3>2. c.items = q
        BY <1>7, <1>8, <2>3, <3>1, CellIs
      <3>3. body = Bare(b) /\ ~IsRefused(body)
        BY <1>4, <1>5, <2>3, <3>1, FitIsKept DEF BodyKept
      <3>4. PICK back : back = [kind |-> "action_send_msg", mode |-> Exact,
                                msg |-> [dest |-> dest, master |-> "", value |-> value,
                                         body |-> body]]
        OBVIOUS
      <3>5. CellToAction(c) = OrRefused(<<body>>, back)
        BY <1>4, <1>6, <1>7, <2>3, <3>1, <3>2, <3>4 DEF CellToAction
      <3>6. CellToAction(c) = back
        <4>1. PICK one : one = <<body>>
          OBVIOUS
        <4>2. DOMAIN one \in SUBSET Nat /\ \A i \in DOMAIN one : one[i] = body
          BY <4>1
        <4>3. QED
          BY <3>3, <3>5, <4>1, <4>2, OrRefusedIs
      <3>7. Without(a.msg) = [dest |-> dest, master |-> "", value |-> value, body |-> body]
        <4>1. PICK m, none : m = a.msg /\ none = ""
          OBVIOUS
        <4>2. m = [dest |-> dest, master |-> none, value |-> value, body |-> b]
          BY <1>2, <4>1
        <4>3. Without(m) = [dest |-> dest, master |-> none, value |-> value, body |-> Bare(b)]
          BY <4>2, WithoutIs
        <4>4. QED
          BY <3>3, <4>1, <4>3
      <3>8. /\ ~IsRefused(back) /\ back.msg = Without(a.msg)
            /\ back.mode \cap CarryBits = {}
        <4>1. back.mode = a.mode /\ back.kind # "refused"
          BY <1>2, <3>4
        <4>2. QED
          BY <1>3, <3>4, <3>7, <4>1 DEF IsRefused
      <3>9. CellToAction(ActionToCell(a)) = back
        BY <2>1, <3>1, <3>6
      <3>10. QED
        BY <3>8, <3>9
    <2>4. ActionKept(a)
      BY <2>2, <2>3 DEF ActionKept
    <2>5. QED
      BY <1>1, <2>4
  <1>12. value < 0 \/ value >= 0
    OBVIOUS
  <1>13. QED
    BY <1>9, <1>10, <1>11, <1>12

-----------------------------------------------------------------------------
(* Steps: what is sent for one, once its wallet is found.                   *)
Unset == ""

ResolvedOne(a) ==
  IF a.msg.master = Unset THEN a
  ELSE [a EXCEPT !.msg.dest = JettonWallet, !.msg.master = Unset]

Encoded(x, step, agent) ==
  /\ step.verb \in Encodable
  /\ ~IsRefused(x)
  /\ \E dest, value, b : value \in Int /\ FitBody(b) /\ ResolvedOne(x) = Send(dest, Unset, value, b)
  /\ Faithful(step, agent, ResolvedOne(x).msg)

Redirect(a, dest, master) == [a EXCEPT !.msg.dest = dest, !.msg.master = master]

LEMMA RedirectIs ==
  ASSUME NEW dest, NEW master, NEW value, NEW b, NEW other, NEW none
  PROVE  Redirect(Send(dest, master, value, b), other, none) = Send(other, none, value, b)
  <1>1. PICK a, m, kind, mode :
          /\ a = Send(dest, master, value, b) /\ kind = "action_send_msg" /\ mode = Exact
          /\ m = [dest |-> dest, master |-> master, value |-> value, body |-> b]
    OBVIOUS
  <1>2. a = [kind |-> kind, mode |-> mode, msg |-> m] /\ a.msg = m
    BY <1>1 DEF Send
  <1>3. PICK m2 : m2 = [m EXCEPT !.dest = other]
    OBVIOUS
  <1>4. m2 = [dest |-> other, master |-> master, value |-> value, body |-> b]
    BY <1>1, <1>3
  <1>5. PICK m3 : m3 = [m2 EXCEPT !.master = none]
    OBVIOUS
  <1>6. m3 = [dest |-> other, master |-> none, value |-> value, body |-> b]
    BY <1>4, <1>5
  <1>7. PICK a2 : a2 = [a EXCEPT !.msg.dest = other]
    OBVIOUS
  <1>8. a2 = [kind |-> kind, mode |-> mode, msg |-> m2]
    BY <1>2, <1>3, <1>7
  <1>9. [a2 EXCEPT !.msg.master = none] = [kind |-> kind, mode |-> mode, msg |-> m3]
    BY <1>5, <1>8
  <1>10. Redirect(a, other, none) = [a2 EXCEPT !.msg.master = none]
    BY <1>7 DEF Redirect
  <1>11. Redirect(a, other, none) = Send(other, none, value, b)
    BY <1>1, <1>6, <1>9, <1>10 DEF Send
  <1>12. QED
    BY <1>1, <1>11

(* What Send makes, and how it is resolved.                                 *)
LEMMA SendIs ==
  ASSUME NEW dest, NEW master, NEW value, NEW b
  PROVE  LET a == Send(dest, master, value, b) IN
         /\ ~IsRefused(a)
         /\ a.msg.dest = dest /\ a.msg.master = master /\ a.msg.value = value /\ a.msg.body = b
  BY DEF Send, IsRefused

LEMMA SendResolved ==
  ASSUME NEW dest, NEW master, NEW value, NEW b
  PROVE  ResolvedOne(Send(dest, master, value, b)) =
           Send(IF master = Unset THEN dest ELSE JettonWallet, Unset, value, b)
  <1>1. PICK a : a = Send(dest, master, value, b)
    OBVIOUS
  <1>2. a.msg.master = master
    BY <1>1, SendIs
  <1>3. ASSUME master = Unset PROVE ResolvedOne(a) = a
    BY <1>2, <1>3 DEF ResolvedOne
  <1>4. ASSUME master # Unset PROVE ResolvedOne(a) = Send(JettonWallet, Unset, value, b)
    <2>1. ResolvedOne(a) = Redirect(a, JettonWallet, Unset)
      BY <1>2, <1>4 DEF ResolvedOne, Redirect
    <2>2. QED
      BY <1>1, <2>1, RedirectIs
  <1>5. QED
    BY <1>1, <1>3, <1>4

LEMMA TonEncoded ==
  ASSUME NEW step, NEW agent, JsonParams(step.params), step.verb = "wallet.send_ton",
         NEW x, x = EncodeSendTon(step.params), ~IsRefused(x)
  PROVE  Encoded(x, step, agent)
  <1>1. PICK p : p = step.params
    OBVIOUS
  <1>2. /\ Named(p, "to") /\ Number(p, "amount_nano")
        /\ x = Send(p["to"].v, Unset, p["amount_nano"].v, BodyOf(p))
    <2>1. IsRefused(Malformed)
      BY DEF IsRefused, Malformed, Refused
    <2>2. QED
      BY <1>1, <2>1, Zenon DEF EncodeSendTon, Unset
  <1>3. p["amount_nano"].v \in Int
    BY <1>1, <1>2 DEF JsonParams, Number, Typed
  <1>4. FitBody(BodyOf(p))
    <2>1. FitBody(NoBody) /\ FitBody(Opaque)
      BY DEF FitBody, JsonBody
    <2>2. Typed(p, "body", "object") => JsonBody(p["body"].v)
      BY <1>1 DEF JsonParams
    <2>3. CASE "body" \notin DOMAIN p
      <3>1. BodyOf(p) = NoBody
        BY <2>3 DEF BodyOf, Typed
      <3>2. QED
        BY <2>1, <3>1
    <2>4. CASE "body" \in DOMAIN p /\ p["body"].kind = "null"
      <3>1. BodyOf(p) = NoBody
        BY <2>4 DEF BodyOf, Typed
      <3>2. QED
        BY <2>1, <3>1
    <2>5. CASE "body" \in DOMAIN p /\ p["body"].kind = "object"
      <3>1. BodyOf(p) = p["body"].v
        BY <2>5 DEF BodyOf, Typed
      <3>2. QED
        BY <2>2, <2>5, <3>1 DEF FitBody, Typed
    <2>6. CASE "body" \in DOMAIN p /\ p["body"].kind \notin {"null", "object"}
      <3>1. BodyOf(p) = Opaque
        BY <2>6 DEF BodyOf, Typed
      <3>2. QED
        BY <2>1, <3>1
    <2>7. QED
      BY <2>3, <2>4, <2>5, <2>6
  <1>5. PICK b, v, d : b = BodyOf(p) /\ v = p["amount_nano"].v /\ d = p["to"].v
    OBVIOUS
  <1>6. /\ x = Send(d, Unset, v, b) /\ ResolvedOne(x) = x /\ ~IsRefused(x)
        /\ x.msg.dest = d /\ x.msg.value = v
    <2>1. x = Send(d, Unset, v, b)
      BY <1>2, <1>5
    <2>2. QED
      BY <2>1, SendIs, SendResolved
  <1>7. Faithful(step, agent, x.msg)
    BY <1>1, <1>5, <1>6 DEF Faithful
  <1>8. step.verb \in Encodable
    BY DEF Encodable
  <1>9. QED
    <2>1. v \in Int /\ FitBody(b) /\ ResolvedOne(x) = Send(d, Unset, v, b)
      BY <1>3, <1>4, <1>5, <1>6
    <2>2. QED
      BY <1>6, <1>7, <1>8, <2>1 DEF Encoded

(* What has the rest back, and what it forwards.                            *)
RefundOf(p, agent) ==
  IF Named(p, "response_destination") THEN p["response_destination"].v ELSE agent

LEMMA ForwardIsInt ==
  ASSUME NEW p, JsonParams(p), NEW field
  PROVE  /\ ForwardOf(p, field) \in Int
         /\ ForwardOf(p, field) =
              IF field \in DOMAIN p /\ p[field].kind = "bigint" THEN p[field].v ELSE 0
  <1>1. CASE field \in DOMAIN p /\ p[field].kind = "bigint"
    <2>1. ForwardOf(p, field) = p[field].v
      BY <1>1 DEF ForwardOf, OrElse, Typed
    <2>2. p[field].v \in Int
      BY <1>1 DEF JsonParams
    <2>3. QED
      BY <1>1, <2>1, <2>2
  <1>2. CASE ~(field \in DOMAIN p /\ p[field].kind = "bigint")
    <2>1. ForwardOf(p, field) = 0
      BY <1>2 DEF ForwardOf, OrElse, Typed
    <2>2. QED
      BY <1>2, <2>1
  <1>3. QED
    BY <1>1, <1>2

LEMMA TransferFits ==
  ASSUME NEW p, JsonParams(p), NEW agent, NEW kind \in Transfers, NEW field,
         Number(p, "query_id"), kind = "jetton_transfer" => Number(p, "amount")
  PROVE  LET b == TransferBody(kind, p, agent, field) IN
         /\ FitBody(b) /\ b.kind = kind /\ b.query_id = p["query_id"].v
         /\ b.response = RefundOf(p, agent) /\ b.forward = ForwardOf(p, field)
         /\ kind = "jetton_transfer" => b.amount = p["amount"].v /\ b.to = p["recipient"].v
         /\ kind = "nft_transfer" => b.amount = 1 /\ b.to = p["new_owner"].v
  <1>1. PICK b, q, n, t, r, f, l :
          /\ b = TransferBody(kind, p, agent, field)
          /\ q = p["query_id"].v
          /\ n = IF kind = "jetton_transfer" THEN p["amount"].v ELSE 1
          /\ t = p[IF kind = "jetton_transfer" THEN "recipient" ELSE "new_owner"].v
          /\ r = RefundOf(p, agent) /\ f = ForwardOf(p, field)
          /\ l = OrElse(p, "forward_payload", "object", "none")
    OBVIOUS
  <1>2. b = [kind |-> kind, query_id |-> q, amount |-> n, to |-> t, response |-> r,
             forward |-> f, payload |-> l]
    BY <1>1 DEF TransferBody, RefundOf, ForwardOf
  <1>3. q \in Int /\ f \in Int
    BY <1>1, ForwardIsInt DEF JsonParams, Number, Typed
  <1>4. kind = "jetton_transfer" => n = p["amount"].v /\ n \in Int /\ t = p["recipient"].v
    BY <1>1 DEF JsonParams, Number, Typed
  <1>5. kind = "nft_transfer" => n = 1 /\ t = p["new_owner"].v
    BY <1>1
  <1>6. n \in Int
    BY <1>4, <1>5 DEF Transfers
  <1>7. /\ b.kind = kind /\ b.query_id = q /\ b.amount = n /\ b.to = t /\ b.response = r
        /\ b.forward = f /\ b.payload = l
    BY <1>2
  <1>8. JsonBody(b)
    <2>1. b.kind \in Transfers
      BY <1>7
    <2>2. b = [kind |-> b.kind, query_id |-> b.query_id, amount |-> b.amount, to |-> b.to,
               response |-> b.response, forward |-> b.forward, payload |-> b.payload]
      BY <1>2, <1>7
    <2>3. {b.query_id, b.amount, b.forward} \subseteq Int
      BY <1>3, <1>6, <1>7
    <2>4. b.kind = "nft_transfer" => b.amount = 1
      BY <1>5, <1>7
    <2>5. QED
      BY <2>1, <2>2, <2>3, <2>4 DEF JsonBody
  <1>9. QED
    BY <1>1, <1>4, <1>5, <1>7, <1>8 DEF FitBody

LEMMA JettonEncoded ==
  ASSUME NEW step, NEW agent, JsonParams(step.params), step.verb = "wallet.send_jetton",
         NEW x, x = EncodeSendJetton(step.params, agent), ~IsRefused(x)
  PROVE  Encoded(x, step, agent)
  <1>1. PICK p, field : p = step.params /\ field = "forward_ton_amount"
    OBVIOUS
  <1>2. PICK b : b = TransferBody("jetton_transfer", p, agent, field)
    OBVIOUS
  <1>3. /\ Named(p, "jetton_master") /\ Number(p, "amount") /\ Numbered(p, "query_id", 0, U64Max)
        /\ x = Send(Unset, p["jetton_master"].v, ForwardOf(p, field) + TransferTon, b)
    <2>1. IsRefused(Malformed)
      BY DEF IsRefused, Malformed, Refused
    <2>2. ~IsRefused(EncodeSendJetton(p, agent))
      BY <1>1
    <2>3. EncodeSendJetton(p, agent) # Malformed
      BY <2>1, <2>2
    <2>4. Named(p, "jetton_master") /\ Number(p, "amount") /\ Numbered(p, "query_id", 0, U64Max)
      BY <2>3, Zenon DEF EncodeSendJetton
    <2>5. EncodeSendJetton(p, agent) =
            Send(Unset, p["jetton_master"].v, ForwardOf(p, "forward_ton_amount") + TransferTon,
                 TransferBody("jetton_transfer", p, agent, "forward_ton_amount"))
      BY <2>3, Zenon DEF EncodeSendJetton, Unset
    <2>6. x = EncodeSendJetton(p, agent)
      BY <1>1
    <2>7. /\ b = TransferBody("jetton_transfer", p, agent, "forward_ton_amount")
          /\ ForwardOf(p, field) + TransferTon = ForwardOf(p, "forward_ton_amount") + TransferTon
      BY <1>1, <1>2, Zenon
    <2>8. x = Send(Unset, p["jetton_master"].v, ForwardOf(p, field) + TransferTon, b)
      BY <2>5, <2>6, <2>7, Zenon
    <2>9. QED
      BY <2>4, <2>8
  <1>4. PICK w, m : w = ForwardOf(p, field) + TransferTon /\ m = p["jetton_master"].v
    OBVIOUS
  <1>5. m # Unset
    BY <1>3, <1>4, Zenon DEF Named, Unset
  <1>6. /\ FitBody(b) /\ b.kind = "jetton_transfer" /\ b.query_id = p["query_id"].v
        /\ b.response = RefundOf(p, agent) /\ b.forward = ForwardOf(p, field)
        /\ b.amount = p["amount"].v /\ b.to = p["recipient"].v
    <2>1. PICK kind : kind = "jetton_transfer"
      OBVIOUS
    <2>2. kind \in Transfers /\ Number(p, "query_id") /\ Number(p, "amount") /\ JsonParams(p)
      BY <1>1, <1>3, <2>1 DEF Numbered, Transfers
    <2>3. b = TransferBody(kind, p, agent, field)
      BY <1>2, <2>1
    <2>4. QED
      BY <2>1, <2>2, <2>3, TransferFits
  <1>7. w \in Int
    <2>1. TransferTon \in Nat \ {0}
      BY W5Assumption, Zenon DEF W5Assumption
    <2>2. ForwardOf(p, field) \in Int
      BY <1>1, ForwardIsInt
    <2>3. QED
      BY <1>4, <2>1, <2>2
  <1>8. x = Send(Unset, m, w, b) /\ ResolvedOne(x) = Send(JettonWallet, Unset, w, b)
    <2>1. x = Send(Unset, m, w, b)
      BY <1>3, <1>4
    <2>2. ResolvedOne(Send(Unset, m, w, b)) =
            Send(IF m = Unset THEN Unset ELSE JettonWallet, Unset, w, b)
      BY SendResolved
    <2>3. QED
      BY <1>5, <2>1, <2>2
  <1>9. PICK s : s = ResolvedOne(x).msg
    OBVIOUS
  <1>10. s.dest = JettonWallet /\ s.value = w /\ s.body = b
    BY <1>8, <1>9, SendIs
  <1>11. ForwardOf(p, field) =
           IF field \in DOMAIN p /\ p[field].kind = "bigint" THEN p[field].v ELSE 0
    BY <1>1, ForwardIsInt
  <1>12. Faithful(step, agent, s)
    BY <1>1, <1>4, <1>6, <1>10, <1>11 DEF Faithful, RefundOf
  <1>13. step.verb \in Encodable
    BY DEF Encodable
  <1>14. QED
    BY <1>6, <1>7, <1>8, <1>9, <1>12, <1>13 DEF Encoded

LEMMA NftEncoded ==
  ASSUME NEW step, NEW agent, JsonParams(step.params), step.verb = "wallet.send_nft",
         NEW x, x = EncodeSendNft(step.params, agent), ~IsRefused(x)
  PROVE  Encoded(x, step, agent)
  <1>1. PICK p, field : p = step.params /\ field = "forward_amount"
    OBVIOUS
  <1>2. PICK b : b = TransferBody("nft_transfer", p, agent, field)
    OBVIOUS
  <1>3. /\ Numbered(p, "query_id", 0, U64Max)
        /\ x = Send(p["nft_item"].v, Unset, ForwardOf(p, field) + TransferTon, b)
    <2>1. IsRefused(Malformed)
      BY DEF IsRefused, Malformed, Refused
    <2>2. ~IsRefused(EncodeSendNft(p, agent))
      BY <1>1
    <2>3. EncodeSendNft(p, agent) # Malformed
      BY <2>1, <2>2
    <2>4. Numbered(p, "query_id", 0, U64Max)
      BY <2>3, Zenon DEF EncodeSendNft
    <2>5. EncodeSendNft(p, agent) =
            Send(p["nft_item"].v, Unset, ForwardOf(p, "forward_amount") + TransferTon,
                 TransferBody("nft_transfer", p, agent, "forward_amount"))
      BY <2>3, Zenon DEF EncodeSendNft, Unset
    <2>6. x = EncodeSendNft(p, agent)
      BY <1>1
    <2>7. /\ b = TransferBody("nft_transfer", p, agent, "forward_amount")
          /\ ForwardOf(p, field) + TransferTon = ForwardOf(p, "forward_amount") + TransferTon
      BY <1>1, <1>2, Zenon
    <2>8. x = Send(p["nft_item"].v, Unset, ForwardOf(p, field) + TransferTon, b)
      BY <2>5, <2>6, <2>7, Zenon
    <2>9. QED
      BY <2>4, <2>8
  <1>4. PICK w, d : w = ForwardOf(p, field) + TransferTon /\ d = p["nft_item"].v
    OBVIOUS
  <1>5. /\ FitBody(b) /\ b.kind = "nft_transfer" /\ b.query_id = p["query_id"].v
        /\ b.response = RefundOf(p, agent) /\ b.forward = ForwardOf(p, field)
        /\ b.to = p["new_owner"].v
    <2>1. PICK kind : kind = "nft_transfer"
      OBVIOUS
    <2>2. kind \in Transfers /\ Number(p, "query_id") /\ JsonParams(p) /\ kind # "jetton_transfer"
      BY <1>1, <1>3, <2>1 DEF Numbered, Transfers
    <2>3. b = TransferBody(kind, p, agent, field)
      BY <1>2, <2>1
    <2>4. QED
      BY <2>1, <2>2, <2>3, TransferFits
  <1>6. w \in Int
    <2>1. TransferTon \in Nat \ {0}
      BY W5Assumption, Zenon DEF W5Assumption
    <2>2. ForwardOf(p, field) \in Int
      BY <1>1, ForwardIsInt
    <2>3. QED
      BY <1>4, <2>1, <2>2
  <1>7. x = Send(d, Unset, w, b) /\ ResolvedOne(x) = x
    <2>1. x = Send(d, Unset, w, b)
      BY <1>3, <1>4
    <2>2. QED
      BY <2>1, SendResolved
  <1>8. PICK s : s = ResolvedOne(x).msg
    OBVIOUS
  <1>9. s.dest = d /\ s.value = w /\ s.body = b
    BY <1>7, <1>8, SendIs
  <1>10. ForwardOf(p, field) =
           IF field \in DOMAIN p /\ p[field].kind = "bigint" THEN p[field].v ELSE 0
    BY <1>1, ForwardIsInt
  <1>11. Faithful(step, agent, s)
    BY <1>1, <1>4, <1>5, <1>9, <1>10 DEF Faithful, RefundOf
  <1>12. step.verb \in Encodable
    BY DEF Encodable
  <1>13. QED
    BY <1>5, <1>6, <1>7, <1>8, <1>11, <1>12 DEF Encoded

LEMMA VerbClasses ==
  ASSUME NEW v
  PROVE  /\ ClassifyVerb(v) = "offchain" <=> v \in Reads \cup {"cal.cancel"}
         /\ ClassifyVerb(v) \in {"offchain", "config", "send", "unknown"}
         /\ ClassifyVerb(v) = "send" <=> v \in SendVerbs
         /\ v \in Reads \cup {"cal.cancel"} => v \notin SendVerbs
  <1>1. /\ v \in Reads \cup {"cal.cancel"} => v \notin ConfigVerbs /\ v \notin SendVerbs
        /\ v \in ConfigVerbs => v \notin SendVerbs
    BY DEF Reads, ConfigVerbs, SendVerbs, Encodable
  <1>2. CASE v \in Reads \cup {"cal.cancel"}
    BY <1>1, <1>2 DEF ClassifyVerb
  <1>3. CASE v \in ConfigVerbs
    BY <1>1, <1>3 DEF ClassifyVerb
  <1>4. CASE v \in SendVerbs
    BY <1>1, <1>4 DEF ClassifyVerb
  <1>5. CASE v \notin Reads \cup {"cal.cancel"} /\ v \notin ConfigVerbs /\ v \notin SendVerbs
    BY <1>5 DEF ClassifyVerb
  <1>6. QED
    BY <1>1, <1>2, <1>3, <1>4, <1>5

LEMMA StepEncoded ==
  ASSUME NEW step, NEW agent, JsonParams(step.params)
  PROVE  \/ EncodeStep(step, agent) = <<>> /\ step.verb \in Reads \cup {"cal.cancel"}
         \/ \E x : EncodeStep(step, agent) = <<x>> /\ (~IsRefused(x) => Encoded(x, step, agent))
  <1>1. PICK v, class, e : v = step.verb /\ class = ClassifyVerb(v) /\ e = EncodeStep(step, agent)
    OBVIOUS
  <1>2. \A code : IsRefused(Refused(code))
    BY DEF Refused, IsRefused
  <1>3. /\ class \in {"offchain", "config", "send", "unknown"}
        /\ class = "offchain" <=> v \in Reads \cup {"cal.cancel"}
        /\ class = "send" <=> v \in SendVerbs
    BY <1>1, VerbClasses
  <1>4. e = CASE class = "offchain" -> <<>>
              [] class = "config" -> <<Refused("W5_EXTENDED_NOT_IN_V0_1_0")>>
              [] class = "unknown" -> <<Refused("W5_UNKNOWN_VERB")>>
              [] v \in SendVerbs \ Encodable -> <<Refused("W5_UNIMPLEMENTED_VERB")>>
              [] v = "wallet.send_jetton" -> <<EncodeSendJetton(step.params, agent)>>
              [] v = "wallet.send_nft" -> <<EncodeSendNft(step.params, agent)>>
              [] v = "wallet.send_ton" -> <<EncodeSendTon(step.params)>>
    BY <1>1 DEF EncodeStep
  <1>5. /\ "wallet.send_jetton" \in Encodable /\ "wallet.send_nft" \in Encodable
        /\ "wallet.send_ton" \in Encodable /\ Encodable \subseteq SendVerbs
        /\ \A w \in Encodable : w \in {"wallet.send_ton", "wallet.send_jetton", "wallet.send_nft"}
    BY DEF Encodable, SendVerbs
  <1>6. CASE class = "offchain"
    <2>1. v \notin SendVerbs
      BY <1>3, <1>6
    <2>2. e = <<>>
      BY <1>4, <1>5, <1>6, <2>1
    <2>3. QED
      BY <1>1, <1>3, <1>6, <2>2
  <1>7. CASE class = "config"
    <2>1. v \notin SendVerbs
      BY <1>3, <1>7
    <2>2. e = <<Refused("W5_EXTENDED_NOT_IN_V0_1_0")>>
      BY <1>4, <1>5, <1>7, <2>1
    <2>3. QED
      BY <1>1, <1>2, <2>2
  <1>8. CASE class = "unknown"
    <2>1. v \notin SendVerbs
      BY <1>3, <1>8
    <2>2. e = <<Refused("W5_UNKNOWN_VERB")>>
      BY <1>4, <1>5, <1>8, <2>1
    <2>3. QED
      BY <1>1, <1>2, <2>2
  <1>9. CASE class = "send" /\ v \notin Encodable
    <2>1. v \in SendVerbs \ Encodable
      BY <1>3, <1>9
    <2>2. e = <<Refused("W5_UNIMPLEMENTED_VERB")>>
      BY <1>4, <1>5, <1>9, <2>1
    <2>3. QED
      BY <1>1, <1>2, <2>2
  <1>10. CASE class = "send" /\ v = "wallet.send_jetton"
    <2>1. PICK x : x = EncodeSendJetton(step.params, agent)
      OBVIOUS
    <2>2. v \notin SendVerbs \ Encodable
      BY <1>5, <1>10
    <2>3. e = <<x>>
      BY <1>4, <1>10, <2>1, <2>2
    <2>4. ~IsRefused(x) => Encoded(x, step, agent)
      BY <1>1, <1>10, <2>1, JettonEncoded
    <2>5. QED
      BY <1>1, <2>3, <2>4
  <1>11. CASE class = "send" /\ v = "wallet.send_nft"
    <2>1. PICK x : x = EncodeSendNft(step.params, agent)
      OBVIOUS
    <2>2. v \notin SendVerbs \ Encodable
      BY <1>5, <1>11
    <2>3. e = <<x>>
      BY <1>4, <1>11, <2>1, <2>2
    <2>4. ~IsRefused(x) => Encoded(x, step, agent)
      BY <1>1, <1>11, <2>1, NftEncoded
    <2>5. QED
      BY <1>1, <2>3, <2>4
  <1>12. CASE class = "send" /\ v = "wallet.send_ton"
    <2>1. PICK x : x = EncodeSendTon(step.params)
      OBVIOUS
    <2>2. v \notin SendVerbs \ Encodable
      BY <1>5, <1>12
    <2>3. e = <<x>>
      BY <1>4, <1>12, <2>1, <2>2
    <2>4. ~IsRefused(x) => Encoded(x, step, agent)
      BY <1>1, <1>12, <2>1, TonEncoded
    <2>5. QED
      BY <1>1, <2>3, <2>4
  <1>13. QED
    BY <1>3, <1>5, <1>6, <1>7, <1>8, <1>9, <1>10, <1>11, <1>12

(* Actions resolved come back from their cells.                             *)
LEMMA EncodedKept ==
  ASSUME NEW x, NEW step, NEW agent, Encoded(x, step, agent)
  PROVE  ActionKept(ResolvedOne(x))
  <1>1. PICK dest, value, b :
          value \in Int /\ FitBody(b) /\ ResolvedOne(x) = Send(dest, Unset, value, b)
    BY DEF Encoded
  <1>2. ActionKept(Send(dest, "", value, b))
    BY <1>1, SendKept
  <1>3. Send(dest, Unset, value, b) = Send(dest, "", value, b)
    BY Zenon DEF Unset
  <1>4. QED
    BY <1>1, <1>2, <1>3, Zenon

(* What a CAL is projected on, where nothing is refused.                    *)
Projected(cal, flat) ==
  /\ CanonicalToInner(cal) = Inner(flat)
  /\ Len(flat) \in Nat /\ DOMAIN flat = 1..Len(flat) /\ Len(flat) <= MaxOutActions
  /\ Len(flat) = Cardinality(Sends(cal.steps))
  /\ \A i \in DOMAIN cal.steps : cal.steps[i].verb \in Encodable \cup Reads \cup {"cal.cancel"}
  /\ \A i \in Sends(cal.steps) : /\ Nth(cal.steps, i) \in 1..Len(flat)
                                 /\ Encoded(flat[Nth(cal.steps, i)], cal.steps[i], cal.agent)
  /\ \A c \in 1..Len(flat) : \E i \in Sends(cal.steps) : Encoded(flat[c], cal.steps[i], cal.agent)

LEMMA CalProjected ==
  ASSUME NEW cal \in Cals, ~IsRefused(CanonicalToInner(cal))
  PROVE  \E flat : Projected(cal, flat)
  <1>1. PICK steps, agent, n : steps = cal.steps /\ agent = cal.agent /\ n = Len(steps)
    OBVIOUS
  <1>2. /\ steps \in Seq(ToSet(steps)) /\ n \in Nat /\ DOMAIN steps = 1..n
        /\ \A i \in 1..n : JsonParams(steps[i].params)
    BY <1>1, OutboundAssumption DEF OutboundAssumption
  <1>3. PICK m : m = [i \in DOMAIN steps |-> EncodeStep(steps[i], agent)]
    OBVIOUS
  <1>4. PICK flat, T : flat = FlattenSeq(m) /\ T = {m[i][1] : i \in 1..n}
    OBVIOUS
  <1>5. DOMAIN m = 1..n /\ \A i \in 1..n : m[i] = EncodeStep(steps[i], agent)
    BY <1>2, <1>3
  <1>6. \A i \in 1..n :
          \/ m[i] = <<>> /\ steps[i].verb \in Reads \cup {"cal.cancel"}
          \/ \E x : m[i] = <<x>> /\ (~IsRefused(x) => Encoded(x, steps[i], agent))
    BY <1>2, <1>5, StepEncoded
  <1>7. \A i \in 1..n : m[i] = <<>> \/ \E x \in T : m[i] = <<x>>
    <2>1. ASSUME NEW i \in 1..n, NEW x, m[i] = <<x>> PROVE x \in T
      <3>1. m[i][1] = x
        BY <2>1
      <3>2. QED
        BY <1>4, <3>1
    <2>2. QED
      BY <1>6, <2>1
  <1>8. m \in Seq(Seq(T))
    <2>1. ASSUME NEW i \in 1..n PROVE m[i] \in Seq(T)
      <3>1. CASE m[i] = <<>>
        BY <3>1
      <3>2. ASSUME NEW x \in T, m[i] = <<x>> PROVE m[i] \in Seq(T)
        BY <3>2
      <3>3. QED
        BY <1>7, <3>1, <3>2
    <2>2. PICK L : L = Seq(T)
      OBVIOUS
    <2>3. m \in [1..n -> L]
      BY <1>3, <1>5, <2>1, <2>2
    <2>4. m \in Seq(L)
      BY <1>2, <2>3
    <2>5. QED
      BY <2>2, <2>4
  <1>9. flat \in Seq(T) /\ JoinedTo(m, n, flat)
    BY <1>2, <1>4, <1>5, <1>7, <1>8, FlattenSingles
  <1>10. Len(flat) \in Nat /\ DOMAIN flat = 1..Len(flat) /\ DOMAIN flat \in SUBSET Nat
    BY <1>9
  <1>11. PICK otherwise :
           otherwise = IF Len(flat) > MaxOutActions THEN Refused("W5_TOO_MANY_ACTIONS")
                       ELSE Inner(flat)
    OBVIOUS
  <1>12. CanonicalToInner(cal) = OrRefused(flat, otherwise)
    BY <1>1, <1>3, <1>4, <1>11 DEF CanonicalToInner
  <1>13. \A c \in 1..Len(flat) : ~IsRefused(flat[c])
    BY <1>10, <1>12, OrRefusedIs
  <1>14. Len(flat) <= MaxOutActions /\ CanonicalToInner(cal) = Inner(flat)
    <2>1. CanonicalToInner(cal) = otherwise
      BY <1>10, <1>12, <1>13, OrRefusedIs
    <2>2. IsRefused(Refused("W5_TOO_MANY_ACTIONS"))
      BY DEF IsRefused, Refused
    <2>3. ~(Len(flat) > MaxOutActions)
      BY <1>11, <2>1, <2>2
    <2>4. MaxOutActions \in Nat
      BY W5Assumption, Zenon DEF W5Assumption
    <2>5. Len(flat) <= MaxOutActions
      BY <1>10, <2>3, <2>4
    <2>6. QED
      BY <1>11, <2>1, <2>3, <2>5
  <1>15. PICK at : at = Filled(m)
    OBVIOUS
  <1>16. /\ \A i \in at : /\ i \in 1..n /\ Rank(m, i) \in 1..Len(flat)
                          /\ m[i] = <<flat[Rank(m, i)]>>
         /\ \A c \in 1..Len(flat) : \E i \in at : m[i] = <<flat[c]>>
    <2>1. \A i \in at : i \in 1..n /\ i <= n
      BY <1>2, <1>5, <1>15 DEF Filled
    <2>2. QED
      BY <1>9, <1>15, <2>1 DEF JoinedTo
  <1>17. \A i \in at : Encoded(flat[Rank(m, i)], steps[i], agent)
    <2>1. ASSUME NEW i \in at PROVE Encoded(flat[Rank(m, i)], steps[i], agent)
      <3>1. PICK x : x = flat[Rank(m, i)]
        OBVIOUS
      <3>2. i \in 1..n /\ m[i] = <<x>> /\ ~IsRefused(x)
        BY <1>13, <1>16, <2>1, <3>1
      <3>3. m[i] # <<>> /\ m[i][1] = x
        BY <3>2
      <3>4. PICK y : m[i] = <<y>> /\ (~IsRefused(y) => Encoded(y, steps[i], agent))
        BY <1>6, <3>2, <3>3
      <3>5. y = x
        BY <3>3, <3>4
      <3>6. QED
        BY <3>1, <3>2, <3>4, <3>5
    <2>2. QED
      BY <2>1
  <1>18. at = Sends(steps)
    <2>1. ASSUME NEW i \in 1..n PROVE i \in at <=> steps[i].verb \in SendVerbs
      <3>1. CASE i \in at
        <4>1. steps[i].verb \in Encodable
          BY <1>17, <3>1 DEF Encoded
        <4>2. Encodable \subseteq SendVerbs
          BY DEF SendVerbs
        <4>3. QED
          BY <3>1, <4>1, <4>2
      <3>2. CASE i \notin at
        <4>1. m[i] = <<>>
          BY <1>5, <1>15, <3>2 DEF Filled
        <4>2. PICK v : v = steps[i].verb
          OBVIOUS
        <4>3. v \in Reads \cup {"cal.cancel"}
          <5>1. ASSUME NEW x, m[i] = <<x>> PROVE FALSE
            BY <4>1, <5>1
          <5>2. QED
            BY <1>6, <4>2, <5>1
        <4>4. v \notin SendVerbs
          BY <4>3, VerbClasses
        <4>5. QED
          BY <3>2, <4>2, <4>4
      <3>3. QED
        BY <3>1, <3>2
    <2>2. at \subseteq 1..n
      BY <1>16
    <2>3. QED
      BY <1>2, <2>1, <2>2 DEF Sends
  <1>19. /\ \A i : Nth(steps, i) = Rank(m, i)
         /\ Len(flat) = Cardinality(Sends(steps))
    <2>1. \A i : Nth(steps, i) = Rank(m, i)
      BY <1>15, <1>18 DEF Nth, Rank
    <2>2. Len(flat) = Cardinality(at)
      <3>1. Len(flat) = Rank(m, n)
        BY <1>9 DEF JoinedTo
      <3>2. \A j \in at : j <= n
        BY <1>2, <1>16
      <3>3. {j \in at : j <= n} = at
        BY <3>2
      <3>4. QED
        BY <1>15, <3>1, <3>3 DEF Rank
    <2>3. QED
      BY <1>18, <2>1, <2>2
  <1>20. \A i \in DOMAIN steps : steps[i].verb \in Encodable \cup Reads \cup {"cal.cancel"}
    <2>1. ASSUME NEW i \in 1..n PROVE steps[i].verb \in Encodable \cup Reads \cup {"cal.cancel"}
      <3>1. CASE i \in at
        BY <1>17, <3>1 DEF Encoded
      <3>2. CASE i \notin at
        <4>1. m[i] = <<>>
          BY <1>5, <1>15, <3>2 DEF Filled
        <4>2. ASSUME NEW x, m[i] = <<x>> PROVE FALSE
          BY <4>1, <4>2
        <4>3. QED
          BY <1>6, <4>2
      <3>3. QED
        BY <3>1, <3>2
    <2>2. QED
      BY <1>2, <2>1
  <1>21. \A c \in 1..Len(flat) : \E i \in Sends(steps) : Encoded(flat[c], steps[i], agent)
    <2>1. ASSUME NEW c \in 1..Len(flat)
          PROVE  \E i \in at : Encoded(flat[c], steps[i], agent)
      <3>1. PICK i \in at : m[i] = <<flat[c]>>
        BY <1>16
      <3>2. PICK x, y : x = flat[Rank(m, i)] /\ y = flat[c]
        OBVIOUS
      <3>3. m[i] = <<x>> /\ m[i] = <<y>>
        BY <1>16, <3>1, <3>2
      <3>4. x = y
        BY <3>3
      <3>5. QED
        BY <1>17, <3>2, <3>4
    <2>2. QED
      BY <1>18, <2>1
  <1>22. \A i \in Sends(steps) : /\ Nth(steps, i) \in 1..Len(flat)
                                 /\ Encoded(flat[Nth(steps, i)], steps[i], agent)
    BY <1>16, <1>17, <1>18, <1>19
  <1>23. Projected(cal, flat)
    BY <1>1, <1>10, <1>14, <1>19, <1>20, <1>21, <1>22 DEF Projected
  <1>24. QED
    BY <1>23

LEMMA BitsCell ==
  ASSUME NEW u, NEW v, ~IsRefused(u), ~IsRefused(v), NEW q, q = <<u, v>>
  PROVE  Cell(q) = [kind |-> "cell", items |-> q] /\ ~IsRefused(Cell(q))
  <1>1. DOMAIN q = 1..2 /\ q[1] = u /\ q[2] = v /\ DOMAIN q \in SUBSET Nat
    OBVIOUS
  <1>2. \A i \in 1..2 : i = 1 \/ i = 2
    OBVIOUS
  <1>3. \A i \in DOMAIN q : ~IsRefused(q[i])
    BY <1>1, <1>2
  <1>4. QED
    BY <1>1, <1>3, CellIs

LEMMA ListCell ==
  ASSUME NEW u, NEW v, NEW w, ~IsRefused(u), ~IsRefused(v), ~IsRefused(w), NEW q, q = <<u, v, w>>
  PROVE  Cell(q) = [kind |-> "cell", items |-> q] /\ ~IsRefused(Cell(q))
  <1>1. DOMAIN q = 1..3 /\ q[1] = u /\ q[2] = v /\ q[3] = w /\ DOMAIN q \in SUBSET Nat
    OBVIOUS
  <1>2. \A i \in 1..3 : i = 1 \/ i = 2 \/ i = 3
    OBVIOUS
  <1>3. \A i \in DOMAIN q : ~IsRefused(q[i])
    BY <1>1, <1>2
  <1>4. QED
    BY <1>1, <1>3, CellIs

(* A list of actions comes back from its cells, or one of them is refused.  *)
ListKept(out) ==
  LET cell == IrToCell(Inner(out)) IN
  /\ IsRefused(cell) <=> \E k \in DOMAIN out : ~Storable(out[k].msg)
  /\ ~IsRefused(cell) =>
       \E read : /\ CellToIr(cell) = Inner(read) /\ DOMAIN read = DOMAIN out
                 /\ \A k \in DOMAIN out : /\ read[k].msg = Without(out[k].msg)
                                          /\ read[k].mode \cap CarryBits = {}

LEMMA InnerIs ==
  ASSUME NEW out
  PROVE  Inner(out).out = out /\ ~IsRefused(Inner(out))
  BY DEF Inner, IsRefused

LEMMA ListIsKept ==
  ASSUME NEW n \in Nat, NEW out, DOMAIN out = 1..n, Len(out) = n, n <= MaxOutActions,
         \A k \in 1..n : ActionKept(out[k])
  PROVE  ListKept(out)
  <1>1. PICK inner, cells, cell :
          /\ inner = Inner(out) /\ cells = [i \in DOMAIN out |-> ActionToCell(out[i])]
          /\ cell = IrToCell(inner)
    OBVIOUS
  <1>2. inner.out = out
    BY <1>1, InnerIs
  <1>3. DOMAIN cells = 1..n /\ \A i \in 1..n : cells[i] = ActionToCell(out[i])
    BY <1>1
  <1>4. DOMAIN cells \in SUBSET Nat
    BY <1>3
  <1>5. MaxOutActions \in Nat
    BY W5Assumption, Zenon DEF W5Assumption
  <1>6. ~(Len(out) > MaxOutActions)
    BY <1>5
  <1>7. PICK no, yes : no = Bit(FALSE) /\ yes = Bit(TRUE)
    OBVIOUS
  <1>8. ~IsRefused(no) /\ ~IsRefused(yes) /\ no.v = FALSE /\ yes.v = TRUE
    BY <1>7, StoredIsThere
  <1>9. cell = IF cells = <<>> THEN Cell(<<no, no>>)
               ELSE OrRefused(cells, Cell(<<yes, Cell(cells), no>>))
    <2>1. cells = [i \in DOMAIN inner.out |-> ActionToCell(inner.out[i])]
      BY <1>1, <1>2
    <2>2. ~(Len(inner.out) > MaxOutActions)
      BY <1>2, <1>6
    <2>3. QED
      BY <1>1, <1>7, <2>1, <2>2 DEF IrToCell
  <1>10. cells = <<>> <=> n = 0
    <2>1. ASSUME n = 0 PROVE cells = <<>>
      <3>1. DOMAIN cells = {} /\ DOMAIN out = {}
        BY <1>3, <2>1
      <3>2. cells = [i \in {} |-> ActionToCell(out[i])]
        BY <1>1, <3>1
      <3>3. QED
        BY <3>2
    <2>2. ASSUME cells = <<>> PROVE n = 0
      <3>1. DOMAIN cells = {}
        BY <2>2
      <3>2. 1 \notin 1..n
        BY <1>3, <3>1
      <3>3. QED
        BY <3>2
    <2>3. QED
      BY <2>1, <2>2
  <1>11. CASE n = 0
    <2>1. PICK q, none : q = <<no, no>> /\ none = <<>>
      OBVIOUS
    <2>2. cell = Cell(q)
      BY <1>9, <1>10, <1>11, <2>1
    <2>3. cell.items = q /\ ~IsRefused(cell)
      BY <1>8, <2>1, <2>2, BitsCell
    <2>4. q[1] = no /\ q[2] = no /\ Len(q) = 2
      BY <2>1
    <2>5. CellToIr(cell) = Inner(none)
      BY <1>8, <2>1, <2>3, <2>4 DEF CellToIr
    <2>6. DOMAIN none = {} /\ DOMAIN out = {}
      BY <1>11, <2>1
    <2>7. QED
      BY <1>1, <2>3, <2>5, <2>6 DEF ListKept
  <1>12. CASE n # 0
    <2>1. PICK q, list : q = <<yes, list, no>> /\ list = Cell(cells)
      OBVIOUS
    <2>2. cell = OrRefused(cells, Cell(q))
      BY <1>9, <1>10, <1>12, <2>1
    <2>3. \A k \in 1..n : IsRefused(cells[k]) <=> ~Storable(out[k].msg)
      BY <1>3 DEF ActionKept
    <2>4. CASE \E k \in 1..n : ~Storable(out[k].msg)
      <3>1. IsRefused(cell)
        BY <1>3, <1>4, <2>2, <2>3, <2>4, OrRefusedIs
      <3>2. QED
        BY <1>1, <2>4, <3>1 DEF ListKept
    <2>5. CASE \A k \in 1..n : Storable(out[k].msg)
      <3>1. \A k \in DOMAIN cells : ~IsRefused(cells[k])
        BY <1>3, <2>3, <2>5
      <3>2. cell = Cell(q)
        BY <1>4, <2>2, <3>1, OrRefusedIs
      <3>3. list.items = cells /\ ~IsRefused(list)
        BY <1>4, <2>1, <3>1, CellIs
      <3>4. cell.items = q /\ ~IsRefused(cell)
        BY <1>8, <2>1, <3>2, <3>3, ListCell
      <3>5. q[1] = yes /\ q[2] = list /\ q[3] = no /\ Len(q) = 3
        BY <2>1
      <3>6. PICK read : read = [i \in DOMAIN cells |-> CellToAction(cells[i])]
        OBVIOUS
      <3>7. /\ DOMAIN read = 1..n /\ DOMAIN read \in SUBSET Nat
            /\ \A k \in 1..n : read[k] = CellToAction(ActionToCell(out[k]))
        BY <1>3, <1>4, <3>6
      <3>8. \A k \in 1..n : /\ ~IsRefused(read[k]) /\ read[k].msg = Without(out[k].msg)
                            /\ read[k].mode \cap CarryBits = {}
        BY <2>5, <3>7 DEF ActionKept
      <3>9. CellToIr(cell) = OrRefused(read, Inner(read))
        <4>1. cell.items[Len(cell.items)].v = FALSE /\ cell.items[1].v = TRUE
          BY <1>8, <3>4, <3>5
        <4>2. read = [i \in DOMAIN cell.items[2].items |-> CellToAction(cell.items[2].items[i])]
          BY <3>3, <3>4, <3>5, <3>6
        <4>3. QED
          BY <4>1, <4>2 DEF CellToIr
      <3>10. OrRefused(read, Inner(read)) = Inner(read)
        BY <3>7, <3>8, OrRefusedIs
      <3>11. QED
        BY <1>1, <2>5, <3>4, <3>7, <3>8, <3>9, <3>10 DEF ListKept
    <2>6. QED
      BY <2>4, <2>5
  <1>13. QED
    BY <1>11, <1>12

LEMMA ResolvedIs ==
  ASSUME NEW flat
  PROVE  Resolved(Inner(flat), JettonWallet) = Inner([i \in DOMAIN flat |-> ResolvedOne(flat[i])])
  <1>1. PICK inner : inner = Inner(flat)
    OBVIOUS
  <1>2. inner.out = flat
    BY <1>1, InnerIs
  <1>3. Resolved(inner, JettonWallet) = Inner([i \in DOMAIN inner.out |-> ResolvedOne(inner.out[i])])
    BY Zenon DEF Resolved, ResolvedOne, Unset
  <1>4. QED
    BY <1>1, <1>2, <1>3

(* A CAL that is published is published as it is. *)
LEMMA PublishedAsIs ==
  ASSUME NEW cal \in Cals, subject = "publish", given = cal, answer = PublishCal(cal)
  PROVE  PublishedIsTheCal
  <1>1. PICK inner, cell, r : /\ inner = CanonicalToInner(cal) /\ r = PublishCal(cal)
                              /\ cell = IrToCell(Resolved(inner, JettonWallet))
    OBVIOUS
  <1>2. r.inner = inner
    BY <1>1 DEF PublishCal
  <1>3. CASE IsRefused(inner)
    BY <1>1, <1>2, <1>3 DEF PublishedIsTheCal
  <1>4. CASE ~IsRefused(inner)
    <2>1. PICK flat : Projected(cal, flat)
      BY <1>1, <1>4, CalProjected
    <2>2. PICK n, steps, sent :
            n = Len(flat) /\ steps = cal.steps /\ sent = [i \in DOMAIN flat |-> ResolvedOne(flat[i])]
      OBVIOUS
    <2>3. /\ inner = Inner(flat) /\ n \in Nat /\ DOMAIN flat = 1..n /\ n <= MaxOutActions
          /\ n = Cardinality(Sends(steps))
          /\ \A i \in DOMAIN steps : steps[i].verb \in Encodable \cup Reads \cup {"cal.cancel"}
          /\ \A i \in Sends(steps) : /\ Nth(steps, i) \in 1..n
                                     /\ Encoded(flat[Nth(steps, i)], steps[i], cal.agent)
          /\ \A c \in 1..n : \E i \in Sends(steps) : Encoded(flat[c], steps[i], cal.agent)
      BY <1>1, <2>1, <2>2 DEF Projected
    <2>4. Resolved(inner, JettonWallet) = Inner(sent)
      BY <2>2, <2>3, ResolvedIs
    <2>5. DOMAIN sent = 1..n /\ Len(sent) = n /\ \A c \in 1..n : sent[c] = ResolvedOne(flat[c])
      BY <2>2, <2>3
    <2>6. \A c \in 1..n : ActionKept(sent[c])
      BY <2>3, <2>5, EncodedKept
    <2>7. ListKept(sent)
      BY <2>3, <2>5, <2>6, ListIsKept
    <2>8. cell = IrToCell(Inner(sent))
      BY <1>1, <2>4
    <2>9. \A i \in Sends(steps) : Faithful(steps[i], cal.agent, sent[Nth(steps, i)].msg)
      BY <2>3, <2>5 DEF Encoded
    <2>10. r = [inner |-> inner, cell |-> cell,
                back |-> IF IsRefused(cell) THEN cell ELSE CellToIr(cell)]
      BY <1>1, <1>4 DEF PublishCal
    <2>11. IsRefused(cell) <=> \E k \in DOMAIN sent : ~Storable(sent[k].msg)
      BY <2>7, <2>8 DEF ListKept
    <2>12. ASSUME ~IsRefused(cell)
           PROVE  /\ DOMAIN r.back.out = DOMAIN sent
                  /\ \A k \in DOMAIN r.back.out : /\ r.back.out[k].msg = Without(sent[k].msg)
                                                  /\ r.back.out[k].mode \cap CarryBits = {}
      <3>1. PICK read : /\ CellToIr(cell) = Inner(read) /\ DOMAIN read = DOMAIN sent
                        /\ \A k \in DOMAIN sent : /\ read[k].msg = Without(sent[k].msg)
                                                  /\ read[k].mode \cap CarryBits = {}
        BY <2>7, <2>8, <2>12 DEF ListKept
      <3>2. r.back = Inner(read)
        BY <2>10, <2>12, <3>1
      <3>3. r.back.out = read
        BY <3>2, InnerIs
      <3>4. QED
        BY <3>1, <3>3
    <2>13. r.cell = cell /\ r.inner = inner
      BY <2>10
    <2>14. answer = r /\ given.steps = steps /\ given.agent = cal.agent
      BY <1>1, <2>2
    <2>15. Resolved(answer.inner, JettonWallet).out = sent
      BY <2>4, <2>13, <2>14, InnerIs
    <2>16. QED
      BY <2>3, <2>5, <2>9, <2>11, <2>12, <2>13, <2>14, <2>15 DEF PublishedIsTheCal
  <1>5. QED
    BY <1>3, <1>4

(* What is published is the CAL. *)
THEOREM PublishedIsRight == OutboundSpec => []PublishedIsTheCal
  <1> DEFINE PublishPut == subject = "publish" => given \in Cals /\ answer = PublishCal(given)
  <1>1. NothingAsked => PublishPut
    BY DEF NothingAsked
  <1>2. ASSUME PublishPut, [Publishing \/ Otherwise]_asked PROVE PublishPut'
    <2>1. CASE Publishing
      BY <2>1 DEF Publishing, Put
    <2>2. CASE Otherwise
      BY <2>2 DEF Otherwise
    <2>3. CASE UNCHANGED asked
      BY <1>2, <2>3 DEF asked
    <2>4. QED
      BY <1>2, <2>1, <2>2, <2>3
  <1>3. PublishPut => PublishedIsTheCal
    <2>1. CASE subject = "publish"
      BY <2>1, PublishedAsIs
    <2>2. CASE subject # "publish"
      BY <2>2 DEF PublishedIsTheCal
    <2>3. QED
      BY <2>1, <2>2
  <1>4. QED
    BY <1>1, <1>2, <1>3, PTL DEF OutboundSpec
=============================================================================
