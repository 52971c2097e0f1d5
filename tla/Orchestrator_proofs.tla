------------------------- MODULE Orchestrator_proofs -------------------------
(***************************************************************************)
(* Proofs about the node, for any CALs and agents, any traces and ticks,   *)
(* any prices and any effects, those that change fees or Bounded Mode      *)
(* between the two stages of a CAL among them.                             *)
(*                                                                         *)
(* The first half follows a CAL and its nonce, and does not look into what *)
(* Commit and the pricing compute; the second half follows the money, for  *)
(* which both are taken apart.                                             *)
(***************************************************************************)
EXTENDS Orchestrator, Aggregates, SequenceTheorems

Terminal == {"finalized", "failed"}
Uncharged == {"free", "spam"}

(* Events that need the nonce of their CAL to be the agent's next one: the   *)
(* deposit, and every end but those section 9.4 puts before the nonce gate.  *)
NeedsNonce(e) == e.type = "validated" \/ (e.type \in Terminal /\ Outcome(e.reason) \notin Uncharged)

(* What a call of the validator at tick now returns: events of one CAL, of   *)
(* which only the last one may end its life, and the last one lets it rest.  *)
Script(q, c, now) ==
  /\ \E S : q \in Seq(S)
  /\ Len(q) > 0
  /\ \A i \in 1..Len(q) :
       /\ q[i].cal = c
       /\ q[i].type \in Terminal => i = Len(q)
       /\ q[i].reason = "FINALIZED" => ~(now > Cal[c].expiration)
  /\ q[Len(q)].type \in Terminal \cup {"validated"}

NonceIsNext(c, ns) == Cal[c].nonce = ns[Cal[c].agent] + 1

-----------------------------------------------------------------------------
(* What the validator returns. *)

(* Some gate is the first one that fails. *)
LEMMA FirstFailed ==
  ASSUME NEW S \in SUBSET (1..9), S # {}
  PROVE  Min(S) \in S
  <1>1. S \in SUBSET Nat
    OBVIOUS
  <1>2. QED
    BY <1>1, MinIsLeast

(* The elements of a sequence behind a single one. *)
LEMMA OneInFront ==
  ASSUME NEW S, NEW a \in Seq(S), NEW b \in Seq(S), Len(a) = 1
  PROVE  /\ a \o b \in Seq(S)
         /\ Len(a \o b) = Len(b) + 1
         /\ (a \o b)[1] = a[1]
         /\ \A i \in 2..Len(b) + 1 : i - 1 \in 1..Len(b) /\ (a \o b)[i] = b[i - 1]
  <1>1. /\ a \o b \in Seq(S)
        /\ Len(a \o b) = 1 + Len(b) /\ Len(b) \in Nat
        /\ \A i \in 1..1 + Len(b) : (a \o b)[i] = IF i <= 1 THEN a[i] ELSE b[i - 1]
    <2>1. /\ a \o b \in Seq(S)
          /\ Len(a \o b) = Len(a) + Len(b)
          /\ \A i \in 1..Len(a) + Len(b) :
               (a \o b)[i] = IF i <= Len(a) THEN a[i] ELSE b[i - Len(a)]
      BY ConcatProperties, Zenon
    <2>2. Len(b) \in Nat
      BY LenProperties
    <2>3. QED
      BY <2>1, <2>2
  <1>2. 1 \in 1..1 + Len(b)
    BY <1>1
  <1>3. \A i \in 2..Len(b) + 1 : i \in 1..1 + Len(b) /\ ~(i <= 1) /\ i - 1 \in 1..Len(b)
    BY <1>1
  <1>4. QED
    BY <1>1, <1>2, <1>3

(* A CAL that fails at a gate ends there, uncharged or charged as spam; one  *)
(* that passes them all has the next nonce of its agent.                     *)
LEMMA PhaseAScript ==
  ASSUME NEW c, NEW snap, NEW trace, NEW now
  PROVE  LET q == PhaseA(c, snap, trace, now) IN
         /\ Script(q, c, now)
         /\ Len(q) = 1
         /\ q[1].reason # "FINALIZED"
         /\ Passes(c, snap, trace, now) => q[1].type = "validated" /\ NonceIsNext(c, snap.nonces)
         /\ ~Passes(c, snap, trace, now) => ~NeedsNonce(q[1])
  <1> DEFINE gates == Gates(c, snap, trace, now)
             failed == {i \in DOMAIN gates : ~gates[i].holds}
             q == PhaseA(c, snap, trace, now)
  <1>1. DOMAIN gates = 1..9
    BY DEF Gates
  <1>2. gates[4].holds <=> NonceIsNext(c, snap.nonces)
    BY DEF Gates, Gate, NonceIsNext
  <1>3. \A i \in 1..9 : gates[i].reason \in SpamReasons \cup FreeReasons
    BY DEF Gates, Gate, SpamReasons, FreeReasons
  <1>4. CASE Passes(c, snap, trace, now)
    <2>1. NonceIsNext(c, snap.nonces)
      BY <1>1, <1>2, <1>4 DEF Passes
    <2> DEFINE e == Event("validated", c, Fee(snap) + MaxGas(c, snap), "-")
    <2>2. q = <<e>>
      BY <1>4 DEF PhaseA
    <2>3. e.type = "validated" /\ e.cal = c /\ e.reason = "-"
      BY DEF Event
    <2> HIDE DEF e, q
    <2>4. q \in Seq({e}) /\ Len(q) = 1 /\ q[1] = e
      BY <2>2
    <2>5. Script(q, c, now)
      BY <2>3, <2>4 DEF Script, Terminal
    <2>6. QED
      BY <1>4, <2>1, <2>3, <2>4, <2>5 DEF q
  <1>5. CASE ~Passes(c, snap, trace, now)
    <2>1. Min(failed) \in failed
      BY <1>1, <1>5, FirstFailed DEF Passes
    <2> DEFINE reason == gates[Min(failed)].reason
    <2>2. reason \in SpamReasons \cup FreeReasons
      BY <1>1, <1>3, <2>1
    <2> DEFINE e == Event("failed", c, IF reason \in SpamReasons THEN SpamCharge(c, snap) ELSE 0, reason)
    <2>3. q = <<e>>
      BY <1>5 DEF PhaseA, PreFailure
    <2>4. e.type = "failed" /\ e.cal = c /\ e.reason = reason
      BY DEF Event
    <2> HIDE DEF e, reason, q
    <2>5. q \in Seq({e}) /\ Len(q) = 1 /\ q[1] = e
      BY <2>3
    <2>6. Outcome(reason) \in Uncharged /\ reason # "FINALIZED"
      BY <2>2 DEF Outcome, Uncharged, SpamReasons, FreeReasons
    <2>7. Script(q, c, now)
      BY <2>4, <2>5, <2>6 DEF Script, Terminal
    <2>8. ~NeedsNonce(q[1])
      BY <2>4, <2>5, <2>6 DEF NeedsNonce
    <2>9. QED
      BY <1>5, <2>4, <2>5, <2>6, <2>7, <2>8 DEF q
  <1>6. QED
    BY <1>4, <1>5

(* The last phase ends the life of the CAL, and finalizes it in time only. *)
LEMMA PhaseBScript ==
  ASSUME NEW c, NEW snap, NEW trace, NEW now
  PROVE  Script(PhaseB(c, snap, trace, now), c, now)
  <1> DEFINE fail(reason) ==
        Event("failed", c, MaxGas(c, snap) - (IF reason = "EXPIRED_POST" THEN 0
                             ELSE Least(RawGas(c, snap, trace), MaxGas(c, snap))), reason)
             executed == ExecutedEvent(c, trace.effects, RawGas(c, snap, trace))
             settled == Event("settled", c, 0, "-")
             finalized == Event("finalized", c, MaxGas(c, snap) - RawGas(c, snap, trace), "FINALIZED")
             q == PhaseB(c, snap, trace, now)
  <1>1. \A reason : fail(reason).type = "failed" /\ fail(reason).cal = c /\ fail(reason).reason = reason
    BY DEF Event
  <1>2. /\ executed.type = "executed" /\ executed.cal = c /\ executed.reason = "-"
        /\ settled.type = "settled" /\ settled.cal = c /\ settled.reason = "-"
        /\ finalized.type = "finalized" /\ finalized.cal = c /\ finalized.reason = "FINALIZED"
    BY DEF Event, ExecutedEvent
  <1>3. \/ \E reason \in {"EXPIRED_POST", "STEP_ERROR", "OUT_OF_GAS"} : q = <<fail(reason)>>
        \/ q = <<executed>> \o <<fail("INVARIANT_FALSE")>>
        \/ ~(now > Cal[c].expiration) /\ q = <<executed>> \o <<settled, finalized>>
    BY DEF PhaseB, PostFailure
  <1> HIDE DEF fail, executed, settled, finalized, q
  <1>4. ASSUME NEW reason \in {"EXPIRED_POST", "STEP_ERROR", "OUT_OF_GAS"}, q = <<fail(reason)>>
        PROVE  Script(q, c, now)
    <2>1. q \in Seq({fail(reason)}) /\ Len(q) = 1 /\ q[1] = fail(reason)
      BY <1>4
    <2>2. QED
      BY <1>1, <2>1 DEF Script, Terminal
  <1>5. CASE q = <<executed>> \o <<fail("INVARIANT_FALSE")>>
    <2>1. /\ q \in Seq({executed, fail("INVARIANT_FALSE")}) /\ Len(q) = 2
          /\ q[1] = executed /\ q[2] = fail("INVARIANT_FALSE")
      BY <1>5
    <2>2. /\ q[1].cal = c /\ q[1].type = "executed" /\ q[1].reason = "-"
          /\ q[2].cal = c /\ q[2].type = "failed" /\ q[2].reason = "INVARIANT_FALSE"
      BY <1>1, <1>2, <2>1
    <2>3. \A i \in 1..Len(q) : i = 1 \/ i = 2
      BY <2>1
    <2>4. Script(q, c, now)
      BY <2>1, <2>2, <2>3 DEF Script, Terminal
    <2>5. QED
      BY <2>4 DEF q
  <1>6. CASE ~(now > Cal[c].expiration) /\ q = <<executed>> \o <<settled, finalized>>
    <2>1. /\ q \in Seq({executed, settled, finalized}) /\ Len(q) = 3
          /\ q[1] = executed /\ q[2] = settled /\ q[3] = finalized
      <3> DEFINE S == {executed, settled, finalized}
                 one == <<executed>>
                 two == <<settled, finalized>>
      <3>1. /\ one \in Seq(S) /\ Len(one) = 1 /\ one[1] = executed
            /\ two \in Seq(S) /\ Len(two) = 2 /\ two[1] = settled /\ two[2] = finalized
        OBVIOUS
      <3>2. q = one \o two
        BY <1>6
      <3> HIDE DEF one, two, S
      <3>3. q \in Seq(S) /\ Len(q) = 3
        BY <3>1, <3>2, OneInFront
      <3>4. q[1] = one[1] /\ q[2] = two[1] /\ q[3] = two[2]
        <4>1. q[1] = one[1] /\ \A i \in 2..3 : q[i] = two[i - 1]
          BY <3>1, <3>2, OneInFront
        <4>2. QED
          BY <4>1
      <3>5. QED
        BY <3>1, <3>3, <3>4 DEF S
    <2>2. \A i \in 1..Len(q) : i = 1 \/ i = 2 \/ i = 3
      BY <2>1
    <2>3. /\ q[1].cal = c /\ q[1].type = "executed" /\ q[1].reason = "-"
          /\ q[2].cal = c /\ q[2].type = "settled" /\ q[2].reason = "-"
          /\ q[3].cal = c /\ q[3].type = "finalized" /\ q[3].reason = "FINALIZED"
      BY <1>2, <2>1
    <2>4. \A i \in 1..Len(q) : /\ q[i].cal = c
                               /\ q[i].type \in Terminal => i = Len(q)
                               /\ q[i].reason = "FINALIZED" => ~(now > Cal[c].expiration)
      BY <1>6, <2>1, <2>2, <2>3 DEF Terminal
    <2>5. q[Len(q)].type \in Terminal \cup {"validated"} /\ Len(q) > 0
      BY <2>1, <2>3 DEF Terminal
    <2>6. Script(q, c, now)
      BY <2>1, <2>4, <2>5 DEF Script
    <2>7. QED
      BY <2>6 DEF q
  <1>7. QED
    BY <1>3, <1>4, <1>5, <1>6 DEF q

(* In one call: an event that needs the nonce is there only if it is right. *)
LEMMA ValidateScript ==
  ASSUME NEW c, NEW snap, NEW trace, NEW now
  PROVE  LET q == Validate(c, snap, trace, now) IN
         /\ Script(q, c, now)
         /\ (\E i \in 1..Len(q) : NeedsNonce(q[i])) => NonceIsNext(c, snap.nonces)
  <1> DEFINE a == PhaseA(c, snap, trace, now)
             b == PhaseB(c, snap, trace, now)
             q == Validate(c, snap, trace, now)
  <1>1. /\ Script(a, c, now) /\ Len(a) = 1 /\ a[1].reason # "FINALIZED"
        /\ Passes(c, snap, trace, now) => a[1].type = "validated" /\ NonceIsNext(c, snap.nonces)
        /\ ~Passes(c, snap, trace, now) => ~NeedsNonce(a[1])
    BY PhaseAScript
  <1>2. Script(b, c, now)
    BY PhaseBScript
  <1>3. q = a \o IF Passes(c, snap, trace, now) THEN b ELSE <<>>
    BY DEF Validate
  <1>4. PICK S : a \in Seq(S)
    BY <1>1 DEF Script
  <1>5. PICK T : b \in Seq(T)
    BY <1>2 DEF Script
  <1> HIDE DEF a, b, q
  <1>6. CASE ~Passes(c, snap, trace, now)
    <2>1. q = a
      <3>1. q = a \o <<>>
        BY <1>3, <1>6
      <3>2. a \o <<>> = a
        BY <1>4, ConcatEmptySeq, Zenon
      <3>3. QED
        BY <3>1, <3>2
    <2>2. Script(q, c, now) /\ \A i \in 1..Len(q) : ~NeedsNonce(q[i])
      <3>1. Script(q, c, now)
        BY <1>1, <2>1
      <3>2. ~NeedsNonce(q[1])
        BY <1>1, <1>6, <2>1
      <3>3. \A i \in 1..Len(q) : i = 1
        <4>1. Len(q) = 1
          BY <1>1, <2>1
        <4>2. QED
          BY <4>1
      <3>4. QED
        BY <3>1, <3>2, <3>3, Zenon
    <2>3. QED
      BY <2>2 DEF q
  <1>7. CASE Passes(c, snap, trace, now)
    <2>1. q = a \o b /\ a \in Seq(S \cup T) /\ b \in Seq(S \cup T) /\ Len(a) = 1
      <3>1. a \in Seq(S \cup T)
        BY <1>4
      <3>2. b \in Seq(S \cup T)
        BY <1>5
      <3>3. q = a \o b
        BY <1>3, <1>7
      <3>4. QED
        BY <1>1, <3>1, <3>2, <3>3
    <2> HIDE DEF q
    <2>2. /\ q \in Seq(S \cup T) /\ Len(q) = Len(b) + 1 /\ q[1] = a[1]
          /\ \A i \in 1..Len(q) : i # 1 => i - 1 \in 1..Len(b) /\ q[i] = b[i - 1]
      <3>1. /\ q \in Seq(S \cup T) /\ Len(q) = Len(b) + 1 /\ Len(b) \in Nat /\ q[1] = a[1]
            /\ \A i \in 2..Len(b) + 1 : i - 1 \in 1..Len(b) /\ q[i] = b[i - 1]
        BY <2>1, OneInFront, LenProperties
      <3>2. QED
        BY <3>1
    <2>3. Len(b) \in Nat /\ Len(b) > 0
      BY <1>2, <2>1 DEF Script
    <2>4. a[1].type = "validated" /\ a[1].cal = c
      BY <1>1, <1>7 DEF Script
    <2>5. \A i \in 1..Len(q) : /\ q[i].cal = c
                               /\ q[i].type \in Terminal => i = Len(q)
                               /\ q[i].reason = "FINALIZED" => ~(now > Cal[c].expiration)
      BY <1>1, <1>2, <2>2, <2>3, <2>4 DEF Script, Terminal
    <2>6. q[Len(q)].type \in Terminal \cup {"validated"}
      BY <1>2, <2>2, <2>3 DEF Script
    <2>7. Script(q, c, now)
      BY <2>2, <2>3, <2>5, <2>6 DEF Script
    <2>8. QED
      BY <1>1, <1>7, <2>7 DEF q
  <1>8. QED
    BY <1>6, <1>7
(* What is left of a script after its first event. *)
LEMMA TailScript ==
  ASSUME NEW q, NEW c, NEW now, Script(q, c, now), Len(q) # 1
  PROVE  /\ Script(Tail(q), c, now)
         /\ \A i \in 1..Len(Tail(q)) : i + 1 \in 1..Len(q) /\ Tail(q)[i] = q[i + 1]
  <1>1. PICK S : q \in Seq(S)
    BY DEF Script
  <1>2. Len(q) \in Nat /\ Len(q) > 1 /\ q # <<>>
    <2>1. Len(q) > 0
      BY DEF Script
    <2>2. Len(q) \in Nat
      BY <1>1
    <2>3. q # <<>>
      BY <2>1
    <2>4. QED
      BY <2>1, <2>2, <2>3
  <1> DEFINE t == Tail(q)
  <1>3. t \in Seq(S) /\ Len(t) = Len(q) - 1 /\ \A i \in 1..Len(t) : t[i] = q[i + 1]
    BY <1>1, <1>2, HeadTailProperties, Zenon
  <1> HIDE DEF t
  <1>4. \A i \in 1..Len(t) : i + 1 \in 1..Len(q) /\ t[i] = q[i + 1]
    BY <1>2, <1>3
  <1>5. Len(t) > 0 /\ Len(t) \in 1..Len(t) /\ t[Len(t)] = q[Len(q)]
    BY <1>2, <1>3
  <1>6. ASSUME NEW i \in 1..Len(t)
        PROVE  /\ t[i].cal = c
               /\ t[i].type \in Terminal => i = Len(t)
               /\ t[i].reason = "FINALIZED" => ~(now > Cal[c].expiration)
    <2> DEFINE j == i + 1
    <2>1. j \in 1..Len(q) /\ t[i] = q[j]
      BY <1>4
    <2>2. j = Len(q) => i = Len(t)
      BY <1>2, <1>3
    <2> HIDE DEF j
    <2>3. /\ q[j].cal = c
          /\ q[j].type \in Terminal => j = Len(q)
          /\ q[j].reason = "FINALIZED" => ~(now > Cal[c].expiration)
      BY <2>1, Zenon DEF Script
    <2>4. QED
      BY <2>1, <2>2, <2>3, Zenon
  <1>7. Script(t, c, now)
    <2>1. q[Len(q)].type \in Terminal \cup {"validated"}
      BY DEF Script
    <2>2. t[Len(t)].type \in Terminal \cup {"validated"}
      BY <1>5, <2>1, Zenon
    <2>3. \E X : t \in Seq(X)
      BY <1>3
    <2>4. QED
      BY <1>5, <1>6, <2>2, <2>3, Zenon DEF Script
  <1>8. QED
    BY <1>4, <1>7 DEF t

-----------------------------------------------------------------------------
(* The State and its log. *)

Receipts == [cal : Cals, outcome : {"free", "spam", "EXPIRED_POST", "FINALIZED", "failed"},
             late : BOOLEAN]

(* One CAL in flight per agent; what passed the deposit has the next nonce   *)
(* of its agent; and as many ends are in the log as nonces were burned, each *)
(* that is charged for more than spam at its own nonce, none finalized late. *)
Booked(st, ns, log) ==
  /\ st \in [Cals -> R!Stages \cup {"NONE"}]
  /\ ns \in [Agents -> Nat]
  /\ log \in [Agents -> Seq(Receipts)]
  /\ \A c, d \in Cals :
       st[c] # "NONE" /\ st[d] # "NONE" /\ Cal[c].agent = Cal[d].agent => c = d
  /\ \A c \in Cals : st[c] \in R!PostValidated => NonceIsNext(c, ns)
  /\ \A a \in Agents : Len(log[a]) = ns[a]
  /\ \A a \in Agents : \A i \in 1..Len(log[a]) :
       /\ log[a][i].outcome \notin Uncharged => Cal[log[a][i].cal].nonce = i
       /\ log[a][i].outcome = "FINALIZED" => ~log[a][i].late

(* A new CAL takes a free slot. *)
LEMMA BookedCreate ==
  ASSUME NEW st, NEW ns, NEW log, Booked(st, ns, log), NEW c \in Cals,
         \A d \in Cals : st[d] # "NONE" => Cal[d].agent # Cal[c].agent
  PROVE  Booked([st EXCEPT ![c] = "CREATED"], ns, log)
  BY DEF Booked, R!Stages, R!PostValidated, R!PreValidated

(* A CAL in flight moves on, past the deposit only with the next nonce. *)
LEMMA BookedMove ==
  ASSUME NEW st, NEW ns, NEW log, Booked(st, ns, log), NEW c \in Cals, NEW s \in R!Stages,
         st[c] # "NONE", s \in R!PostValidated => NonceIsNext(c, ns)
  PROVE  Booked([st EXCEPT ![c] = s], ns, log)
  BY DEF Booked

(* A CAL in flight leaves: its nonce is burned and its end is logged. *)
LEMMA BookedLeave ==
  ASSUME NEW st, NEW ns, NEW log, Booked(st, ns, log), NEW c \in Cals, NEW r \in Receipts,
         st[c] # "NONE", r.cal = c,
         r.outcome \notin Uncharged => NonceIsNext(c, ns),
         r.outcome = "FINALIZED" => ~r.late
  PROVE  Booked([st EXCEPT ![c] = "NONE"], [ns EXCEPT ![Cal[c].agent] = @ + 1],
                [log EXCEPT ![Cal[c].agent] = Append(@, r)])
  <1> DEFINE a == Cal[c].agent
             st2 == [st EXCEPT ![c] = "NONE"]
             ns2 == [ns EXCEPT ![a] = @ + 1]
             log2 == [log EXCEPT ![a] = Append(@, r)]
  <1>1. a \in Agents
    BY NodeAssumption
  <1>2. /\ log[a] \in Seq(Receipts) /\ Len(log[a]) = ns[a] /\ ns[a] \in Nat
        /\ ns2 \in [Agents -> Nat] /\ ns2[a] = ns[a] + 1
        /\ \A b \in Agents : b # a => ns2[b] = ns[b] /\ log2[b] = log[b]
    BY <1>1 DEF Booked
  <1>3. /\ log2[a] = Append(log[a], r)
        /\ log2 \in [Agents -> Seq(Receipts)]
    BY <1>1, <1>2 DEF Booked
  <1>4. /\ Len(log2[a]) = ns[a] + 1
        /\ \A i \in 1..ns[a] : log2[a][i] = log[a][i]
        /\ log2[a][ns[a] + 1] = r
    BY <1>2, <1>3, AppendProperties
  <1>5. /\ st2 \in [Cals -> R!Stages \cup {"NONE"}] /\ st2[c] = "NONE"
        /\ \A d \in Cals : d # c => st2[d] = st[d]
    BY DEF Booked
  <1> HIDE DEF st2, ns2, log2
  <1>6. \A b, d \in Cals :
          st2[b] # "NONE" /\ st2[d] # "NONE" /\ Cal[b].agent = Cal[d].agent => b = d
    BY <1>5 DEF Booked
  <1>7. ASSUME NEW d \in Cals, st2[d] \in R!PostValidated PROVE NonceIsNext(d, ns2)
    <2>1. d # c /\ st[d] \in R!PostValidated /\ st[d] # "NONE"
      BY <1>5, <1>7 DEF R!PostValidated, R!Stages, R!PreValidated
    <2>2. Cal[d].agent # a
      BY <2>1 DEF Booked
    <2>3. Cal[d].agent \in Agents
      BY NodeAssumption
    <2>4. QED
      BY <1>2, <2>1, <2>2, <2>3 DEF Booked, NonceIsNext
  <1>8. \A b \in Agents : Len(log2[b]) = ns2[b]
    BY <1>2, <1>4 DEF Booked
  <1>9. ASSUME NEW b \in Agents, NEW i \in 1..Len(log2[b])
        PROVE  /\ log2[b][i].outcome \notin Uncharged => Cal[log2[b][i].cal].nonce = i
               /\ log2[b][i].outcome = "FINALIZED" => ~log2[b][i].late
    <2>1. CASE b # a
      BY <1>2, <1>9, <2>1 DEF Booked
    <2>2. CASE b = a /\ i = ns[a] + 1
      BY <1>4, <2>2 DEF NonceIsNext
    <2>3. CASE b = a /\ i # ns[a] + 1
      <3>1. i \in 1..ns[a] /\ i \in 1..Len(log[a])
        BY <1>2, <1>4, <1>9, <2>3
      <3>2. log2[b][i] = log[a][i]
        BY <1>4, <2>3, <3>1
      <3>3. /\ log[a][i].outcome \notin Uncharged => Cal[log[a][i].cal].nonce = i
            /\ log[a][i].outcome = "FINALIZED" => ~log[a][i].late
        BY <1>1, <3>1 DEF Booked
      <3>4. QED
        BY <3>2, <3>3, Zenon
    <2>4. QED
      BY <2>1, <2>2, <2>3
  <1>10. Booked(st2, ns2, log2)
    BY <1>2, <1>3, <1>5, <1>6, <1>7, <1>8, <1>9 DEF Booked
  <1>11. QED
    BY <1>10 DEF st2, ns2, log2

-----------------------------------------------------------------------------
(* The node. *)

Resting(st, busy) == \A c \in Cals \ busy : st[c] \in {"NONE", "VALIDATED"}

(* A block folds the script of c, the only CAL that does not rest. *)
Folds(c) ==
  /\ Script(queue, c, tick)
  /\ Resting(stage, {c})
  /\ (\E i \in 1..Len(queue) : NeedsNonce(queue[i])) =>
       stage[c] = "NONE" \/ NonceIsNext(c, nonces)

(* An IncrementalState has the fields of one, which is what Throw restores. *)
IsIncremental(r) ==
  r = [stage |-> r.stage, escrowed |-> r.escrowed, gas |-> r.gas, staged |-> r.staged,
       nonces |-> r.nonces, balances |-> r.balances, accounts |-> r.accounts, fees |-> r.fees,
       leaf |-> r.leaf, bounded |-> r.bounded, tick |-> r.tick, receipts |-> r.receipts]

(* The inductive invariant: what is booked is right in the State being       *)
(* folded and in the one the caller holds, and the place in applyTick says   *)
(* which CAL may not be at rest and what is to come.                         *)
NodeInv ==
  /\ Booked(stage, nonces, receipts)
  /\ IsIncremental(incr)
  /\ Booked(incr.stage, incr.nonces, incr.receipts)
  /\ Resting(incr.stage, {})
  /\ pc \in {"out", "ready", "created", "signed", "folding"}
  /\ pc = "out" => Current = incr
  /\ pc = "ready" => Resting(stage, {})
  /\ pc = "created" => sub.cal \in Cals /\ stage[sub.cal] = "CREATED" /\ Resting(stage, {sub.cal})
  /\ pc = "signed" => sub.cal \in Cals /\ stage[sub.cal] = "SIGNED" /\ Resting(stage, {sub.cal})
  /\ pc = "folding" => \E c \in Cals : Folds(c)

(* The genesis State is booked, and nothing has begun. *)
LEMMA InitNodeInv == NodeInit => NodeInv
  <1> SUFFICES ASSUME NodeInit PROVE NodeInv
    OBVIOUS
  <1>1. /\ stage = [c \in Cals |-> "NONE"] /\ nonces = [a \in Agents |-> 0]
        /\ receipts = [a \in Agents |-> <<>>] /\ pc = "out" /\ incr = Current
    BY DEF NodeInit, R!Init
  <1>2. \A a \in Agents : receipts[a] = <<>> /\ Len(receipts[a]) = 0 /\ nonces[a] = 0
    BY <1>1
  <1>3. Booked(stage, nonces, receipts)
    BY <1>1, <1>2 DEF Booked, R!Stages, R!PostValidated, R!PreValidated
  <1>4. Resting(stage, {})
    BY <1>1 DEF Resting
  <1>5. /\ incr.stage = stage /\ incr.nonces = nonces /\ incr.receipts = receipts
        /\ IsIncremental(incr)
    BY <1>1 DEF Current, IsIncremental
  <1>6. QED
    BY <1>1, <1>3, <1>4, <1>5 DEF NodeInv

(* A block begins or is refused. *)
LEMMA BeginInv ==
  ASSUME NodeInv, NEW t, RefuseBlock(t) \/ BeginBlock(t)
  PROVE  NodeInv'
  <1>1. CASE RefuseBlock(t)
    <2>1. Current' = Current /\ pc = "out" /\ pc' = "out"
      BY <1>1 DEF RefuseBlock, state, Current
    <2>2. UNCHANGED <<stage, nonces, receipts, incr>>
      BY <1>1 DEF RefuseBlock, state
    <2>3. QED
      BY <2>1, <2>2 DEF NodeInv
  <1>2. CASE BeginBlock(t)
    <2>1. UNCHANGED <<stage, nonces, receipts, incr>> /\ pc = "out" /\ pc' = "ready"
      BY <1>2 DEF BeginBlock, R!TickAdvanced, R!flightVars, R!moneyVars, state
    <2>2. stage = incr.stage
      BY <2>1 DEF NodeInv, Current
    <2>3. QED
      BY <2>1, <2>2 DEF NodeInv
  <1>3. QED
    BY <1>1, <1>2

(* Ingress: the CAL that is submitted takes the only slot not at rest. *)
LEMMA IngressInv ==
  ASSUME NodeInv,
         \/ \E c \in Cals, mode \in {"atomic", "validate-only"} : Submit(c, mode)
         \/ Sign
  PROVE  NodeInv'
  <1>1. ASSUME NEW c \in Cals, NEW mode, Submit(c, mode) PROVE NodeInv'
    <2>1. /\ pc = "ready" /\ pc' = "created" /\ sub'.cal = c
          /\ stage' = [stage EXCEPT ![c] = "CREATED"]
          /\ UNCHANGED <<nonces, receipts, incr>>
          /\ \A d \in Cals : stage[d] # "NONE" => AgentOf[d] # AgentOf[c]
      BY <1>1 DEF Submit, R!Created, R!CanCreate, R!InFlight
    <2>2. Booked(stage', nonces, receipts)
      BY <2>1, BookedCreate DEF NodeInv, AgentOf
    <2>3. stage'[c] = "CREATED" /\ Resting(stage', {c})
      BY <2>1 DEF NodeInv, Booked, Resting
    <2>4. QED
      BY <2>1, <2>2, <2>3 DEF NodeInv
  <1>2. CASE Sign
    <2> DEFINE c == sub.cal
    <2>1. /\ pc = "created" /\ pc' = "signed" /\ sub' = sub /\ c \in Cals
          /\ stage[c] = "CREATED" /\ stage' = [stage EXCEPT ![c] = "SIGNED"]
          /\ UNCHANGED <<nonces, receipts, incr>>
      BY <1>2 DEF Sign, R!Signed, NodeInv
    <2>2. Booked(stage', nonces, receipts)
      BY <2>1, BookedMove DEF NodeInv, R!Stages, R!PostValidated, R!PreValidated
    <2>3. stage'[c] = "SIGNED" /\ Resting(stage', {c})
      BY <2>1 DEF NodeInv, Booked, Resting
    <2>4. QED
      BY <2>1, <2>2, <2>3 DEF NodeInv
  <1>3. QED
    BY <1>1, <1>2

(* The validator is called, on what is signed or on what rests. *)
LEMMA CallInv ==
  ASSUME NodeInv,
         \/ \E trace \in Traces : CallValidator(trace)
         \/ \E c \in Cals, trace \in Traces : Resume(c, trace)
  PROVE  NodeInv'
  <1>1. ASSUME NEW c \in Cals, pc' = "folding", UNCHANGED <<state, receipts, incr>>,
               Script(queue', c, tick), Resting(stage, {c}),
               (\E i \in 1..Len(queue') : NeedsNonce(queue'[i])) =>
                 stage[c] = "NONE" \/ NonceIsNext(c, nonces)
        PROVE  NodeInv'
    <2>1. UNCHANGED <<stage, nonces, tick, receipts, incr>>
      BY <1>1 DEF state
    <2>2. Folds(c)'
      BY <1>1, <2>1 DEF Folds
    <2>3. QED
      BY <1>1, <2>1, <2>2 DEF NodeInv
  <1>2. Snapshot.nonces = nonces
    BY DEF Snapshot
  <1>3. ASSUME NEW trace \in Traces, CallValidator(trace) PROVE NodeInv'
    <2> DEFINE c == sub.cal
    <2>1. /\ pc = "signed" /\ pc' = "folding" /\ UNCHANGED <<state, receipts, incr>>
          /\ \/ queue' = Validate(c, Snapshot, trace, tick)
             \/ queue' = PhaseA(c, Snapshot, trace, tick)
      BY <1>3 DEF CallValidator
    <2>2. c \in Cals /\ Resting(stage, {c})
      BY <2>1 DEF NodeInv
    <2>3. /\ Script(queue', c, tick)
          /\ (\E i \in 1..Len(queue') : NeedsNonce(queue'[i])) => NonceIsNext(c, nonces)
      <3>1. CASE queue' = Validate(c, Snapshot, trace, tick)
        BY <1>2, <3>1, ValidateScript
      <3>2. CASE queue' = PhaseA(c, Snapshot, trace, tick)
        <4>1. /\ Script(queue', c, tick) /\ Len(queue') = 1
              /\ NeedsNonce(queue'[1]) => NonceIsNext(c, nonces)
          BY <1>2, <3>2, PhaseAScript
        <4>2. \A i \in 1..Len(queue') : i = 1
          <5>1. Len(queue') = 1
            BY <4>1
          <5>2. QED
            BY <5>1
        <4>3. QED
          BY <4>1, <4>2
      <3>3. QED
        BY <2>1, <3>1, <3>2
    <2>4. QED
      BY <1>1, <2>1, <2>2, <2>3
  <1>4. ASSUME NEW c \in Cals, NEW trace \in Traces, Resume(c, trace) PROVE NodeInv'
    <2>1. /\ pc = "ready" /\ pc' = "folding" /\ UNCHANGED <<state, receipts, incr>>
          /\ queue' = PhaseB(c, Snapshot, trace, tick)
      BY <1>4 DEF Resume
    <2>2. Resting(stage, {}) /\ Resting(stage, {c})
      BY <2>1 DEF NodeInv, Resting
    <2>3. stage[c] = "NONE" \/ NonceIsNext(c, nonces)
      <3>1. stage[c] \in {"NONE", "VALIDATED"}
        BY <2>2 DEF Resting
      <3>2. QED
        BY <3>1 DEF NodeInv, Booked, R!PostValidated, R!Stages, R!PreValidated
    <2>4. Script(queue', c, tick)
      BY <2>1, PhaseBScript
    <2>5. QED
      BY <1>1, <2>1, <2>2, <2>3, <2>4
  <1>5. QED
    BY <1>3, <1>4

(* The reducer accepts an event of a CAL in flight only, moves that CAL as   *)
(* its type says, and touches neither another CAL nor the tick.              *)
LEMMA ApplyMoves ==
  ASSUME NEW e, NEW c \in Cals, e.cal = c, Apply(e)
  PROVE  /\ stage[c] # "NONE" /\ tick' = tick
         /\ \/ /\ e.type = "validated"
               /\ stage' = [stage EXCEPT ![c] = "VALIDATED"] /\ nonces' = nonces
            \/ /\ e.type \in {"executed", "settled"} /\ stage[c] \in R!PostValidated
               /\ \E s \in {"EXECUTED", "SETTLED"} : stage' = [stage EXCEPT ![c] = s]
               /\ nonces' = nonces
            \/ /\ e.type \in Terminal
               /\ stage' = [stage EXCEPT ![c] = "NONE"]
               /\ nonces' = [nonces EXCEPT ![Cal[c].agent] = @ + 1]
  <1> USE DEF R!PostValidated, R!PreValidated, R!Stages, Terminal
  <1>1. CASE e.type = "validated" /\ R!Validated(e.cal, e.amount)
    BY <1>1 DEF R!Validated, R!CanValidate
  <1>2. CASE e.type = "executed" /\ R!Executed(e.cal, e.effects, e.gas)
    BY <1>2 DEF R!Executed, R!CanExecute
  <1>3. CASE e.type = "settled" /\ R!Settled(e.cal)
    BY <1>3 DEF R!Settled, R!CanSettle
  <1>4. CASE e.type = "finalized" /\ R!Finalized(e.cal, e.amount)
    BY <1>4 DEF R!Finalized, R!CanFinalize, R!Leave, AgentOf
  <1>5. CASE e.type = "failed" /\ R!FailedBefore(e.cal, e.amount)
    BY <1>5 DEF R!FailedBefore, R!CanFailBefore, R!Leave, AgentOf
  <1>6. CASE e.type = "failed" /\ R!FailedAfter(e.cal, e.amount)
    BY <1>6 DEF R!FailedAfter, R!CanFailAfter, R!Leave, AgentOf
  <1>7. QED
    BY <1>1, <1>2, <1>3, <1>4, <1>5, <1>6 DEF Apply

(* One event is folded. *)
LEMMA FoldInv ==
  ASSUME NodeInv, Fold
  PROVE  NodeInv'
  <1>1. PICK c \in Cals : Folds(c)
    BY DEF NodeInv, Fold
  <1>2. PICK S : queue \in Seq(S)
    BY <1>1 DEF Folds, Script
  <1> DEFINE e == Head(queue)
  <1>3. /\ Len(queue) \in Nat /\ Len(queue) > 0 /\ e = queue[1]
        /\ 1 \in 1..Len(queue) /\ Len(queue) \in 1..Len(queue)
    BY <1>1, <1>2 DEF Folds, Script
  <1>4. /\ Apply(e)
        /\ receipts' = IF e.type \in Terminal
                          THEN [receipts EXCEPT ![Cal[e.cal].agent] = Append(@, Receipt(e))]
                          ELSE receipts
        /\ queue' = Tail(queue)
        /\ pc' = IF Len(queue) = 1 THEN "ready" ELSE "folding"
        /\ incr' = incr
    BY DEF Fold, Terminal
  <1> HIDE DEF e
  <1>5. /\ e.cal = c
        /\ e.type \in Terminal => Len(queue) = 1
        /\ e.reason = "FINALIZED" => ~(tick > Cal[c].expiration)
        /\ Len(queue) = 1 => e.type \in Terminal \cup {"validated"}
    BY <1>1, <1>3 DEF Folds, Script
  <1>6. /\ stage[c] # "NONE" /\ tick' = tick
        /\ \/ /\ e.type = "validated"
              /\ stage' = [stage EXCEPT ![c] = "VALIDATED"] /\ nonces' = nonces
           \/ /\ e.type \in {"executed", "settled"} /\ stage[c] \in R!PostValidated
              /\ \E s \in {"EXECUTED", "SETTLED"} : stage' = [stage EXCEPT ![c] = s]
              /\ nonces' = nonces
           \/ /\ e.type \in Terminal
              /\ stage' = [stage EXCEPT ![c] = "NONE"]
              /\ nonces' = [nonces EXCEPT ![Cal[c].agent] = @ + 1]
    BY <1>4, <1>5, ApplyMoves
  <1>7. (\E i \in 1..Len(queue) : NeedsNonce(queue[i])) => NonceIsNext(c, nonces)
    BY <1>1, <1>6 DEF Folds
  <1>8. \A d \in Cals : d # c => stage'[d] = stage[d]
    BY <1>6 DEF NodeInv, Booked
  <1>9. Resting(stage', {c})
    BY <1>1, <1>8 DEF Folds, Resting
  <1>10. CASE e.type \in Terminal
    <2> DEFINE r == Receipt(e)
    <2>1. r \in Receipts /\ r.cal = c
      BY <1>5 DEF Receipt, Receipts, Outcome, SpamReasons, FreeReasons
    <2>2. r.outcome \notin Uncharged => NonceIsNext(c, nonces)
      BY <1>3, <1>7, <1>10 DEF Receipt, NeedsNonce
    <2>3. r.outcome = "FINALIZED" => ~r.late
      <3>1. r.outcome = Outcome(e.reason) /\ r.late = (tick > Cal[e.cal].expiration)
        BY DEF Receipt
      <3>2. Outcome(e.reason) = "FINALIZED" => e.reason = "FINALIZED"
        BY DEF Outcome
      <3>3. QED
        BY <1>5, <3>1, <3>2
    <2> HIDE DEF r
    <2>4. /\ stage' = [stage EXCEPT ![c] = "NONE"]
          /\ nonces' = [nonces EXCEPT ![Cal[c].agent] = @ + 1]
      BY <1>6, <1>10 DEF Terminal
    <2>5. receipts' = [receipts EXCEPT ![Cal[c].agent] = Append(@, r)]
      BY <1>4, <1>5, <1>10 DEF r
    <2>6. Booked(stage', nonces', receipts')
      BY <1>6, <2>1, <2>2, <2>3, <2>4, <2>5, BookedLeave DEF NodeInv
    <2>7. stage'[c] = "NONE"
      BY <2>4 DEF NodeInv, Booked
    <2>8. Resting(stage', {})
      BY <1>9, <2>7 DEF Resting
    <2>9. pc' = "ready"
      BY <1>4, <1>5, <1>10
    <2>10. QED
      BY <1>4, <2>6, <2>8, <2>9 DEF NodeInv
  <1>11. CASE e.type \notin Terminal
    <2>1. receipts' = receipts /\ nonces' = nonces
      BY <1>4, <1>6, <1>11
    <2>2. NonceIsNext(c, nonces)
      <3>1. CASE e.type = "validated"
        BY <1>3, <1>7, <3>1 DEF NeedsNonce
      <3>2. CASE stage[c] \in R!PostValidated
        BY <3>2 DEF NodeInv, Booked
      <3>3. QED
        BY <1>6, <1>11, <3>1, <3>2
    <2>3. PICK s \in {"VALIDATED", "EXECUTED", "SETTLED"} :
            stage' = [stage EXCEPT ![c] = s] /\ (e.type = "validated" => s = "VALIDATED")
      BY <1>6, <1>11 DEF Terminal
    <2>4. Booked(stage', nonces', receipts')
      BY <1>6, <2>1, <2>2, <2>3, BookedMove DEF NodeInv, R!Stages
    <2>5. stage'[c] = s
      BY <2>3 DEF NodeInv, Booked
    <2>6. CASE Len(queue) = 1
      <3>1. s = "VALIDATED"
        BY <1>5, <1>11, <2>3, <2>6
      <3>2. Resting(stage', {})
        BY <1>9, <2>5, <3>1 DEF Resting
      <3>3. QED
        BY <1>4, <2>4, <2>6, <3>2 DEF NodeInv
    <2>7. CASE Len(queue) # 1
      <3>1. Script(queue', c, tick')
        BY <1>1, <1>4, <1>6, <2>7, TailScript DEF Folds
      <3>2. Folds(c)'
        BY <1>9, <2>1, <2>2, <3>1 DEF Folds, NonceIsNext
      <3>3. QED
        BY <1>4, <2>4, <2>7, <3>2 DEF NodeInv
    <2>8. QED
      BY <2>6, <2>7
  <1>12. QED
    BY <1>10, <1>11

(* A block ends, with its State or with the one before it. *)
LEMMA BlockEndsInv ==
  ASSUME NodeInv, EndBlock \/ Throw
  PROVE  NodeInv'
  <1>1. CASE EndBlock
    <2>1. /\ pc = "ready" /\ pc' = "out" /\ incr' = Current
          /\ UNCHANGED <<stage, nonces, receipts>> /\ Current' = Current
      BY <1>1 DEF EndBlock, state, Current
    <2>2. /\ incr'.stage = stage /\ incr'.nonces = nonces /\ incr'.receipts = receipts
          /\ IsIncremental(incr')
      BY <2>1 DEF Current, IsIncremental
    <2>3. QED
      BY <2>1, <2>2 DEF NodeInv
  <1>2. CASE Throw
    <2>1. /\ pc' = "out" /\ incr' = incr /\ stage' = incr.stage /\ nonces' = incr.nonces
          /\ receipts' = incr.receipts
      BY <1>2 DEF Throw
    <2>2. Current' = incr
      BY <1>2 DEF Throw, Current, NodeInv, IsIncremental
    <2>3. QED
      BY <2>1, <2>2 DEF NodeInv
  <1>3. QED
    BY <1>1, <1>2

(* Every step keeps the invariant. *)
LEMMA NextNodeInv == NodeInv /\ [NodeNext]_nvars => NodeInv'
  <1> SUFFICES ASSUME NodeInv, [NodeNext]_nvars PROVE NodeInv'
    OBVIOUS
  <1>1. CASE \E t \in Ticks : RefuseBlock(t) \/ BeginBlock(t)
    BY <1>1, BeginInv
  <1>2. CASE \/ \E c \in Cals, mode \in {"atomic", "validate-only"} : Submit(c, mode)
             \/ Sign
    BY <1>2, IngressInv
  <1>3. CASE \/ \E trace \in Traces : CallValidator(trace)
             \/ \E c \in Cals, trace \in Traces : Resume(c, trace)
    BY <1>3, CallInv
  <1>4. CASE Fold
    BY <1>4, FoldInv
  <1>5. CASE EndBlock \/ Throw
    BY <1>5, BlockEndsInv
  <1>6. CASE UNCHANGED nvars
    <2>1. /\ UNCHANGED <<stage, nonces, receipts, incr, pc, sub, queue, tick>>
          /\ Current' = Current
      BY <1>6 DEF nvars, state, Current
    <2>2. QED
      BY <2>1 DEF NodeInv, Folds
  <1>7. QED
    BY <1>1, <1>2, <1>3, <1>4, <1>5, <1>6 DEF NodeNext

(* The invariant holds in every run of the node. *)
LEMMA NodeInvHolds == NodeSpec => []NodeInv
  BY InitNodeInv, NextNodeInv, PTL DEF NodeSpec

(* applyTick leaves no trace of a block that throws, and no CAL where no     *)
(* submission mode could take it up.                                         *)
THEOREM NodeAtRest == NodeSpec => []AtRest
  <1>1. ASSUME NodeInv, pc = "out"
        PROVE  /\ Current = incr
               /\ \A c \in Cals : R!InFlight(c) => stage[c] = "VALIDATED"
    <2>1. Current = incr /\ stage = incr.stage /\ Resting(incr.stage, {})
      BY <1>1 DEF NodeInv, Current
    <2>2. QED
      BY <2>1 DEF Resting, R!InFlight
  <1>2. NodeInv => AtRest
    BY <1>1 DEF AtRest
  <1>3. QED
    BY <1>2, NodeInvHolds, PTL

(* The nonce gate of phaseA is a replay protection though the nonce is       *)
(* burned blocks later: no CAL gets past it twice or out of turn.            *)
THEOREM NodeExecutesInTurn == NodeSpec => []ExecutedAtItsNonce
  <1>1. NodeInv => ExecutedAtItsNonce
    <2> SUFFICES ASSUME NodeInv, NEW a \in Agents, NEW i \in DOMAIN receipts[a],
                        receipts[a][i].outcome \notin {"free", "spam"}
                 PROVE  Cal[receipts[a][i].cal].nonce = i
      BY DEF ExecutedAtItsNonce
    <2>1. i \in 1..Len(receipts[a])
      BY DEF NodeInv, Booked
    <2>2. QED
      BY <2>1 DEF NodeInv, Booked, Uncharged
  <1>2. QED
    BY <1>1, NodeInvHolds, PTL

(* Nothing is finalized after its expiration tick, at whatever tick it was   *)
(* admitted and however long it rested (CAL Execution Spec 3.4).             *)
THEOREM NodeFinalizesInTime == NodeSpec => []FinalizedInTime
  <1>1. NodeInv => FinalizedInTime
    <2> SUFFICES ASSUME NodeInv, NEW a \in Agents, NEW i \in DOMAIN receipts[a],
                        receipts[a][i].outcome = "FINALIZED"
                 PROVE  ~receipts[a][i].late
      BY DEF FinalizedInTime
    <2>1. i \in 1..Len(receipts[a])
      BY DEF NodeInv, Booked
    <2>2. QED
      BY <2>1 DEF NodeInv, Booked
  <1>2. QED
    BY <1>1, NodeInvHolds, PTL

-----------------------------------------------------------------------------
(* Money.  The validator prices a CAL twice, before its deposit and behind   *)
(* it, perhaps blocks later.  The two agree when nothing the price depends   *)
(* on has moved: for a CAL that declares its gas limit always, for the       *)
(* others as long as no effect writes the flat fee.                          *)

FeeLeaf == <<"param", "flat_validation_fee">>

(* No effect of any trace writes the flat fee. *)
FeeFixed ==
  \A trace \in Traces : \A i \in 1..Len(trace.effects) : trace.effects[i].leaf # FeeLeaf

FeeIn(lf) == IF lf[FeeLeaf] = Absent THEN DefaultFee ELSE lf[FeeLeaf]

GenesisFee == FeeIn(InitLeaf)

Declared(c) == Cal[c].gasLimit # Absent
Steady(c) == Declared(c) \/ FeeFixed

(* The part of a deposit that is for gas. *)
GasDue(c) == IF Declared(c) THEN Cal[c].gasLimit ELSE GenesisFee * LimitMultiplier

(* A deposit a steady CAL may have made: its gas, and a fee on top. *)
Deposit(c, n) ==
  /\ n \in Nat
  /\ Steady(c) => GasDue(c) <= n
  /\ Steady(c) /\ ~Declared(c) => n = GenesisFee + GenesisFee * LimitMultiplier

Unwritten(fx) == FeeFixed => \A i \in 1..Len(fx) : fx[i].leaf # FeeLeaf

(* What a State holds for its CALs: no amount is beyond uint256, a deposit   *)
(* is there from cal.validated on, and the fee is that of the genesis State  *)
(* where nothing writes it.                                                  *)
Funded(st, esc, stg, bal, lf) ==
  /\ esc \in [Cals -> Nat]
  /\ stg \in [Cals -> Seq(Deltas)]
  /\ bal \in [Agents -> Nat]
  /\ lf \in LeafStates
  /\ FeeFixed => lf[FeeLeaf] = InitLeaf[FeeLeaf]
  /\ \A c \in Cals : Unwritten(stg[c])
  /\ \A a \in Agents : bal[a] <= MaxUint
  /\ \A c \in Cals : bal[Cal[c].agent] + esc[c] <= MaxUint
  /\ \A c \in Cals : IF st[c] \in R!PostValidated THEN Deposit(c, esc[c]) ELSE esc[c] = 0

(* What the reducer needs of an event to accept it where the deposit is not  *)
(* made yet, in the State that is there now, *)
DueBefore(e) ==
  LET a == Cal[e.cal].agent IN
  \/ e.type = "validated" /\ Deposit(e.cal, e.amount) /\ e.amount <= balances[a]
  \/ /\ e.type = "failed"
     /\ e.reason \in SpamReasons
     /\ e.amount = Least(FeeIn(leaf), balances[a])
  \/ e.type = "failed" /\ e.reason \in FreeReasons /\ e.amount = 0

PostReasons == {"EXPIRED_POST", "STEP_ERROR", "OUT_OF_GAS", "INVARIANT_FALSE"}

(* and where it is, at stage s, in any State. *)
Refunds(e) ==
  /\ e.amount \in Nat
  /\ Steady(e.cal) => e.amount <= GasDue(e.cal)
  /\ Steady(e.cal) /\ e.reason = "EXPIRED_POST" => e.amount = GasDue(e.cal)

DueAfter(s, e) ==
  \/ /\ s = "VALIDATED" /\ e.type = "executed"
     /\ e.gas \in Nat
     /\ Steady(e.cal) => e.gas <= GasDue(e.cal)
     /\ e.effects \in Seq(Deltas)
     /\ Unwritten(e.effects)
  \/ s = "EXECUTED" /\ e.type = "settled"
  \/ s = "SETTLED" /\ e.type = "finalized" /\ e.reason = "FINALIZED" /\ Refunds(e)
  \/ s \in {"VALIDATED", "EXECUTED"} /\ e.type = "failed" /\ e.reason \in PostReasons /\ Refunds(e)

(* Where an event leaves its CAL. *)
Leads(e) ==
  CASE e.type = "validated" -> "VALIDATED"
    [] e.type = "executed" -> "EXECUTED"
    [] e.type = "settled" -> "SETTLED"
    [] OTHER -> "NONE"

Follows(q) == \A i \in 2..Len(q) : DueAfter(Leads(q[i - 1]), q[i])

(* What is queued is due, first at the stage its CAL is in, and then at the  *)
(* stages its own events lead to.  Only "resume" may queue events of a CAL   *)
(* that is not there.                                                        *)
Due ==
  LET e == queue[1]
      s == stage[e.cal]
  IN  \/ s = "NONE"
      \/ /\ \/ s = "SIGNED" /\ DueBefore(e)
            \/ s \in R!PostValidated /\ DueAfter(s, e)
         /\ Follows(queue)

(* The inductive invariant about money. *)
MoneyInv ==
  /\ Funded(stage, escrowed, staged, balances, leaf)
  /\ Funded(incr.stage, incr.escrowed, incr.staged, incr.balances, incr.leaf)
  /\ \A a \in Agents : Len(incr.receipts[a]) <= Len(receipts[a])
  /\ pc = "folding" => Due

-----------------------------------------------------------------------------
(* Arithmetic of prices. *)

LEMMA ProductNat == \A m, n \in Nat : m * n \in Nat
  OBVIOUS

LEMMA FeeOfDeposit == \A f, m \in Nat : (f + f * m) \div (m + 1) = f
  OBVIOUS

(* A fee and a gas price are amounts, and the pricing of a snapshot is that  *)
(* of its leaves.                                                            *)
LEMMA FeeNat ==
  ASSUME NEW lf \in LeafStates
  PROVE  FeeIn(lf) \in Nat
  <1>1. FeeLeaf \in Leaves
    BY PricingAssumption DEF FeeLeaf, Leaves
  <1>2. DefaultFee \in Nat
    BY PricingAssumption
  <1>3. QED
    BY <1>1, <1>2 DEF FeeIn, LeafStates

LEMMA Prices ==
  ASSUME NEW c \in Cals, leaf \in LeafStates, NEW trace \in Traces
  PROVE  /\ Fee(Snapshot) = FeeIn(leaf) /\ Fee(Snapshot) \in Nat
         /\ MaxGas(c, Snapshot) = IF Declared(c) THEN Cal[c].gasLimit
                                                 ELSE FeeIn(leaf) * LimitMultiplier
         /\ MaxGas(c, Snapshot) \in Nat
         /\ RawGas(c, Snapshot, trace) \in Nat
  <1>1. Fee(Snapshot) = FeeIn(leaf) /\ Fee(Snapshot) \in Nat
    BY FeeNat DEF Fee, ParamOr, Snapshot, FeeIn, FeeLeaf
  <1>2. LimitMultiplier \in Nat /\ OwnerAuthBase \in Nat /\ VerifyWeight \in Nat /\ DefaultGasPrice \in Nat
    BY PricingAssumption
  <1>3. MaxGas(c, Snapshot) = IF Declared(c) THEN Cal[c].gasLimit
                                             ELSE FeeIn(leaf) * LimitMultiplier
    BY <1>1 DEF MaxGas, Declared
  <1>4. MaxGas(c, Snapshot) \in Nat
    <2>1. FeeIn(leaf) * LimitMultiplier \in Nat
      BY <1>1, <1>2, ProductNat
    <2>2. Declared(c) => Cal[c].gasLimit \in Nat
      BY NodeAssumption DEF Declared
    <2>3. QED
      BY <1>3, <2>1, <2>2
  <1>5. GasPrice(Snapshot) \in Nat
    <2>1. <<"param", "gas_price">> \in Leaves
      BY PricingAssumption DEF Leaves
    <2>2. QED
      BY <1>2, <2>1 DEF GasPrice, ParamOr, Snapshot, LeafStates
  <1>6. OwnerAuth(c, Snapshot, trace) \in Nat
    <2>1. \A k \in Nat : OwnerAuthUnits(k) \in Nat
      <3> SUFFICES ASSUME NEW k \in Nat PROVE OwnerAuthUnits(k) \in Nat
        OBVIOUS
      <3>1. k * VerifyWeight \in Nat
        BY <1>2, ProductNat
      <3>2. QED
        BY <1>2, <3>1 DEF OwnerAuthUnits
    <2>2. trace.signers \in Nat
      BY NodeAssumption
    <2>3. QED
      BY <2>1, <2>2 DEF OwnerAuth
  <1>7. RawGas(c, Snapshot, trace) \in Nat
    <2>1. trace.units + OwnerAuth(c, Snapshot, trace) \in Nat
      BY <1>6, NodeAssumption
    <2>2. QED
      BY <1>5, <2>1, ProductNat DEF RawGas
  <1>8. QED
    BY <1>1, <1>3, <1>4, <1>7

(* For a steady CAL the validator sees the same gas budget whenever it looks. *)
LEMMA SteadyPrice ==
  ASSUME NEW c \in Cals, leaf \in LeafStates, FeeFixed => leaf[FeeLeaf] = InitLeaf[FeeLeaf],
         Steady(c)
  PROVE  /\ MaxGas(c, Snapshot) = GasDue(c)
         /\ ~Declared(c) => Fee(Snapshot) = GenesisFee
  <1>1. Fee(Snapshot) = FeeIn(leaf)
    BY DEF Fee, ParamOr, Snapshot, FeeIn, FeeLeaf
  <1>2. MaxGas(c, Snapshot) = IF Declared(c) THEN Cal[c].gasLimit
                                             ELSE FeeIn(leaf) * LimitMultiplier
    BY <1>1 DEF MaxGas, Declared
  <1>3. ~Declared(c) => FeeIn(leaf) = GenesisFee
    BY DEF Steady, GenesisFee, FeeIn
  <1>4. QED
    BY <1>1, <1>2, <1>3 DEF GasDue

-----------------------------------------------------------------------------
(* Effects.  Deltas commit to leaves again, or not at all, and where none of *)
(* them writes a leaf it keeps its value: by induction over the Deltas, in   *)
(* the form of the set of those that are folded.                             *)

LEMMA SameReducer ==
  /\ R!LeafStates = LeafStates
  /\ \A lf, fx : R!Commit(lf, fx) = Commit(lf, fx)
  <1>1. R!LeafStates = LeafStates
    BY DEF R!LeafStates, LeafStates, R!Leaves, Leaves
  <1>2. \A lf, fx : R!Commit(lf, fx) = Commit(lf, fx)
    BY Zenon DEF R!Commit, Commit, R!ApplyDelta, ApplyDelta,
                 R!EnforceOwnerRecord, EnforceOwnerRecord,
                 R!OwnerRecordWellFormed, OwnerRecordWellFormed,
                 R!FoldLeft, FoldLeft, R!MapThenFoldSet, MapThenFoldSet, R!Max, Max
  <1>3. QED
    BY <1>1, <1>2

(* The outcomes that keep the leaves of K. *)
Kept(lf, K) == {Failed} \cup {m \in LeafStates : \A k \in K : m[k] = lf[k]}

CommitOne(m, d) == IF m = Failed THEN Failed ELSE ApplyDelta(m, d)

LEMMA CommitOneKept ==
  ASSUME NEW lf \in LeafStates, NEW K \in SUBSET Leaves,
         NEW m \in Kept(lf, K), NEW d \in Deltas, d.leaf \notin K
  PROVE  CommitOne(m, d) \in Kept(lf, K)
  <1> DEFINE cur == IF m[d.leaf] = Absent THEN 0 ELSE m[d.leaf]
             next == CASE d.op = "set"    -> d.value
                       [] d.op = "add"    -> cur + d.value
                       [] d.op = "sub"    -> cur - d.value
                       [] d.op = "delete" -> Absent
             res == [m EXCEPT ![d.leaf] = next]
  <1>1. CASE CommitOne(m, d) = Failed
    BY <1>1 DEF Kept
  <1>2. CASE CommitOne(m, d) # Failed
    <2>1. m # Failed /\ m \in LeafStates /\ \A k \in K : m[k] = lf[k]
      BY <1>2 DEF CommitOne, Kept
    <2>2. d.leaf \in Leaves /\ d.value \in Nat /\ d.op \in {"set", "add", "sub", "delete"}
      BY DEF Deltas
    <2>3. cur \in Nat
      BY <2>1, <2>2 DEF LeafStates
    <2>4. CommitOne(m, d) = res /\ (d.op = "sub" => next >= 0)
      BY <1>2, <2>1 DEF CommitOne, ApplyDelta
    <2>5. next \in Nat \cup {Absent}
      <3>1. CASE d.op = "set"
        BY <2>2, <3>1
      <3>2. CASE d.op = "add"
        BY <2>2, <2>3, <3>2
      <3>3. CASE d.op = "sub"
        <4>1. next = cur - d.value
          BY <3>3
        <4>2. QED
          BY <2>2, <2>3, <2>4, <3>3, <4>1
      <3>4. CASE d.op = "delete"
        BY <3>4
      <3>5. QED
        BY <2>2, <3>1, <3>2, <3>3, <3>4
    <2> HIDE DEF next
    <2>6. res \in LeafStates /\ \A k \in K : res[k] = m[k]
      BY <2>1, <2>2, <2>5 DEF LeafStates
    <2>7. QED
      BY <2>1, <2>4, <2>6 DEF Kept
  <1>3. QED
    BY <1>1, <1>2

(* What the fold gives for a set of positions, from g, what it gives for the *)
(* smaller ones.                                                             *)
IsCommit(lf, fx, g) ==
  g = [s \in SUBSET DOMAIN fx |->
         IF s = {} THEN lf ELSE CommitOne(g[s \ {Max(s)}], fx[Max(s)])]

LEMMA LastOf ==
  ASSUME NEW n \in Nat, NEW s \in SUBSET (1..n), s # {}
  PROVE  /\ Max(s) \in s
         /\ s \ {Max(s)} \in SUBSET (1..n)
         /\ Cardinality(s \ {Max(s)}) < Cardinality(s)
  <1>1. s \in SUBSET Nat /\ \A y \in s : y <= n
    OBVIOUS
  <1>2. Max(s) \in s
    BY <1>1, MaxIsGreatest
  <1>3. IsFiniteSet(s) /\ Cardinality(s) \in Nat
    <2>1. IsFiniteSet(1..n)
      <3>1. 1 \in Int /\ n \in Int
        OBVIOUS
      <3>2. QED
        BY <3>1, FS_Interval
    <2>2. IsFiniteSet(s)
      BY <2>1, FS_Subset
    <2>3. QED
      BY <2>2, FS_CardinalityType
  <1>4. Cardinality(s \ {Max(s)}) = Cardinality(s) - 1
    BY <1>2, <1>3, FS_RemoveElement
  <1>5. Cardinality(s \ {Max(s)}) < Cardinality(s)
    BY <1>3, <1>4
  <1>6. QED
    BY <1>2, <1>5

LEMMA CommitKeeps ==
  ASSUME NEW lf \in LeafStates, NEW fx \in Seq(Deltas), NEW K \in SUBSET Leaves,
         \A i \in 1..Len(fx) : fx[i].leaf \notin K
  PROVE  Commit(lf, fx) \in Kept(lf, K)
  <1> DEFINE S == DOMAIN fx
             V == Kept(lf, K)
             next == [p \in S \X V |-> CommitOne(p[2], fx[p[1]])]
             pick == [s \in SUBSET S |-> Max(s)]
  <1>1. S = 1..Len(fx) /\ Len(fx) \in Nat /\ IsFiniteSet(S)
    BY FS_Interval
  <1>2. lf \in V
    BY DEF Kept
  <1>3. \A x \in S, v \in V : CommitOne(v, fx[x]) \in V
    <2> SUFFICES ASSUME NEW x \in S, NEW v \in V PROVE CommitOne(v, fx[x]) \in V
      OBVIOUS
    <2>1. fx[x] \in Deltas /\ fx[x].leaf \notin K
      BY <1>1
    <2>2. QED
      BY <2>1, CommitOneKept
  <1>4. \A x \in S, v \in V : next[<<x, v>>] = CommitOne(v, fx[x])
    OBVIOUS
  <1>5. \A s \in SUBSET S : s # {} =>
          /\ pick[s] = Max(s)
          /\ Max(s) \in s
          /\ s \ {Max(s)} \in SUBSET S
          /\ Cardinality(s \ {Max(s)}) < Cardinality(s)
    BY <1>1, LastOf
  <1> HIDE DEF next, pick, V, S
  <1>6. \E g : IsCommit(lf, fx, g)
    <2>1. Foldable(S, V, lf, next, pick)
      BY <1>1, <1>2, <1>3, <1>4, <1>5 DEF Foldable
    <2>2. PICK g : FoldsTo(S, V, lf, next, pick, g)
      BY <2>1, FoldExists
    <2>3. \A s \in SUBSET S : s # {} =>
            next[<<pick[s], g[s \ {pick[s]}]>>] = CommitOne(g[s \ {Max(s)}], fx[Max(s)])
      <3> SUFFICES ASSUME NEW s \in SUBSET S, s # {}
                   PROVE  next[<<pick[s], g[s \ {pick[s]}]>>]
                            = CommitOne(g[s \ {Max(s)}], fx[Max(s)])
        OBVIOUS
      <3>1. pick[s] = Max(s) /\ Max(s) \in S /\ g[s \ {Max(s)}] \in V
        BY <1>5, <2>2 DEF FoldsTo
      <3>2. QED
        BY <1>4, <3>1
    <2>4. FoldRound(S, lf, next, pick, g)
            = [s \in SUBSET S |-> IF s = {} THEN lf ELSE CommitOne(g[s \ {Max(s)}], fx[Max(s)])]
      BY <2>3 DEF FoldRound
    <2>5. g = [s \in SUBSET S |-> IF s = {} THEN lf ELSE CommitOne(g[s \ {Max(s)}], fx[Max(s)])]
      BY <2>2, <2>4 DEF FoldsTo
    <2>6. QED
      BY <2>5 DEF IsCommit, S
  <1> DEFINE g == CHOOSE g : IsCommit(lf, fx, g)
  <1>7. IsCommit(lf, fx, g)
    BY <1>6
  <1>8. Commit(lf, fx) = g[S]
    BY Zenon DEF Commit, FoldLeft, MapThenFoldSet, IsCommit, CommitOne, S
  <1> HIDE DEF g
  <1>9. /\ \A s \in SUBSET S : s = {} => g[s] = lf
        /\ \A s \in SUBSET S : s # {} => g[s] = CommitOne(g[s \ {Max(s)}], fx[Max(s)])
    BY <1>7 DEF IsCommit, S
  <1> DEFINE G == {s \in SUBSET S : g[s] \in V}
  <1>10. ASSUME NEW s \in SUBSET S,
                \A u \in SUBSET S : Cardinality(u) < Cardinality(s) => u \in G
         PROVE  s \in G
    <2>1. CASE s = {}
      BY <1>2, <1>9, <2>1
    <2>2. CASE s # {}
      <3>1. Max(s) \in S /\ s \ {Max(s)} \in G
        BY <1>5, <1>10, <2>2
      <3>2. CommitOne(g[s \ {Max(s)}], fx[Max(s)]) \in V
        BY <1>3, <3>1
      <3>3. QED
        BY <1>9, <2>2, <3>2
    <2>3. QED
      BY <2>1, <2>2
  <1>11. G = SUBSET S
    <2>1. G \in SUBSET SUBSET S
      OBVIOUS
    <2> HIDE DEF G
    <2>2. \A s \in SUBSET S :
            (\A u \in SUBSET S : Cardinality(u) < Cardinality(s) => u \in G) => s \in G
      BY <1>10
    <2>3. IsFiniteSet(S)
      BY <1>1
    <2>4. QED
      BY <2>1, <2>2, <2>3, SubsetInductionSet
  <1>12. S \in G
    BY <1>11
  <1>13. QED
    BY <1>8, <1>12 DEF V

(* The State after a commit, and the fee in it. *)
LEMMA CommitFunded ==
  ASSUME NEW lf \in LeafStates, NEW fx \in Seq(Deltas), Unwritten(fx)
  PROVE  /\ R!Commit(lf, fx) = Failed \/ R!Commit(lf, fx) \in LeafStates
         /\ R!Commit(lf, fx) \in LeafStates /\ FeeFixed =>
              R!Commit(lf, fx)[FeeLeaf] = lf[FeeLeaf]
  <1>1. R!Commit(lf, fx) = Commit(lf, fx)
    BY SameReducer
  <1> DEFINE K == IF FeeFixed THEN {FeeLeaf} ELSE {}
  <1>2. K \in SUBSET Leaves /\ \A i \in 1..Len(fx) : fx[i].leaf \notin K
    BY PricingAssumption DEF Unwritten, FeeLeaf, Leaves
  <1>3. Commit(lf, fx) \in Kept(lf, K)
    <2> HIDE DEF K
    <2>1. QED
      BY <1>2, CommitKeeps
  <1>4. QED
    BY <1>1, <1>3, FailedIsNoState DEF Kept

-----------------------------------------------------------------------------
(* What the validator returns is due. *)

(* A failed gate is charged as spam or not at all, from the balance of now;  *)
(* the deposit is covered by it.                                             *)
LEMMA PhaseADue ==
  ASSUME NEW c \in Cals, NEW trace, NEW now,
         Funded(stage, escrowed, staged, balances, leaf)
  PROVE  LET q == PhaseA(c, Snapshot, trace, now) IN
         /\ Len(q) = 1 /\ q[1].cal = c
         /\ DueBefore(q[1])
         /\ Passes(c, Snapshot, trace, now) => Leads(q[1]) = "VALIDATED"
  <1> DEFINE gates == Gates(c, Snapshot, trace, now)
             failed == {i \in DOMAIN gates : ~gates[i].holds}
             q == PhaseA(c, Snapshot, trace, now)
             a == Cal[c].agent
             d == Fee(Snapshot) + MaxGas(c, Snapshot)
  <1>1. DOMAIN gates = 1..9
    BY DEF Gates
  <1>2. gates[9].holds <=> balances[a] >= d
    BY DEF Gates, Gate, Snapshot
  <1>3. \A i \in 1..9 : gates[i].reason \in SpamReasons \cup FreeReasons
    BY DEF Gates, Gate, SpamReasons, FreeReasons
  <1>4. leaf \in LeafStates /\ balances \in [Agents -> Nat] /\ a \in Agents
    BY NodeAssumption DEF Funded
  <1>5. Fee(Snapshot) = FeeIn(leaf)
    BY DEF Fee, ParamOr, Snapshot, FeeIn, FeeLeaf
  <1>6. CASE Passes(c, Snapshot, trace, now)
    <2> DEFINE e == Event("validated", c, d, "-")
    <2>1. q = <<e>>
      BY <1>6 DEF PhaseA
    <2>2. e.type = "validated" /\ e.cal = c /\ e.amount = d
      BY DEF Event
    <2>3. Deposit(c, d)
      <3>1. MaxGas(c, Snapshot) \in Nat /\ Fee(Snapshot) \in Nat
        <4>1. MaxGas(c, Snapshot) = IF Declared(c) THEN Cal[c].gasLimit
                                                   ELSE FeeIn(leaf) * LimitMultiplier
          BY <1>5 DEF MaxGas, Declared
        <4>2. Fee(Snapshot) \in Nat /\ LimitMultiplier \in Nat
          BY <1>4, <1>5, FeeNat, PricingAssumption
        <4>3. FeeIn(leaf) * LimitMultiplier \in Nat
          BY <1>5, <4>2, ProductNat
        <4>4. Declared(c) => Cal[c].gasLimit \in Nat
          BY NodeAssumption DEF Declared
        <4>5. QED
          BY <4>1, <4>2, <4>3, <4>4
      <3>2. Steady(c) => /\ MaxGas(c, Snapshot) = GasDue(c)
                         /\ ~Declared(c) => Fee(Snapshot) = GenesisFee
        BY <1>4, SteadyPrice DEF Funded
      <3>3. ~Declared(c) => GasDue(c) = GenesisFee * LimitMultiplier
        BY DEF GasDue
      <3>4. QED
        BY <3>1, <3>2, <3>3 DEF Deposit
    <2>4. d <= balances[a]
      <3>1. balances[a] >= d
        BY <1>1, <1>2, <1>6 DEF Passes
      <3>2. balances[a] \in Nat /\ d \in Nat
        BY <1>4, <2>3 DEF Deposit
      <3> HIDE DEF d
      <3>3. QED
        BY <3>1, <3>2
    <2> HIDE DEF e, q
    <2>5. q \in Seq({e}) /\ Len(q) = 1 /\ q[1] = e
      BY <2>1
    <2>6. DueBefore(q[1]) /\ Leads(q[1]) = "VALIDATED"
      BY <2>2, <2>3, <2>4, <2>5 DEF DueBefore, Leads
    <2>7. QED
      BY <2>2, <2>5, <2>6 DEF q
  <1>7. CASE ~Passes(c, Snapshot, trace, now)
    <2>1. Min(failed) \in failed
      BY <1>1, <1>7, FirstFailed DEF Passes
    <2> DEFINE reason == gates[Min(failed)].reason
               amount == IF reason \in SpamReasons THEN SpamCharge(c, Snapshot) ELSE 0
               e == Event("failed", c, amount, reason)
    <2>2. reason \in SpamReasons \cup FreeReasons
      BY <1>1, <1>3, <2>1
    <2>3. q = <<e>>
      BY <1>7 DEF PhaseA, PreFailure
    <2>4. e.type = "failed" /\ e.cal = c /\ e.reason = reason /\ e.amount = amount
      BY DEF Event
    <2>5. SpamCharge(c, Snapshot) = Least(FeeIn(leaf), balances[a])
      BY <1>5 DEF SpamCharge, Snapshot
    <2>6. amount = IF reason \in SpamReasons THEN Least(FeeIn(leaf), balances[a]) ELSE 0
      BY <2>5
    <2> HIDE DEF e, reason, q, amount
    <2>7. q \in Seq({e}) /\ Len(q) = 1 /\ q[1] = e
      BY <2>3
    <2>8. DueBefore(q[1])
      BY <2>2, <2>4, <2>6, <2>7 DEF DueBefore
    <2>9. QED
      BY <1>7, <2>4, <2>7, <2>8 DEF q
  <1>8. QED
    BY <1>6, <1>7

(* Behind the deposit: one refund within the budget, or the effects within   *)
(* it and then such a refund.                                                *)
LEMMA PhaseBDue ==
  ASSUME NEW c \in Cals, NEW trace \in Traces, NEW now,
         Funded(stage, escrowed, staged, balances, leaf)
  PROVE  LET q == PhaseB(c, Snapshot, trace, now) IN
         /\ Len(q) \in Nat /\ Len(q) > 0 /\ q[1].cal = c
         /\ DueAfter("VALIDATED", q[1])
         /\ Follows(q)
  <1> DEFINE raw == RawGas(c, Snapshot, trace)
             max == MaxGas(c, Snapshot)
             fail(reason) ==
        Event("failed", c, max - (IF reason = "EXPIRED_POST" THEN 0
                             ELSE Least(raw, max)), reason)
             executed == ExecutedEvent(c, trace.effects, raw)
             settled == Event("settled", c, 0, "-")
             finalized == Event("finalized", c, max - raw, "FINALIZED")
             q == PhaseB(c, Snapshot, trace, now)
  <1>1. raw \in Nat /\ max \in Nat
    BY Prices DEF Funded
  <1>2. Steady(c) => max = GasDue(c)
    BY SteadyPrice DEF Funded
  <1>3. trace.effects \in Seq(Deltas) /\ Unwritten(trace.effects)
    BY NodeAssumption DEF Unwritten, FeeFixed
  <1>4. \/ \E reason \in {"EXPIRED_POST", "STEP_ERROR", "OUT_OF_GAS"} : q = <<fail(reason)>>
        \/ raw <= max /\ q = <<executed>> \o <<fail("INVARIANT_FALSE")>>
        \/ raw <= max /\ q = <<executed>> \o <<settled, finalized>>
    <2>1. ~(raw > max) => raw <= max
      <3> HIDE DEF raw, max
      <3>1. QED
        BY <1>1
    <2>2. QED
      BY <2>1 DEF PhaseB, PostFailure
  <1>5. \A reason : /\ fail(reason).type = "failed" /\ fail(reason).cal = c
                    /\ fail(reason).reason = reason
                    /\ fail(reason).amount = max - (IF reason = "EXPIRED_POST" THEN 0
                                                    ELSE Least(raw, max))
    BY DEF Event
  <1>6. /\ executed.type = "executed" /\ executed.cal = c /\ executed.gas = raw
        /\ executed.effects = trace.effects
        /\ settled.type = "settled" /\ settled.cal = c
        /\ finalized.type = "finalized" /\ finalized.cal = c
        /\ finalized.reason = "FINALIZED" /\ finalized.amount = max - raw
    BY DEF Event, ExecutedEvent
  <1> HIDE DEF fail, executed, settled, finalized, q, raw, max
  <1>7. \A reason \in PostReasons, s \in {"VALIDATED", "EXECUTED"} : DueAfter(s, fail(reason))
    <2> SUFFICES ASSUME NEW reason \in PostReasons, NEW s \in {"VALIDATED", "EXECUTED"}
                 PROVE  DueAfter(s, fail(reason))
      OBVIOUS
    <2> DEFINE e == fail(reason)
               used == IF reason = "EXPIRED_POST" THEN 0 ELSE Least(raw, max)
    <2>1. used \in Nat /\ used <= max /\ (reason = "EXPIRED_POST" => used = 0)
      BY <1>1 DEF Least
    <2>2. e.amount = max - used /\ e.type = "failed" /\ e.cal = c /\ e.reason = reason
      BY <1>5
    <2> HIDE DEF e, used
    <2>3. e.amount \in Nat /\ e.amount <= max /\ (reason = "EXPIRED_POST" => e.amount = max)
      BY <1>1, <2>1, <2>2
    <2>4. Refunds(e)
      BY <1>2, <2>2, <2>3 DEF Refunds
    <2>5. DueAfter(s, e)
      BY <2>2, <2>4 DEF DueAfter
    <2>6. QED
      BY <2>5 DEF e
  <1>8. raw <= max => DueAfter("VALIDATED", executed) /\ Leads(executed) = "EXECUTED"
    BY <1>1, <1>2, <1>3, <1>6 DEF DueAfter, Leads
  <1>9. DueAfter("EXECUTED", settled) /\ Leads(settled) = "SETTLED"
    BY <1>6 DEF DueAfter, Leads
  <1>10. raw <= max => DueAfter("SETTLED", finalized)
    <2> SUFFICES ASSUME raw <= max PROVE DueAfter("SETTLED", finalized)
      OBVIOUS
    <2>1. max - raw \in Nat /\ max - raw <= max
      BY <1>1
    <2>2. finalized.amount \in Nat /\ finalized.amount <= max
      BY <1>6, <2>1
    <2>3. Refunds(finalized)
      BY <1>2, <1>6, <2>2 DEF Refunds
    <2>4. QED
      BY <1>6, <2>3 DEF DueAfter
  <1>11. ASSUME NEW reason \in {"EXPIRED_POST", "STEP_ERROR", "OUT_OF_GAS"}, q = <<fail(reason)>>
         PROVE  /\ Len(q) \in Nat /\ Len(q) > 0 /\ q[1].cal = c
                /\ DueAfter("VALIDATED", q[1])
                /\ Follows(q)
    <2>1. q \in Seq({fail(reason)}) /\ Len(q) = 1 /\ q[1] = fail(reason)
      BY <1>11
    <2>2. Follows(q)
      <3>1. \A i \in 2..Len(q) : FALSE
        BY <2>1
      <3>2. QED
        BY <3>1 DEF Follows
    <2>3. reason \in PostReasons
      BY DEF PostReasons
    <2>4. QED
      BY <1>5, <1>7, <2>1, <2>2, <2>3
  <1>12. CASE raw <= max /\ q = <<executed>> \o <<fail("INVARIANT_FALSE")>>
    <2>1. Len(q) = 2 /\ q[1] = executed /\ q[2] = fail("INVARIANT_FALSE")
      BY <1>12
    <2>2. DueAfter("EXECUTED", fail("INVARIANT_FALSE"))
      BY <1>7 DEF PostReasons
    <2>3. Follows(q)
      <3>1. \A i \in 2..Len(q) : i = 2 /\ i - 1 = 1
        BY <2>1
      <3>2. DueAfter(Leads(q[1]), q[2])
        BY <1>8, <1>12, <2>1, <2>2
      <3>3. QED
        BY <3>1, <3>2 DEF Follows
    <2>4. QED
      BY <1>6, <1>8, <1>12, <2>1, <2>3 DEF q
  <1>13. CASE raw <= max /\ q = <<executed>> \o <<settled, finalized>>
    <2>1. Len(q) = 3 /\ q[1] = executed /\ q[2] = settled /\ q[3] = finalized
      <3> DEFINE S == {executed, settled, finalized}
                 one == <<executed>>
                 two == <<settled, finalized>>
      <3>1. /\ one \in Seq(S) /\ Len(one) = 1 /\ one[1] = executed
            /\ two \in Seq(S) /\ Len(two) = 2 /\ two[1] = settled /\ two[2] = finalized
        OBVIOUS
      <3>2. q = one \o two
        BY <1>13
      <3> HIDE DEF one, two, S
      <3>3. Len(q) = 3 /\ q[1] = one[1] /\ \A i \in 2..3 : q[i] = two[i - 1]
        BY <3>1, <3>2, OneInFront
      <3>4. q[2] = two[1] /\ q[3] = two[2]
        BY <3>3
      <3>5. QED
        BY <3>1, <3>3, <3>4
    <2>2. Follows(q)
      <3>1. \A i \in 2..Len(q) : (i = 2 /\ i - 1 = 1) \/ (i = 3 /\ i - 1 = 2)
        BY <2>1
      <3>2. DueAfter(Leads(q[1]), q[2]) /\ DueAfter(Leads(q[2]), q[3])
        BY <1>8, <1>9, <1>10, <1>13, <2>1
      <3>3. QED
        BY <3>1, <3>2 DEF Follows
    <2>3. QED
      BY <1>6, <1>8, <1>13, <2>1, <2>2 DEF q
  <1>14. QED
    BY <1>4, <1>11, <1>12, <1>13 DEF q

(* ... and in one call. *)
LEMMA ValidateDue ==
  ASSUME NEW c \in Cals, NEW trace \in Traces, NEW now,
         Funded(stage, escrowed, staged, balances, leaf)
  PROVE  LET q == Validate(c, Snapshot, trace, now) IN
         q[1].cal = c /\ DueBefore(q[1]) /\ Follows(q)
  <1> DEFINE a == PhaseA(c, Snapshot, trace, now)
             b == PhaseB(c, Snapshot, trace, now)
             q == Validate(c, Snapshot, trace, now)
  <1>1. /\ Len(a) = 1 /\ a[1].cal = c /\ DueBefore(a[1])
        /\ Passes(c, Snapshot, trace, now) => Leads(a[1]) = "VALIDATED"
    BY PhaseADue
  <1>2. /\ Len(b) \in Nat /\ Len(b) > 0
        /\ DueAfter("VALIDATED", b[1]) /\ Follows(b)
    BY PhaseBDue
  <1>3. q = a \o IF Passes(c, Snapshot, trace, now) THEN b ELSE <<>>
    BY DEF Validate
  <1>4. PICK S : a \in Seq(S)
    BY PhaseAScript DEF Script
  <1>5. PICK T : b \in Seq(T)
    BY PhaseBScript DEF Script
  <1> HIDE DEF a, b, q
  <1>6. CASE ~Passes(c, Snapshot, trace, now)
    <2>1. q = a
      <3>1. q = a \o <<>>
        BY <1>3, <1>6
      <3>2. a \o <<>> = a
        BY <1>4, ConcatEmptySeq, Zenon
      <3>3. QED
        BY <3>1, <3>2
    <2>2. Follows(q)
      <3>1. Len(q) = 1
        BY <1>1, <2>1
      <3>2. \A i \in 2..Len(q) : FALSE
        BY <3>1
      <3>3. QED
        BY <3>2 DEF Follows
    <2>3. QED
      BY <1>1, <2>1, <2>2 DEF q
  <1>7. CASE Passes(c, Snapshot, trace, now)
    <2>0. \A n \in Nat : \A i \in 2..n + 1 : i # 2 => i - 1 \in 2..n /\ i - 1 \in 2..n + 1
      OBVIOUS
    <2>1. q = a \o b /\ a \in Seq(S \cup T) /\ b \in Seq(S \cup T)
      <3>1. a \in Seq(S \cup T)
        BY <1>4
      <3>2. b \in Seq(S \cup T)
        BY <1>5
      <3>3. QED
        BY <1>3, <1>7, <3>1, <3>2
    <2>2. /\ q \in Seq(S \cup T) /\ Len(q) = Len(b) + 1 /\ q[1] = a[1]
          /\ \A i \in 2..Len(b) + 1 : i - 1 \in 1..Len(b) /\ q[i] = b[i - 1]
      BY <1>1, <2>1, OneInFront
    <2>3. ASSUME NEW i \in 2..Len(q) PROVE DueAfter(Leads(q[i - 1]), q[i])
      <3>1. i \in 2..Len(b) + 1 /\ q[i] = b[i - 1]
        BY <1>2, <2>2
      <3>2. CASE i = 2
        <4>1. q[i] = b[1] /\ q[i - 1] = a[1]
          BY <2>2, <3>1, <3>2
        <4>2. QED
          BY <1>1, <1>2, <1>7, <4>1
      <3>3. CASE i # 2
        <4> DEFINE j == i - 1
        <4>1. j \in 2..Len(b) /\ j \in 2..Len(b) + 1
          BY <1>2, <2>0, <3>1, <3>3
        <4>2. q[i] = b[j] /\ q[j] = b[j - 1]
          BY <2>2, <3>1, <4>1
        <4> HIDE DEF j
        <4>3. DueAfter(Leads(b[j - 1]), b[j])
          BY <1>2, <4>1 DEF Follows
        <4>4. QED
          BY <4>2, <4>3 DEF j
      <3>4. QED
        BY <3>2, <3>3
    <2>4. QED
      BY <1>1, <2>2, <2>3 DEF Follows, q
  <1>8. QED
    BY <1>6, <1>7

-----------------------------------------------------------------------------
(* One event moves one CAL, its deposit and the balance of its agent. *)
LEMMA FundedMove ==
  ASSUME NEW st, NEW esc, NEW stg, NEW bal, NEW lf, Funded(st, esc, stg, bal, lf),
         st \in [Cals -> R!Stages \cup {"NONE"}],
         NEW c \in Cals, NEW s, NEW n \in Nat, NEW fx \in Seq(Deltas), NEW b \in Nat, NEW lf2,
         \A d \in Cals : st[d] # "NONE" /\ Cal[d].agent = Cal[c].agent => d = c,
         b + n <= bal[Cal[c].agent] + esc[c],
         IF s \in R!PostValidated THEN Deposit(c, n) ELSE n = 0,
         Unwritten(fx),
         lf2 \in LeafStates, FeeFixed => lf2[FeeLeaf] = lf[FeeLeaf]
  PROVE  Funded([st EXCEPT ![c] = s], [esc EXCEPT ![c] = n], [stg EXCEPT ![c] = fx],
                [bal EXCEPT ![Cal[c].agent] = b], lf2)
  <1> DEFINE a == Cal[c].agent
             st2 == [st EXCEPT ![c] = s]
             esc2 == [esc EXCEPT ![c] = n]
             stg2 == [stg EXCEPT ![c] = fx]
             bal2 == [bal EXCEPT ![a] = b]
  <1>1. a \in Agents /\ \A d \in Cals : Cal[d].agent \in Agents
    BY NodeAssumption
  <1>2. /\ esc \in [Cals -> Nat] /\ stg \in [Cals -> Seq(Deltas)] /\ bal \in [Agents -> Nat]
        /\ FeeFixed => lf[FeeLeaf] = InitLeaf[FeeLeaf]
        /\ \A d \in Cals : Unwritten(stg[d])
        /\ \A x \in Agents : bal[x] <= MaxUint
        /\ \A d \in Cals : bal[Cal[d].agent] + esc[d] <= MaxUint
        /\ \A d \in Cals : IF st[d] \in R!PostValidated THEN Deposit(d, esc[d]) ELSE esc[d] = 0
    BY DEF Funded
  <1>3. /\ st2[c] = s /\ \A d \in Cals : d # c => st2[d] = st[d]
        /\ esc2 \in [Cals -> Nat] /\ esc2[c] = n /\ \A d \in Cals : d # c => esc2[d] = esc[d]
        /\ stg2 \in [Cals -> Seq(Deltas)] /\ stg2[c] = fx
        /\ \A d \in Cals : d # c => stg2[d] = stg[d]
        /\ bal2 \in [Agents -> Nat] /\ bal2[a] = b /\ \A x \in Agents : x # a => bal2[x] = bal[x]
    BY <1>1, <1>2
  <1>4. MaxUint \in Nat /\ bal[a] \in Nat /\ esc[c] \in Nat
    BY <1>1, <1>2, DeltaAssumption
  <1>5. b + n <= MaxUint /\ b <= MaxUint
    <2>1. bal[a] + esc[c] <= MaxUint
      BY <1>2
    <2>2. QED
      BY <1>4, <2>1
  <1>6. \A d \in Cals : d # c /\ Cal[d].agent = a => st[d] \notin R!PostValidated /\ esc[d] = 0
    BY <1>2 DEF R!PostValidated, R!Stages
  <1> HIDE DEF st2, esc2, stg2, bal2, a
  <1>7. \A d \in Cals : Unwritten(stg2[d])
    BY <1>2, <1>3
  <1>8. \A x \in Agents : bal2[x] <= MaxUint
    BY <1>2, <1>3, <1>5
  <1>9. ASSUME NEW d \in Cals PROVE bal2[Cal[d].agent] + esc2[d] <= MaxUint
    <2>1. CASE d = c
      BY <1>3, <1>5, <2>1 DEF a
    <2>2. CASE d # c /\ Cal[d].agent = a
      <3>1. bal2[Cal[d].agent] = b /\ esc2[d] = 0
        BY <1>3, <1>6, <2>2
      <3>2. b + 0 <= MaxUint
        BY <1>5
      <3>3. QED
        BY <3>1, <3>2
    <2>3. CASE d # c /\ Cal[d].agent # a
      BY <1>1, <1>2, <1>3, <2>3
    <2>4. QED
      BY <2>1, <2>2, <2>3
  <1>10. ASSUME NEW d \in Cals
         PROVE  IF st2[d] \in R!PostValidated THEN Deposit(d, esc2[d]) ELSE esc2[d] = 0
    <2>1. CASE d = c
      BY <1>3, <2>1
    <2>2. CASE d # c
      BY <1>2, <1>3, <2>2
    <2>3. QED
      BY <2>1, <2>2
  <1>11. Funded(st2, esc2, stg2, bal2, lf2)
    BY <1>2, <1>3, <1>7, <1>8, <1>9, <1>10 DEF Funded
  <1>12. QED
    BY <1>11 DEF st2, esc2, stg2, bal2, a

(* The genesis State: nothing in flight, and balances within uint256. *)
LEMMA InitMoney == NodeInit => MoneyInv
  <1> SUFFICES ASSUME NodeInit PROVE MoneyInv
    OBVIOUS
  <1>1. /\ stage = [c \in Cals |-> "NONE"] /\ escrowed = [c \in Cals |-> 0]
        /\ staged = [c \in Cals |-> <<>>] /\ balances = InitBalances /\ leaf = InitLeaf
        /\ receipts = [a \in Agents |-> <<>>] /\ pc = "out" /\ incr = Current
    BY DEF NodeInit, R!Init
  <1>2. /\ InitBalances \in [Agents -> 0..MaxUint] /\ InitLeaf \in LeafStates
        /\ \A c \in Cals : Cal[c].agent \in Agents
    BY NodeAssumption
  <1>3. Funded(stage, escrowed, staged, balances, leaf)
    <2>1. MaxUint \in Nat
      BY DeltaAssumption
    <2>2. /\ balances \in [Agents -> Nat]
          /\ \A a \in Agents : balances[a] <= MaxUint
          /\ escrowed \in [Cals -> Nat] /\ \A c \in Cals : escrowed[c] = 0
      BY <1>1, <1>2, <2>1
    <2>3. \A c \in Cals : balances[Cal[c].agent] + escrowed[c] <= MaxUint
      BY <1>2, <2>1, <2>2
    <2>4. staged \in [Cals -> Seq(Deltas)] /\ \A c \in Cals : staged[c] = <<>>
      BY <1>1
    <2>5. \A c \in Cals : Unwritten(staged[c])
      <3>1. \A i \in 1..Len(<<>>) : FALSE
        OBVIOUS
      <3>2. QED
        BY <2>4, <3>1 DEF Unwritten
    <2>6. \A c \in Cals : stage[c] \notin R!PostValidated
      BY <1>1 DEF R!PostValidated, R!Stages
    <2>7. QED
      BY <1>1, <1>2, <2>2, <2>3, <2>4, <2>5, <2>6 DEF Funded
  <1>4. /\ incr.stage = stage /\ incr.escrowed = escrowed /\ incr.staged = staged
        /\ incr.balances = balances /\ incr.leaf = leaf /\ incr.receipts = receipts
    BY <1>1 DEF Current
  <1>5. \A a \in Agents : Len(incr.receipts[a]) <= Len(receipts[a])
    BY <1>1, <1>4
  <1>6. QED
    BY <1>1, <1>3, <1>4, <1>5 DEF MoneyInv

(* What is not folded moves no money. *)
LEMMA IdleMoney ==
  ASSUME MoneyInv, UNCHANGED <<stage, escrowed, staged, balances, leaf, receipts, incr>>,
         pc' # "folding" \/ UNCHANGED <<pc, queue>>
  PROVE  MoneyInv'
  <1>1. Funded(stage, escrowed, staged, balances, leaf)'
    BY DEF MoneyInv
  <1>2. pc' = "folding" => Due'
    BY DEF MoneyInv, Due, DueBefore
  <1>3. QED
    BY <1>1, <1>2 DEF MoneyInv

LEMMA IngressMoney ==
  ASSUME NodeInv, MoneyInv,
         \/ \E c \in Cals, mode \in {"atomic", "validate-only"} : Submit(c, mode)
         \/ Sign
  PROVE  MoneyInv'
  <1>1. stage \in [Cals -> R!Stages \cup {"NONE"}]
    BY DEF NodeInv, Booked
  <1>2. Funded(stage, escrowed, staged, balances, leaf)
    BY DEF MoneyInv
  <1>3. /\ escrowed \in [Cals -> Nat] /\ staged \in [Cals -> Seq(Deltas)]
        /\ balances \in [Agents -> Nat] /\ leaf \in LeafStates
    BY <1>2 DEF Funded
  <1>4. ASSUME NEW c \in Cals, NEW s \in {"CREATED", "SIGNED"}, NEW fx \in Seq(Deltas),
               stage' = [stage EXCEPT ![c] = s],
               escrowed' = [escrowed EXCEPT ![c] = 0],
               staged' = [staged EXCEPT ![c] = fx],
               Unwritten(fx),
               \A d \in Cals : stage[d] # "NONE" /\ Cal[d].agent = Cal[c].agent => d = c,
               UNCHANGED <<balances, leaf, receipts, incr>>, pc' # "folding"
        PROVE  MoneyInv'
    <2> DEFINE a == Cal[c].agent
               b == balances[a]
    <2>1. a \in Agents /\ b \in Nat /\ escrowed[c] \in Nat /\ b + 0 <= b + escrowed[c]
      BY <1>3, NodeAssumption
    <2>2. s \notin R!PostValidated
      BY DEF R!PostValidated, R!PreValidated
    <2>3. balances' = [balances EXCEPT ![a] = b]
      BY <1>3, <1>4, <2>1
    <2> HIDE DEF a, b
    <2>4. Funded([stage EXCEPT ![c] = s], [escrowed EXCEPT ![c] = 0], [staged EXCEPT ![c] = fx],
                 [balances EXCEPT ![Cal[c].agent] = b], leaf)
      <3>1. b + 0 <= balances[Cal[c].agent] + escrowed[c]
        BY <2>1 DEF a, b
      <3> DEFINE z == 0
      <3>2. z \in Nat /\ z = 0 /\ b + z <= balances[Cal[c].agent] + escrowed[c]
        BY <3>1
      <3> HIDE DEF z
      <3>3. Funded([stage EXCEPT ![c] = s], [escrowed EXCEPT ![c] = z], [staged EXCEPT ![c] = fx],
                   [balances EXCEPT ![Cal[c].agent] = b], leaf)
        BY <1>1, <1>2, <1>3, <1>4, <2>1, <2>2, <3>2, FundedMove
      <3>4. QED
        BY <3>2, <3>3
    <2>5. Funded(stage', escrowed', staged', balances', leaf')
      BY <1>4, <2>3, <2>4 DEF a
    <2>6. QED
      BY <1>4, <2>5 DEF MoneyInv
  <1>5. ASSUME NEW c \in Cals, NEW mode, Submit(c, mode) PROVE MoneyInv'
    <2>1. /\ stage' = [stage EXCEPT ![c] = "CREATED"]
          /\ escrowed' = [escrowed EXCEPT ![c] = 0]
          /\ staged' = [staged EXCEPT ![c] = <<>>]
          /\ UNCHANGED <<balances, leaf, receipts, incr>> /\ pc' # "folding"
          /\ \A d \in Cals : stage[d] # "NONE" => AgentOf[d] # AgentOf[c]
      BY <1>5 DEF Submit, R!Created, R!CanCreate, R!InFlight, R!moneyVars
    <2> DEFINE fx == <<>>
    <2>2. fx \in Seq(Deltas) /\ Unwritten(fx) /\ staged' = [staged EXCEPT ![c] = fx]
      <3>1. \A i \in 1..Len(<<>>) : FALSE
        OBVIOUS
      <3>2. QED
        BY <2>1, <3>1 DEF Unwritten
    <2> HIDE DEF fx
    <2>3. \A d \in Cals : stage[d] # "NONE" /\ Cal[d].agent = Cal[c].agent => d = c
      BY <2>1 DEF AgentOf
    <2>4. QED
      BY <1>4, <2>1, <2>2, <2>3
  <1>6. CASE Sign
    <2> DEFINE c == sub.cal
    <2>1. /\ c \in Cals /\ stage[c] = "CREATED" /\ stage' = [stage EXCEPT ![c] = "SIGNED"]
          /\ UNCHANGED <<escrowed, staged, balances, leaf, receipts, incr>> /\ pc' # "folding"
      BY <1>6 DEF Sign, R!Signed, R!moneyVars, NodeInv
    <2> DEFINE fx == staged[c]
    <2>2. fx \in Seq(Deltas) /\ Unwritten(fx)
      BY <1>2, <1>3, <2>1 DEF Funded
    <2>3. escrowed[c] = 0
      BY <1>2, <2>1 DEF Funded, R!PostValidated, R!PreValidated, R!Stages
    <2>4. /\ escrowed' = [escrowed EXCEPT ![c] = 0]
          /\ staged' = [staged EXCEPT ![c] = fx]
      BY <1>3, <2>1, <2>3
    <2>5. \A d \in Cals : stage[d] # "NONE" /\ Cal[d].agent = Cal[c].agent => d = c
      BY <2>1 DEF NodeInv, Booked
    <2> HIDE DEF fx, c
    <2>6. QED
      BY <1>4, <2>1, <2>2, <2>4, <2>5
  <1>7. QED
    BY <1>5, <1>6

(* What the validator is asked for is due. *)
LEMMA CallMoney ==
  ASSUME NodeInv, MoneyInv,
         \/ \E trace \in Traces : CallValidator(trace)
         \/ \E c \in Cals, trace \in Traces : Resume(c, trace)
  PROVE  MoneyInv'
  <1>1. Funded(stage, escrowed, staged, balances, leaf)
    BY DEF MoneyInv
  <1>2. ASSUME UNCHANGED <<state, receipts, incr>>,
               LET e == queue'[1] IN
                 \/ stage[e.cal] = "NONE"
                 \/ /\ \/ stage[e.cal] = "SIGNED" /\ DueBefore(e)
                       \/ stage[e.cal] = "VALIDATED" /\ DueAfter("VALIDATED", e)
                    /\ Follows(queue')
        PROVE  MoneyInv'
    <2>1. UNCHANGED <<stage, escrowed, staged, balances, leaf>>
      BY <1>2 DEF state
    <2>2. DueBefore(queue'[1]) => DueBefore(queue[1])'
      BY <2>1 DEF DueBefore
    <2>3. "VALIDATED" \in R!PostValidated
      BY DEF R!PostValidated, R!PreValidated, R!Stages
    <2>4. Due'
      BY <1>2, <2>1, <2>2, <2>3 DEF Due
    <2>5. QED
      BY <1>1, <1>2, <2>1, <2>4 DEF MoneyInv
  <1>3. ASSUME NEW trace \in Traces, CallValidator(trace) PROVE MoneyInv'
    <2> DEFINE c == sub.cal
    <2>1. /\ pc = "signed" /\ UNCHANGED <<state, receipts, incr>>
          /\ \/ queue' = Validate(c, Snapshot, trace, tick)
             \/ queue' = PhaseA(c, Snapshot, trace, tick)
      BY <1>3 DEF CallValidator
    <2>2. c \in Cals /\ stage[c] = "SIGNED"
      BY <2>1 DEF NodeInv
    <2> HIDE DEF c
    <2>3. queue'[1].cal = c /\ DueBefore(queue'[1]) /\ Follows(queue')
      <3>1. CASE queue' = Validate(c, Snapshot, trace, tick)
        BY <1>1, <2>2, <3>1, ValidateDue
      <3>2. CASE queue' = PhaseA(c, Snapshot, trace, tick)
        <4>1. Len(queue') = 1 /\ queue'[1].cal = c /\ DueBefore(queue'[1])
          BY <1>1, <2>2, <3>2, PhaseADue
        <4>2. \A i \in 2..Len(queue') : FALSE
          BY <4>1
        <4>3. QED
          BY <4>1, <4>2 DEF Follows
      <3>3. QED
        BY <2>1, <3>1, <3>2
    <2>4. QED
      BY <1>2, <2>1, <2>2, <2>3
  <1>4. ASSUME NEW c \in Cals, NEW trace \in Traces, Resume(c, trace) PROVE MoneyInv'
    <2>1. /\ pc = "ready" /\ UNCHANGED <<state, receipts, incr>>
          /\ queue' = PhaseB(c, Snapshot, trace, tick)
      BY <1>4 DEF Resume
    <2>2. stage[c] \in {"NONE", "VALIDATED"}
      BY <2>1 DEF NodeInv, Resting
    <2>3. queue'[1].cal = c /\ DueAfter("VALIDATED", queue'[1]) /\ Follows(queue')
      BY <1>1, <2>1, PhaseBDue
    <2>4. QED
      BY <1>2, <2>1, <2>2, <2>3
  <1>5. QED
    BY <1>3, <1>4

(* The event that is folded now: of a CAL in flight, and due. *)
Turn(e, c) ==
  /\ e.cal = c
  /\ stage[c] # "NONE"
  /\ \/ stage[c] = "SIGNED" /\ DueBefore(e)
     \/ stage[c] \in R!PostValidated /\ DueAfter(stage[c], e)

(* An event that is due keeps the State funded, and leads where it should. *)
LEMMA ApplyFunded ==
  ASSUME NodeInv, Funded(stage, escrowed, staged, balances, leaf),
         NEW e, NEW c \in Cals, Turn(e, c), Apply(e)
  PROVE  /\ Funded(stage', escrowed', staged', balances', leaf')
         /\ stage' = [stage EXCEPT ![c] = Leads(e)]
  <1> DEFINE a == Cal[c].agent
  <1>1. /\ stage \in [Cals -> R!Stages \cup {"NONE"}]
        /\ stage[c] # "NONE" /\ e.cal = c
        /\ \A d \in Cals : stage[d] # "NONE" /\ Cal[d].agent = Cal[c].agent => d = c
    BY DEF NodeInv, Booked, Turn
  <1>2. /\ escrowed \in [Cals -> Nat] /\ staged \in [Cals -> Seq(Deltas)]
        /\ balances \in [Agents -> Nat] /\ leaf \in LeafStates
        /\ Unwritten(staged[c])
        /\ IF stage[c] \in R!PostValidated THEN Deposit(c, escrowed[c]) ELSE escrowed[c] = 0
    BY DEF Funded
  <1>3. /\ a \in Agents /\ AgentOf[c] = a
        /\ balances[a] \in Nat /\ escrowed[c] \in Nat /\ staged[c] \in Seq(Deltas)
    BY <1>2, NodeAssumption DEF AgentOf
  <1>4. /\ staged = [staged EXCEPT ![c] = staged[c]]
        /\ escrowed = [escrowed EXCEPT ![c] = escrowed[c]]
        /\ balances = [balances EXCEPT ![a] = balances[a]]
    BY <1>2, <1>3
  <1>5. /\ "VALIDATED" \in R!PostValidated /\ "EXECUTED" \in R!PostValidated
        /\ "SETTLED" \in R!PostValidated /\ "NONE" \notin R!PostValidated
        /\ "SIGNED" \notin R!PostValidated /\ "SIGNED" \in R!PreValidated
        /\ \A s \in R!PreValidated : s \notin R!PostValidated
    BY DEF R!PostValidated, R!PreValidated, R!Stages
  <1>6. ASSUME NEW s, NEW n \in Nat, NEW fx \in Seq(Deltas), NEW b \in Nat,
               b + n <= balances[a] + escrowed[c],
               IF s \in R!PostValidated THEN Deposit(c, n) ELSE n = 0,
               Unwritten(fx),
               stage' = [stage EXCEPT ![c] = s],
               escrowed' = [escrowed EXCEPT ![c] = n],
               staged' = [staged EXCEPT ![c] = fx],
               balances' = [balances EXCEPT ![a] = b],
               leaf' \in LeafStates, FeeFixed => leaf'[FeeLeaf] = leaf[FeeLeaf]
        PROVE  Funded(stage', escrowed', staged', balances', leaf')
    <2> DEFINE lf2 == leaf'
    <2>1. lf2 \in LeafStates /\ (FeeFixed => lf2[FeeLeaf] = leaf[FeeLeaf]) /\ lf2 = leaf'
      BY <1>6
    <2> HIDE DEF lf2
    <2>2. b + n <= balances[Cal[c].agent] + escrowed[c]
      BY <1>6
    <2>3. Funded([stage EXCEPT ![c] = s], [escrowed EXCEPT ![c] = n], [staged EXCEPT ![c] = fx],
                 [balances EXCEPT ![Cal[c].agent] = b], lf2)
      BY <1>1, <1>6, <2>1, <2>2, FundedMove
    <2>4. QED
      BY <1>6, <2>1, <2>3
  <1> DEFINE none == <<>>
             zero == 0
  <1>7. none \in Seq(Deltas) /\ Unwritten(none) /\ zero \in Nat /\ zero = 0
    <2>1. \A i \in 1..Len(<<>>) : FALSE
      OBVIOUS
    <2>2. QED
      BY <2>1 DEF Unwritten
  <1>8. CASE e.type = "validated" /\ R!Validated(e.cal, e.amount)
    <2> DEFINE n == e.amount
               b == balances[a] - e.amount
    <2>1. /\ stage[c] = "SIGNED" /\ stage' = [stage EXCEPT ![c] = "VALIDATED"]
          /\ escrowed' = [escrowed EXCEPT ![c] = n]
          /\ balances' = [balances EXCEPT ![a] = b]
          /\ staged' = [staged EXCEPT ![c] = staged[c]] /\ leaf' = leaf
      BY <1>1, <1>3, <1>4, <1>8 DEF R!Validated, R!CanValidate
    <2>2. Deposit(c, n) /\ n \in Nat /\ n <= balances[a]
      BY <1>1, <1>5, <1>8, <2>1 DEF Turn, DueBefore, Deposit
    <2>3. b \in Nat /\ b + n = balances[a]
      BY <1>3, <2>2
    <2>4. b + n <= balances[a] + escrowed[c]
      BY <1>3, <2>3
    <2> HIDE DEF n, b
    <2>5. Funded(stage', escrowed', staged', balances', leaf')
      BY <1>2, <1>3, <1>5, <1>6, <2>1, <2>2, <2>3, <2>4
    <2>6. QED
      BY <1>8, <2>1, <2>5 DEF Leads
  <1>9. CASE e.type = "executed" /\ R!Executed(e.cal, e.effects, e.gas)
    <2>1. /\ stage[c] = "VALIDATED" /\ stage' = [stage EXCEPT ![c] = "EXECUTED"]
          /\ escrowed' = [escrowed EXCEPT ![c] = escrowed[c]]
          /\ balances' = [balances EXCEPT ![a] = balances[a]]
          /\ staged' = [staged EXCEPT ![c] = e.effects] /\ leaf' = leaf
      BY <1>1, <1>4, <1>9 DEF R!Executed, R!CanExecute, R!moneyVars
    <2>2. e.effects \in Seq(Deltas) /\ Unwritten(e.effects)
      BY <1>9, <2>1 DEF Turn, DueAfter
    <2> DEFINE n == escrowed[c]
               b == balances[a]
    <2>3. Deposit(c, n) /\ b \in Nat /\ n \in Nat /\ b + n <= balances[a] + escrowed[c]
      BY <1>2, <1>3, <1>5, <2>1
    <2>4. escrowed' = [escrowed EXCEPT ![c] = n] /\ balances' = [balances EXCEPT ![a] = b]
      BY <2>1
    <2> HIDE DEF n, b
    <2>5. Funded(stage', escrowed', staged', balances', leaf')
      BY <1>2, <1>5, <1>6, <2>1, <2>2, <2>3, <2>4
    <2>6. QED
      BY <1>9, <2>1, <2>5 DEF Leads
  <1>10. CASE e.type = "settled" /\ R!Settled(e.cal)
    <2>1. /\ stage[c] = "EXECUTED" /\ stage' = [stage EXCEPT ![c] = "SETTLED"]
          /\ escrowed' = [escrowed EXCEPT ![c] = escrowed[c]]
          /\ balances' = [balances EXCEPT ![a] = balances[a]]
          /\ staged' = [staged EXCEPT ![c] = staged[c]] /\ leaf' = leaf
      BY <1>1, <1>4, <1>10 DEF R!Settled, R!CanSettle, R!moneyVars
    <2> DEFINE n == escrowed[c]
               b == balances[a]
    <2>2. Deposit(c, n) /\ b \in Nat /\ n \in Nat /\ b + n <= balances[a] + escrowed[c]
      BY <1>2, <1>3, <1>5, <2>1
    <2>3. escrowed' = [escrowed EXCEPT ![c] = n] /\ balances' = [balances EXCEPT ![a] = b]
      BY <2>1
    <2> HIDE DEF n, b
    <2>4. Funded(stage', escrowed', staged', balances', leaf')
      BY <1>2, <1>3, <1>5, <1>6, <2>1, <2>2, <2>3
    <2>5. QED
      BY <1>10, <2>1, <2>4 DEF Leads
  <1>11. ASSUME R!Refund(c, e.amount), R!Leave(c), e.amount \in Nat, e.amount <= escrowed[c],
                e.type \in Terminal,
                leaf' \in LeafStates, FeeFixed => leaf'[FeeLeaf] = leaf[FeeLeaf]
         PROVE  /\ Funded(stage', escrowed', staged', balances', leaf')
                /\ stage' = [stage EXCEPT ![c] = Leads(e)]
    <2> DEFINE b == balances[a] + e.amount
    <2>1. /\ stage' = [stage EXCEPT ![c] = "NONE"]
          /\ escrowed' = [escrowed EXCEPT ![c] = zero]
          /\ staged' = [staged EXCEPT ![c] = none]
          /\ balances' = [balances EXCEPT ![a] = b]
      BY <1>3, <1>11 DEF R!Refund, R!Leave
    <2>2. b \in Nat /\ b + zero <= balances[a] + escrowed[c]
      BY <1>3, <1>11
    <2> HIDE DEF b, zero, none
    <2>3. Funded(stage', escrowed', staged', balances', leaf')
      BY <1>5, <1>6, <1>7, <1>11, <2>1, <2>2
    <2>4. QED
      BY <1>11, <2>1, <2>3 DEF Leads, Terminal
  <1>12. CASE e.type = "finalized" /\ R!Finalized(e.cal, e.amount)
    <2>1. /\ R!Refund(c, e.amount) /\ R!Leave(c) /\ e.amount <= escrowed[c]
          /\ stage[c] = "SETTLED"
          /\ leaf' = R!Commit(leaf, staged[c]) /\ R!Commit(leaf, staged[c]) \in R!LeafStates
      BY <1>1, <1>12 DEF R!Finalized, R!CanFinalize
    <2>2. e.amount \in Nat
      BY <1>12, <2>1 DEF Turn, DueAfter, Refunds
    <2>3. leaf' \in LeafStates /\ (FeeFixed => leaf'[FeeLeaf] = leaf[FeeLeaf])
      BY <1>2, <1>3, <2>1, CommitFunded, SameReducer
    <2>4. QED
      BY <1>11, <1>12, <2>1, <2>2, <2>3 DEF Terminal
  <1>13. CASE e.type = "failed" /\ R!FailedBefore(e.cal, e.amount)
    <2> DEFINE b == balances[a] - e.amount
    <2>1. /\ stage' = [stage EXCEPT ![c] = "NONE"]
          /\ escrowed' = [escrowed EXCEPT ![c] = zero]
          /\ staged' = [staged EXCEPT ![c] = none]
          /\ balances' = [balances EXCEPT ![a] = b]
          /\ leaf' = leaf /\ stage[c] \in R!PreValidated
      BY <1>1, <1>3, <1>13 DEF R!FailedBefore, R!CanFailBefore, R!Leave
    <2>2. e.amount \in Nat /\ e.amount <= balances[a]
      <3>1. DueBefore(e)
        BY <1>5, <2>1 DEF Turn
      <3>2. e.amount = 0 \/ e.amount = Least(FeeIn(leaf), balances[a])
        BY <1>1, <1>13, <3>1 DEF DueBefore
      <3>3. FeeIn(leaf) \in Nat
        BY <1>2, FeeNat
      <3>4. QED
        BY <1>3, <3>2, <3>3 DEF Least
    <2>3. b \in Nat /\ b + zero <= balances[a] + escrowed[c]
      BY <1>3, <2>2
    <2> HIDE DEF b, zero, none
    <2>4. Funded(stage', escrowed', staged', balances', leaf')
      BY <1>2, <1>5, <1>6, <1>7, <2>1, <2>3
    <2>5. QED
      BY <1>13, <2>1, <2>4 DEF Leads
  <1>14. CASE e.type = "failed" /\ R!FailedAfter(e.cal, e.amount)
    <2>1. /\ R!Refund(c, e.amount) /\ R!Leave(c) /\ e.amount <= escrowed[c]
          /\ stage[c] \in R!PostValidated /\ leaf' = leaf
      BY <1>1, <1>14 DEF R!FailedAfter, R!CanFailAfter
    <2>2. e.amount \in Nat
      BY <1>5, <1>14, <2>1 DEF Turn, DueAfter, Refunds
    <2>3. QED
      BY <1>2, <1>11, <1>14, <2>1, <2>2 DEF Terminal
  <1>15. QED
    BY <1>8, <1>9, <1>10, <1>12, <1>13, <1>14 DEF Apply

(* While a block is folded, the next event has its turn unless its CAL is    *)
(* not in flight.                                                            *)
LEMMA TurnOf ==
  ASSUME NodeInv, MoneyInv, pc = "folding"
  PROVE  \E c \in Cals :
           /\ Folds(c) /\ Head(queue) = queue[1] /\ queue[1].cal = c
           /\ stage[c] = "NONE" \/ (Turn(queue[1], c) /\ Follows(queue))
  <1>1. PICK c \in Cals : Folds(c)
    BY DEF NodeInv
  <1>2. PICK S : queue \in Seq(S)
    BY <1>1 DEF Folds, Script
  <1>3. Len(queue) \in Nat /\ Len(queue) > 0 /\ Head(queue) = queue[1] /\ 1 \in 1..Len(queue)
    BY <1>1, <1>2 DEF Folds, Script
  <1>4. queue[1].cal = c
    BY <1>1, <1>3 DEF Folds, Script
  <1>5. stage[c] = "NONE" \/ (Turn(queue[1], c) /\ Follows(queue))
    BY <1>4 DEF MoneyInv, Due, Turn
  <1>6. QED
    BY <1>1, <1>3, <1>4, <1>5

LEMMA FoldMoney ==
  ASSUME NodeInv, MoneyInv, Fold
  PROVE  MoneyInv'
  <1>1. pc = "folding"
    BY DEF Fold
  <1>2. PICK c \in Cals :
          /\ Folds(c) /\ Head(queue) = queue[1] /\ queue[1].cal = c
          /\ stage[c] = "NONE" \/ (Turn(queue[1], c) /\ Follows(queue))
    BY <1>1, TurnOf
  <1> DEFINE e == Head(queue)
  <1>3. /\ Apply(e)
        /\ receipts' = IF e.type \in Terminal
                          THEN [receipts EXCEPT ![Cal[e.cal].agent] = Append(@, Receipt(e))]
                          ELSE receipts
        /\ queue' = Tail(queue)
        /\ pc' = IF Len(queue) = 1 THEN "ready" ELSE "folding"
        /\ incr' = incr
    BY DEF Fold, Terminal
  <1>4. e.cal = c /\ e = queue[1]
    BY <1>2
  <1> HIDE DEF e
  <1>5. stage[c] # "NONE"
    BY <1>3, <1>4, ApplyMoves
  <1>6. Turn(e, c) /\ Follows(queue)
    BY <1>2, <1>4, <1>5
  <1>7. /\ Funded(stage', escrowed', staged', balances', leaf')
        /\ stage' = [stage EXCEPT ![c] = Leads(e)]
    BY <1>3, <1>6, ApplyFunded DEF MoneyInv
  <1>8. stage'[c] = Leads(e)
    BY <1>7 DEF NodeInv, Booked
  <1>9. \A a \in Agents : Len(incr.receipts[a]) <= Len(receipts'[a])
    <2>1. /\ receipts \in [Agents -> Seq(Receipts)]
          /\ \A a \in Agents : Len(incr.receipts[a]) <= Len(receipts[a])
          /\ \A a \in Agents : Len(incr.receipts[a]) \in Nat
      BY DEF NodeInv, MoneyInv, Booked
    <2> DEFINE r == Receipt(e)
               b == Cal[e.cal].agent
    <2>2. b \in Agents
      BY <1>4, NodeAssumption
    <2>3. \A s \in Seq(Receipts) : Len(s) \in Nat /\ Len(Append(s, r)) = Len(s) + 1
      <3> SUFFICES ASSUME NEW s \in Seq(Receipts)
                   PROVE  Len(s) \in Nat /\ Len(Append(s, r)) = Len(s) + 1
        OBVIOUS
      <3>1. s \in Seq(Receipts \cup {r}) /\ r \in Receipts \cup {r}
        OBVIOUS
      <3>2. QED
        BY <3>1, AppendProperties
    <2> HIDE DEF r, b
    <2>4. \A a \in Agents : /\ Len(receipts[a]) \in Nat
                            /\ receipts'[a] = receipts[a] \/ receipts'[a] = Append(receipts[a], r)
      BY <1>3, <2>1, <2>2, <2>3 DEF r, b
    <2>5. ASSUME NEW a \in Agents PROVE Len(incr.receipts[a]) <= Len(receipts'[a])
      <3>1. Len(receipts'[a]) = Len(receipts[a]) \/ Len(receipts'[a]) = Len(receipts[a]) + 1
        BY <2>1, <2>3, <2>4
      <3>2. QED
        BY <2>1, <2>4, <3>1
    <2>6. QED
      BY <2>5
  <1>10. pc' = "folding" => Due'
    <2> SUFFICES ASSUME Len(queue) # 1 PROVE Due'
      BY <1>3
    <2>1. /\ Script(queue', c, tick)
          /\ \A i \in 1..Len(queue') : i + 1 \in 1..Len(queue) /\ queue'[i] = queue[i + 1]
      BY <1>2, <1>3, TailScript DEF Folds
    <2>2. PICK S : queue \in Seq(S)
      BY <1>2 DEF Folds, Script
    <2>3. Len(queue) \in Nat /\ Len(queue) > 1
      <3>1. Len(queue) > 0
        BY <1>2 DEF Folds, Script
      <3>2. Len(queue) \in Nat
        BY <2>2
      <3>3. QED
        BY <3>1, <3>2
    <2>4. Len(queue') > 0 /\ 1 \in 1..Len(queue') /\ queue'[1] = queue[2] /\ queue'[1].cal = c
      <3>1. Len(queue') > 0 /\ Len(queue') \in Nat
        <4>1. \E T : queue' \in Seq(T)
          BY <2>1 DEF Script
        <4>2. Len(queue') > 0
          BY <2>1 DEF Script
        <4>3. QED
          BY <4>1, <4>2
      <3>2. 1 \in 1..Len(queue')
        BY <3>1
      <3>3. queue'[1] = queue[2]
        BY <2>1, <3>2
      <3>4. QED
        BY <2>1, <3>1, <3>2, <3>3 DEF Script
    <2>5. DueAfter(Leads(e), queue[2])
      <3>1. 2 \in 2..Len(queue) /\ 2 - 1 = 1
        BY <2>3
      <3>2. DueAfter(Leads(queue[2 - 1]), queue[2])
        BY <1>6, <3>1 DEF Follows
      <3>3. QED
        BY <1>4, <3>1, <3>2
    <2>6. Leads(e) \in {"VALIDATED", "EXECUTED", "SETTLED"}
      BY <2>5 DEF DueAfter
    <2>7. Follows(queue)'
      <3>1. ASSUME NEW i \in 2..Len(queue') PROVE DueAfter(Leads(queue'[i - 1]), queue'[i])
        <4>1. Len(queue') \in Nat
          <5>1. \E T : queue' \in Seq(T)
            BY <2>1 DEF Script
          <5>2. QED
            BY <5>1
        <4>2. i \in 1..Len(queue') /\ i - 1 \in 1..Len(queue') /\ (i - 1) + 1 = i
          BY <4>1
        <4>3. i + 1 \in 1..Len(queue) /\ queue'[i] = queue[i + 1] /\ queue'[i - 1] = queue[i]
          BY <2>1, <4>2
        <4> DEFINE j == i + 1
        <4>4. j \in 2..Len(queue) /\ j - 1 = i
          BY <2>3, <4>1, <4>3
        <4>5. queue'[i] = queue[j] /\ queue'[i - 1] = queue[j - 1]
          BY <4>3, <4>4
        <4> HIDE DEF j
        <4>6. DueAfter(Leads(queue[j - 1]), queue[j])
          BY <1>6, <4>4 DEF Follows
        <4>7. QED
          BY <4>5, <4>6
      <3>2. QED
        BY <3>1 DEF Follows
    <2>8. {"VALIDATED", "EXECUTED", "SETTLED"} \subseteq R!PostValidated
      BY DEF R!PostValidated, R!PreValidated, R!Stages
    <2>9. QED
      BY <1>8, <2>4, <2>5, <2>6, <2>7, <2>8 DEF Due
  <1>11. Funded(incr.stage, incr.escrowed, incr.staged, incr.balances, incr.leaf)'
    BY <1>3 DEF MoneyInv
  <1>12. QED
    BY <1>3, <1>7, <1>9, <1>10, <1>11 DEF MoneyInv

(* The State the caller is left with is funded, whichever it is. *)
LEMMA BlockEndsMoney ==
  ASSUME NodeInv, MoneyInv, EndBlock \/ Throw
  PROVE  MoneyInv'
  <1>1. CASE EndBlock
    <2>1. /\ pc' = "out" /\ incr' = Current
          /\ UNCHANGED <<stage, escrowed, staged, balances, leaf, receipts>>
      BY <1>1 DEF EndBlock, state
    <2>2. /\ incr'.stage = stage /\ incr'.escrowed = escrowed /\ incr'.staged = staged
          /\ incr'.balances = balances /\ incr'.leaf = leaf /\ incr'.receipts = receipts
      BY <2>1 DEF Current
    <2>3. \A a \in Agents : Len(receipts[a]) <= Len(receipts[a])
      BY DEF NodeInv, Booked
    <2>4. QED
      BY <2>1, <2>2, <2>3 DEF MoneyInv
  <1>2. CASE Throw
    <2>1. /\ pc' = "out" /\ incr' = incr /\ stage' = incr.stage /\ escrowed' = incr.escrowed
          /\ staged' = incr.staged /\ balances' = incr.balances /\ leaf' = incr.leaf
          /\ receipts' = incr.receipts
      BY <1>2 DEF Throw
    <2>2. \A a \in Agents : Len(incr.receipts[a]) <= Len(incr.receipts[a])
      BY DEF NodeInv, Booked
    <2>3. QED
      BY <2>1, <2>2 DEF MoneyInv
  <1>3. QED
    BY <1>1, <1>2

LEMMA NextMoney == NodeInv /\ MoneyInv /\ [NodeNext]_nvars => MoneyInv'
  <1> SUFFICES ASSUME NodeInv, MoneyInv, [NodeNext]_nvars PROVE MoneyInv'
    OBVIOUS
  <1>1. ASSUME NEW t \in Ticks, RefuseBlock(t) \/ BeginBlock(t) PROVE MoneyInv'
    <2>1. UNCHANGED <<stage, escrowed, staged, balances, leaf, receipts, incr>> /\ pc' # "folding"
      BY <1>1 DEF RefuseBlock, BeginBlock, R!TickAdvanced, R!flightVars, R!moneyVars, state
    <2>2. QED
      BY <2>1, IdleMoney
  <1>2. CASE \/ \E c \in Cals, mode \in {"atomic", "validate-only"} : Submit(c, mode)
             \/ Sign
    BY <1>2, IngressMoney
  <1>3. CASE \/ \E trace \in Traces : CallValidator(trace)
             \/ \E c \in Cals, trace \in Traces : Resume(c, trace)
    BY <1>3, CallMoney
  <1>4. CASE Fold
    BY <1>4, FoldMoney
  <1>5. CASE EndBlock \/ Throw
    BY <1>5, BlockEndsMoney
  <1>6. CASE UNCHANGED nvars
    <2>1. UNCHANGED <<stage, escrowed, staged, balances, leaf, receipts, incr, pc, queue>>
      BY <1>6 DEF nvars, state
    <2>2. QED
      BY <2>1, IdleMoney
  <1>7. QED
    BY <1>1, <1>2, <1>3, <1>4, <1>5, <1>6 DEF NodeNext

LEMMA MoneyInvHolds == NodeSpec => [](NodeInv /\ MoneyInv)
  <1>1. NodeInit => NodeInv /\ MoneyInv
    BY InitNodeInv, InitMoney
  <1>2. NodeInv /\ MoneyInv /\ [NodeNext]_nvars => NodeInv' /\ MoneyInv'
    BY NextNodeInv, NextMoney
  <1>3. QED
    BY <1>1, <1>2, PTL DEF NodeSpec

-----------------------------------------------------------------------------
(* The reducer accepts what is due, of a steady CAL, where effects commit. *)
LEMMA DueAccepted ==
  ASSUME Funded(stage, escrowed, staged, balances, leaf),
         NEW e, NEW c \in Cals, Turn(e, c), Steady(c)
  PROVE  Accepts(e) \/ (e.type = "finalized" /\ R!Commit(leaf, staged[e.cal]) = Failed)
  <1> DEFINE a == Cal[c].agent
  <1>1. /\ a \in Agents /\ AgentOf[c] = a /\ e.cal = c /\ stage[c] # "NONE"
        /\ balances[a] \in Nat /\ balances[a] <= MaxUint /\ escrowed[c] \in Nat
        /\ balances[a] + escrowed[c] <= MaxUint /\ MaxUint \in Nat
        /\ stage[c] \in R!PostValidated => Deposit(c, escrowed[c])
        /\ staged[c] \in Seq(Deltas) /\ leaf \in LeafStates /\ Unwritten(staged[c])
    BY NodeAssumption, DeltaAssumption DEF AgentOf, Turn, Funded
  <1>2. stage[c] \in R!PostValidated => GasDue(c) <= escrowed[c]
    BY <1>1 DEF Deposit
  <1>3. GasDue(c) \in Nat
    <2>1. GenesisFee \in Nat /\ LimitMultiplier \in Nat
      BY FeeNat, NodeAssumption, PricingAssumption DEF GenesisFee
    <2>2. GenesisFee * LimitMultiplier \in Nat
      BY <2>1, ProductNat
    <2>3. Declared(c) => Cal[c].gasLimit \in Nat
      BY NodeAssumption DEF Declared
    <2>4. QED
      BY <2>2, <2>3 DEF GasDue
  <1> HIDE DEF a
  <1>4. CASE stage[c] = "SIGNED" /\ DueBefore(e)
    <2>1. CASE e.type = "validated" /\ Deposit(c, e.amount) /\ e.amount <= balances[a]
      <3>1. e.amount \in Nat /\ e.amount <= MaxUint /\ balances[a] >= e.amount
        BY <1>1, <2>1 DEF Deposit
      <3>2. QED
        BY <1>1, <1>4, <2>1, <3>1 DEF Accepts, R!CanValidate
    <2>2. CASE e.type = "failed" /\ (e.amount = 0 \/ e.amount = Least(FeeIn(leaf), balances[a]))
      <3>1. e.amount <= balances[a]
        BY <1>1, <2>2, FeeNat DEF Least
      <3>2. stage[c] \in R!PreValidated
        BY <1>4 DEF R!PreValidated
      <3>3. R!CanFailBefore(e.cal, e.amount)
        BY <1>1, <3>1, <3>2 DEF R!CanFailBefore
      <3>4. QED
        BY <2>2, <3>3 DEF Accepts
    <2>3. QED
      BY <1>1, <1>4, <2>1, <2>2 DEF DueBefore, a
  <1>5. CASE stage[c] \in R!PostValidated /\ DueAfter(stage[c], e)
    <2>1. Refunds(e) => e.amount <= escrowed[c]
      BY <1>1, <1>2, <1>3, <1>5 DEF Refunds
    <2>2. CASE stage[c] = "VALIDATED" /\ e.type = "executed" /\ e.gas \in Nat /\ e.gas <= GasDue(c)
      <3>1. e.gas <= MaxUint
        BY <1>1, <1>2, <1>3, <1>5, <2>2
      <3>2. QED
        BY <1>1, <2>2, <3>1 DEF Accepts, R!CanExecute
    <2>3. CASE stage[c] = "EXECUTED" /\ e.type = "settled"
      BY <1>1, <2>3 DEF Accepts, R!CanSettle
    <2>4. CASE stage[c] = "SETTLED" /\ e.type = "finalized" /\ Refunds(e)
      <3>1. \/ R!Commit(leaf, staged[c]) = Failed
            \/ R!Commit(leaf, staged[c]) \in R!LeafStates
        BY <1>1, CommitFunded, SameReducer
      <3>2. QED
        BY <1>1, <2>1, <2>4, <3>1 DEF Accepts, R!CanFinalize
    <2>5. CASE e.type = "failed" /\ Refunds(e)
      <3>1. R!CanFailAfter(e.cal, e.amount)
        BY <1>1, <1>5, <2>1, <2>5 DEF R!CanFailAfter
      <3>2. QED
        BY <2>5, <3>1 DEF Accepts
    <2>6. QED
      BY <1>1, <1>5, <2>2, <2>3, <2>4, <2>5 DEF DueAfter
  <1>6. QED
    BY <1>4, <1>5 DEF Turn

(* The agreement, for one CAL. *)
AgreeOn(c) ==
  pc = "folding" /\ Head(queue).cal = c =>
    LET e == Head(queue) IN
    \/ Accepts(e)
    \/ ~R!InFlight(e.cal)
    \/ /\ e.type = "finalized"
       /\ R!Commit(leaf, staged[e.cal]) = Failed

LEMMA SteadyAgrees ==
  ASSUME NodeInv, MoneyInv, NEW c \in Cals, Steady(c)
  PROVE  AgreeOn(c)
  <1> SUFFICES ASSUME pc = "folding", Head(queue).cal = c
               PROVE  \/ Accepts(Head(queue))
                      \/ ~R!InFlight(c)
                      \/ /\ Head(queue).type = "finalized"
                         /\ R!Commit(leaf, staged[c]) = Failed
    BY DEF AgreeOn
  <1>1. stage[c] = "NONE" \/ Turn(Head(queue), c)
    BY TurnOf
  <1>2. CASE stage[c] = "NONE"
    BY <1>2 DEF R!InFlight
  <1>3. CASE Turn(Head(queue), c)
    BY <1>3, DueAccepted DEF MoneyInv
  <1>4. QED
    BY <1>1, <1>2, <1>3

(* Validator and reducer agree on every event of a CAL that declares its gas *)
(* limit, whatever traces do to the flat fee and the gas price while it      *)
(* rests at VALIDATED: only a budget derived from the fee can go stale.      *)
THEOREM DeclaredLimitAgrees ==
  NodeSpec => [](\A c \in Cals : Cal[c].gasLimit # Absent => AgreeOn(c))
  <1>1. NodeInv /\ MoneyInv => \A c \in Cals : Cal[c].gasLimit # Absent => AgreeOn(c)
    BY SteadyAgrees DEF Steady, Declared
  <1>2. QED
    BY <1>1, MoneyInvHolds, PTL

(* And on every event of every CAL where no trace writes the flat fee.       *)
THEOREM NodeAgrees ==
  ASSUME FeeFixed
  PROVE  NodeSpec => []ValidatorReducerAgree
  <1>1. NodeInv /\ MoneyInv => ValidatorReducerAgree
    <2> SUFFICES ASSUME NodeInv, MoneyInv, pc = "folding"
                 PROVE  LET e == Head(queue) IN
                        \/ Accepts(e)
                        \/ ~R!InFlight(e.cal)
                        \/ /\ e.type = "finalized"
                           /\ R!Commit(leaf, staged[e.cal]) = Failed
      BY DEF ValidatorReducerAgree
    <2>1. PICK c \in Cals : Head(queue).cal = c
      BY TurnOf
    <2>2. AgreeOn(c)
      BY SteadyAgrees DEF Steady
    <2>3. QED
      BY <2>1, <2>2 DEF AgreeOn
  <1>2. QED
    BY <1>1, MoneyInvHolds, PTL

(* What a folded end adds to the treasury is what section 9.4 charges. *)
LEMMA EndCharged ==
  ASSUME Funded(stage, escrowed, staged, balances, leaf),
         NEW e, NEW c \in Cals, Turn(e, c), Steady(c), Apply(e), e.type \in Terminal,
         fees \in Int
  PROVE  fees' - fees \in ChargeFor(c, Outcome(e.reason))
  <1> DEFINE a == Cal[c].agent
  <1>1. /\ a \in Agents /\ AgentOf[c] = a /\ e.cal = c
        /\ balances[a] \in Nat /\ escrowed[c] \in Nat
        /\ stage[c] \in R!PostValidated => Deposit(c, escrowed[c])
    BY NodeAssumption DEF AgentOf, Turn, Funded
  <1>2. FeeIn(leaf) \in Nat /\ Fee(Snapshot) = FeeIn(leaf)
    BY FeeNat DEF Funded, Fee, ParamOr, Snapshot, FeeIn, FeeLeaf
  <1>3. CASE e.type = "failed" /\ R!FailedBefore(e.cal, e.amount)
    <2>1. stage[c] \in R!PreValidated /\ fees' = fees + e.amount
      BY <1>1, <1>3 DEF R!FailedBefore, R!CanFailBefore
    <2>2. DueBefore(e)
      BY <2>1 DEF Turn, R!PostValidated
    <2>3. CASE e.reason \in SpamReasons /\ e.amount = Least(FeeIn(leaf), balances[a])
      <3>1. Outcome(e.reason) = "spam"
        BY <2>3 DEF Outcome, SpamReasons, FreeReasons
      <3>2. e.amount \in Nat
        BY <1>1, <1>2, <2>3 DEF Least
      <3>3. fees' - fees = Least(Fee(Snapshot), balances[Cal[c].agent])
        BY <1>2, <2>1, <2>3, <3>2
      <3>4. QED
        BY <3>1, <3>3 DEF ChargeFor
    <2>4. CASE e.reason \in FreeReasons /\ e.amount = 0
      <3>1. Outcome(e.reason) = "free"
        BY <2>4 DEF Outcome, FreeReasons, SpamReasons
      <3>2. fees' - fees = 0
        BY <2>1, <2>4
      <3>3. QED
        BY <3>1, <3>2 DEF ChargeFor
    <2>5. QED
      BY <1>1, <1>3, <2>2, <2>3, <2>4 DEF DueBefore
  <1>4. ASSUME stage[c] \in R!PostValidated, fees' = fees + (escrowed[c] - e.amount),
               e.reason \in PostReasons \cup {"FINALIZED"}, Refunds(e)
        PROVE  fees' - fees \in ChargeFor(c, Outcome(e.reason))
    <2>1. Deposit(c, escrowed[c]) /\ GasDue(c) \in Nat
      <3>1. GenesisFee \in Nat /\ LimitMultiplier \in Nat
        BY FeeNat, NodeAssumption, PricingAssumption DEF GenesisFee
      <3>2. GenesisFee * LimitMultiplier \in Nat
        BY <3>1, ProductNat
      <3>3. Declared(c) => Cal[c].gasLimit \in Nat
        BY NodeAssumption DEF Declared
      <3>4. QED
        BY <1>1, <1>4, <3>2, <3>3 DEF GasDue
    <2>2. DepositedFee(c) = escrowed[c] - GasDue(c)
      <3>1. CASE Declared(c)
        BY <3>1 DEF DepositedFee, Declared, GasDue
      <3>2. CASE ~Declared(c)
        <4>1. escrowed[c] = GenesisFee + GenesisFee * LimitMultiplier
          BY <2>1, <3>2 DEF Deposit
        <4>2. GenesisFee \in Nat /\ LimitMultiplier \in Nat
          BY FeeNat, NodeAssumption, PricingAssumption DEF GenesisFee
        <4>3. (GenesisFee + GenesisFee * LimitMultiplier) \div (LimitMultiplier + 1) = GenesisFee
          BY <4>2, FeeOfDeposit
        <4>4. DepositedFee(c) = GenesisFee
          BY <3>2, <4>1, <4>3 DEF DepositedFee, Declared
        <4>5. GenesisFee * LimitMultiplier \in Nat /\ GasDue(c) = GenesisFee * LimitMultiplier
          BY <3>2, <4>2, ProductNat DEF GasDue
        <4> DEFINE p == GenesisFee * LimitMultiplier
        <4>6. p \in Nat /\ escrowed[c] = GenesisFee + p /\ GasDue(c) = p
          BY <4>1, <4>5
        <4> HIDE DEF p
        <4>7. QED
          BY <4>2, <4>4, <4>6
      <3>3. QED
        BY <3>1, <3>2
    <2>3. /\ e.amount \in Nat /\ e.amount <= GasDue(c)
          /\ e.reason = "EXPIRED_POST" => e.amount = GasDue(c)
      BY <1>1, <1>4 DEF Refunds
    <2> DEFINE d == fees' - fees
    <2>4. d = escrowed[c] - e.amount
      BY <1>1, <1>4, <2>3
    <2> HIDE DEF d
    <2>5. /\ d \in DepositedFee(c)..escrowed[c]
          /\ e.reason = "EXPIRED_POST" => d = DepositedFee(c)
      <3>1. GasDue(c) <= escrowed[c]
        BY <2>1 DEF Deposit
      <3>2. QED
        BY <1>1, <2>1, <2>2, <2>3, <2>4, <3>1
    <2>6. CASE e.reason = "EXPIRED_POST"
      <3>1. Outcome(e.reason) = "EXPIRED_POST"
        BY <2>6 DEF Outcome, FreeReasons, SpamReasons
      <3>2. QED
        BY <2>5, <2>6, <3>1 DEF ChargeFor, d
    <2>7. CASE e.reason # "EXPIRED_POST"
      <3>1. Outcome(e.reason) \in {"failed", "FINALIZED"}
        BY <1>4, <2>7 DEF Outcome, FreeReasons, SpamReasons, PostReasons
      <3>2. QED
        BY <2>5, <3>1 DEF ChargeFor, d
    <2>8. QED
      BY <2>6, <2>7
  <1>5. CASE e.type = "finalized" /\ R!Finalized(e.cal, e.amount)
    <2>1. stage[c] = "SETTLED" /\ fees' = fees + (escrowed[c] - e.amount)
      BY <1>1, <1>5 DEF R!Finalized, R!CanFinalize, R!Refund
    <2>2. stage[c] \in R!PostValidated
      BY <2>1 DEF R!PostValidated, R!PreValidated, R!Stages
    <2>3. e.reason = "FINALIZED" /\ Refunds(e)
      BY <1>5, <2>1 DEF Turn, DueAfter
    <2>4. QED
      BY <1>4, <2>1, <2>2, <2>3
  <1>6. CASE e.type = "failed" /\ R!FailedAfter(e.cal, e.amount)
    <2>1. stage[c] \in R!PostValidated /\ fees' = fees + (escrowed[c] - e.amount)
      BY <1>1, <1>6 DEF R!FailedAfter, R!CanFailAfter, R!Refund
    <2>2. stage[c] # "SIGNED"
      BY <2>1 DEF R!PostValidated, R!PreValidated
    <2>3. e.reason \in PostReasons /\ Refunds(e)
      BY <1>6, <2>2 DEF Turn, DueAfter
    <2>4. QED
      BY <1>4, <2>1, <2>3
  <1>7. QED
    BY <1>3, <1>5, <1>6 DEF Apply, Terminal

(* The treasury only holds amounts. *)
FeesInt == fees \in Int /\ incr.fees \in Int

LEMMA NextFees == NodeInv /\ MoneyInv /\ FeesInt /\ [NodeNext]_nvars => FeesInt'
  <1> SUFFICES ASSUME NodeInv, MoneyInv, FeesInt, [NodeNext]_nvars PROVE FeesInt'
    OBVIOUS
  <1>1. CASE UNCHANGED <<fees, incr>>
    BY <1>1 DEF FeesInt
  <1>2. CASE Fold
    <2>1. incr' = incr
      BY <1>2 DEF Fold
    <2>2. PICK c \in Cals :
            /\ Head(queue) = queue[1] /\ queue[1].cal = c
            /\ stage[c] = "NONE" \/ (Turn(queue[1], c) /\ Follows(queue))
      BY <1>2, TurnOf DEF Fold
    <2> DEFINE e == Head(queue)
    <2>3. Apply(e) /\ e.cal = c /\ e = queue[1]
      BY <1>2, <2>2 DEF Fold
    <2> HIDE DEF e
    <2>4. stage[c] # "NONE"
      BY <2>3, ApplyMoves
    <2>5. Turn(e, c)
      BY <2>2, <2>3, <2>4
    <2>6. /\ balances \in [Agents -> Nat] /\ escrowed[c] \in Nat /\ leaf \in LeafStates
          /\ Cal[c].agent \in Agents
      BY NodeAssumption DEF MoneyInv, Funded
    <2>7. fees' = fees \/ (e.amount \in Int /\ \/ fees' = fees + e.amount
                                               \/ fees' = fees + (escrowed[c] - e.amount))
      <3>1. CASE e.type = "failed" /\ R!FailedBefore(e.cal, e.amount)
        <4>1. stage[c] \in R!PreValidated /\ fees' = fees + e.amount
          BY <2>3, <3>1 DEF R!FailedBefore, R!CanFailBefore
        <4>2. DueBefore(e)
          BY <2>5, <4>1 DEF Turn, R!PostValidated
        <4>3. e.amount \in Int
          BY <2>3, <2>6, <3>1, <4>2, FeeNat DEF DueBefore, Least
        <4>4. QED
          BY <4>1, <4>3
      <3>2. CASE e.type = "finalized" /\ R!Finalized(e.cal, e.amount)
        <4>1. stage[c] = "SETTLED" /\ fees' = fees + (escrowed[c] - e.amount)
          BY <2>3, <3>2 DEF R!Finalized, R!CanFinalize, R!Refund
        <4>2. e.amount \in Int
          BY <2>5, <3>2, <4>1 DEF Turn, DueAfter, Refunds
        <4>3. QED
          BY <4>1, <4>2
      <3>3. CASE e.type = "failed" /\ R!FailedAfter(e.cal, e.amount)
        <4>1. stage[c] \in R!PostValidated /\ fees' = fees + (escrowed[c] - e.amount)
          BY <2>3, <3>3 DEF R!FailedAfter, R!CanFailAfter, R!Refund
        <4>2. stage[c] # "SIGNED"
          BY <4>1 DEF R!PostValidated, R!PreValidated
        <4>3. e.amount \in Int
          BY <2>5, <3>3, <4>2 DEF Turn, DueAfter, Refunds
        <4>4. QED
          BY <4>1, <4>3
      <3>4. QED
        BY <2>3, <3>1, <3>2, <3>3 DEF Apply, R!Validated, R!Executed, R!Settled, R!moneyVars
    <2>8. QED
      BY <2>1, <2>6, <2>7 DEF FeesInt
  <1>3. CASE Throw
    BY <1>3 DEF Throw, FeesInt
  <1>4. CASE EndBlock
    <2>1. incr' = Current /\ fees' = fees
      BY <1>4 DEF EndBlock, state
    <2>2. incr'.fees = fees
      BY <2>1 DEF Current
    <2>3. QED
      BY <2>1, <2>2 DEF FeesInt
  <1>5. CASE UNCHANGED nvars
    BY <1>1, <1>5 DEF nvars, state
  <1>6. ASSUME NEW t \in Ticks, RefuseBlock(t) \/ BeginBlock(t) PROVE FeesInt'
    BY <1>1, <1>6 DEF RefuseBlock, BeginBlock, R!TickAdvanced, R!moneyVars, state
  <1>7. ASSUME NEW c \in Cals, NEW mode, Submit(c, mode) PROVE FeesInt'
    BY <1>1, <1>7 DEF Submit, R!Created, R!moneyVars
  <1>8. CASE Sign
    BY <1>1, <1>8 DEF Sign, R!Signed, R!moneyVars
  <1>9. ASSUME NEW trace, CallValidator(trace) PROVE FeesInt'
    BY <1>1, <1>9 DEF CallValidator, state
  <1>10. ASSUME NEW c, NEW trace, Resume(c, trace) PROVE FeesInt'
    BY <1>1, <1>10 DEF Resume, state
  <1>11. QED
    BY <1>2, <1>3, <1>4, <1>5, <1>6, <1>7, <1>8, <1>9, <1>10 DEF NodeNext

(* Only a fold makes a log longer: a throw takes back what the block added. *)
LEMMA OnlyFoldLogs ==
  ASSUME MoneyInv, NodeInv, [NodeNext]_nvars,
         NEW a \in Agents, Len(receipts'[a]) > Len(receipts[a])
  PROVE  Fold
  <1>1. Len(receipts[a]) \in Nat
    BY DEF NodeInv, Booked
  <1>2. receipts' # receipts
    BY <1>1
  <1>3. CASE Throw
    <2>1. receipts'[a] = incr.receipts[a]
      BY <1>3 DEF Throw
    <2>2. Len(incr.receipts[a]) <= Len(receipts[a]) /\ Len(incr.receipts[a]) \in Nat
      BY DEF MoneyInv, NodeInv, Booked
    <2>3. QED
      BY <1>1, <2>1, <2>2
  <1>4. QED
    BY <1>2, <1>3 DEF NodeNext, RefuseBlock, BeginBlock, Submit, Sign, CallValidator, Resume,
                      EndBlock, nvars

(* Section 9.4 over the whole life of a CAL, however many blocks it spans:   *)
(* the treasury gains nothing, the spam charge, the fee of the deposit, or   *)
(* that fee and gas within the budget, as the CAL ends.                      *)
THEOREM NodeCharges ==
  ASSUME FeeFixed
  PROVE  NodeSpec => ChargeFollowsOutcome
  <1>1. NodeInit => FeesInt
    <2> SUFFICES ASSUME NodeInit PROVE FeesInt
      OBVIOUS
    <2>1. fees = 0 /\ incr = Current
      BY DEF NodeInit, R!Init
    <2>2. incr.fees = fees
      BY <2>1 DEF Current
    <2>3. QED
      BY <2>1, <2>2 DEF FeesInt
  <1>2. ASSUME NodeInv, MoneyInv, FeesInt, [NodeNext]_nvars,
               NEW a \in Agents, Len(receipts'[a]) > Len(receipts[a])
        PROVE  fees' - fees \in ChargeFor(Last(receipts'[a]).cal, Last(receipts'[a]).outcome)
    <2>1. Fold
      BY <1>2, OnlyFoldLogs
    <2>2. PICK c \in Cals :
            /\ Head(queue) = queue[1] /\ queue[1].cal = c
            /\ stage[c] = "NONE" \/ (Turn(queue[1], c) /\ Follows(queue))
      BY <1>2, <2>1, TurnOf DEF Fold
    <2> DEFINE e == Head(queue)
    <2>3. /\ Apply(e) /\ e.cal = c /\ e = queue[1]
          /\ receipts' = IF e.type \in Terminal
                            THEN [receipts EXCEPT ![Cal[e.cal].agent] = Append(@, Receipt(e))]
                            ELSE receipts
      BY <2>1, <2>2 DEF Fold, Terminal
    <2> HIDE DEF e
    <2>4. stage[c] # "NONE"
      BY <2>3, ApplyMoves
    <2>5. Turn(e, c)
      BY <2>2, <2>3, <2>4
    <2>6. receipts \in [Agents -> Seq(Receipts)] /\ Len(receipts[a]) \in Nat
      BY <1>2 DEF NodeInv, Booked
    <2>7. e.type \in Terminal /\ a = Cal[c].agent
      BY <1>2, <2>3, <2>6
    <2> DEFINE r == Receipt(e)
    <2>8. r.cal = c /\ r.outcome = Outcome(e.reason)
      BY <2>3 DEF Receipt
    <2> HIDE DEF r
    <2>9. Last(receipts'[a]) = r
      <3>1. receipts'[a] = Append(receipts[a], r)
        BY <2>3, <2>6, <2>7 DEF r
      <3>2. receipts[a] \in Seq(Receipts \cup {r}) /\ r \in Receipts \cup {r}
        BY <2>6
      <3>3. /\ Len(Append(receipts[a], r)) = Len(receipts[a]) + 1
            /\ Append(receipts[a], r)[Len(receipts[a]) + 1] = r
        BY <3>2, AppendProperties
      <3>4. QED
        BY <3>1, <3>3 DEF Last
    <2>10. fees' - fees \in ChargeFor(c, Outcome(e.reason))
      BY <1>2, <2>3, <2>5, <2>7, EndCharged DEF MoneyInv, FeesInt, Steady
    <2>11. QED
      BY <2>8, <2>9, <2>10
  <1> DEFINE Charged == \A a \in Agents :
                          Len(receipts'[a]) > Len(receipts[a]) =>
                            LET r == Last(receipts'[a]) IN fees' - fees \in ChargeFor(r.cal, r.outcome)
  <1>3. (NodeInv /\ MoneyInv) /\ FeesInt /\ [NodeNext]_nvars => [Charged]_nvars
    BY <1>2
  <1> HIDE DEF Charged
  <1>4. NodeSpec => []FeesInt
    <2>1. (NodeInv /\ MoneyInv) /\ FeesInt /\ [NodeNext]_nvars => FeesInt'
      BY NextFees
    <2>2. QED
      BY <1>1, <2>1, MoneyInvHolds, PTL DEF NodeSpec
  <1>5. NodeSpec => [][Charged]_nvars
    BY <1>3, <1>4, MoneyInvHolds, PTL DEF NodeSpec
  <1>6. QED
    BY <1>5 DEF ChargeFollowsOutcome, Charged
=============================================================================
