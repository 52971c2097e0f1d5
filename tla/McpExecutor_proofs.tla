------------------------- MODULE McpExecutor_proofs -------------------------
(***************************************************************************)
(* Proofs about the executor, for any CALs and their steps, any tools of   *)
(* the server, and any number of attempts and requests.                    *)
(***************************************************************************)
EXTENDS McpExecutor, Aggregates, SequenceTheorems

Outcomes == Results \cup {"unknown"}
Requests == [cal : Cals \cup {Nobody}, attempt : Nat, step : Nat]
Calls == [pc : {"idle", "awaits", "returned", "threw"}, attempt : Nat, known : SUBSET Advertised,
          steps : Seq(Outcomes), awaits : Nat]

TypesOK ==
  /\ proc \in {"none", "up", "closed"}
  /\ tools \subseteq Advertised
  /\ call \in [Cals -> Calls]
  /\ sent \in Seq(Requests)
  /\ pending \subseteq 1..Len(sent)
  /\ asked \subseteq 1..Len(sent)
  /\ performed \subseteq [id : 1..Len(sent), result : Results]
  /\ answers \subseteq performed

Carried(perf) == {p.id : p \in perf}

(* The server carries a request out once. *)
OnceOK ==
  /\ asked \cap Carried(performed) = {}
  /\ \A p, q \in performed : p.id = q.id => p = q

Mine(c, a, s, id) == s[id].cal = c /\ s[id].attempt = a

(* The results a call has are those of the requests it made for its steps;   *)
(* it made one at most for each, and all are answered but the open one.      *)
Matches(c, run, s, perf, open) ==
  /\ \A i \in 1..Len(run.steps) :
       IF StepsOf[c][i] \in run.known
         THEN \E id \in 1..Len(s) : /\ Mine(c, run.attempt, s, id) /\ s[id].step = i
                                    /\ [id |-> id, result |-> run.steps[i]] \in perf
         ELSE run.steps[i] = "unknown"
  /\ \A id \in 1..Len(s) : Mine(c, run.attempt, s, id) =>
       /\ s[id].step \in 1..Len(run.steps) \/ id = open
       /\ StepsOf[c][s[id].step] \in run.known
       /\ \A k \in 1..Len(s) : Mine(c, run.attempt, s, k) /\ s[k].step = s[id].step => k = id

(* What is true of one call. *)
CallOK(c, run, s, perf) ==
  /\ run.pc = "awaits" =>
       /\ run.awaits \in 1..Len(s)
       /\ Mine(c, run.attempt, s, run.awaits) /\ s[run.awaits].step = Len(run.steps) + 1
       /\ Len(run.steps) + 1 <= Len(StepsOf[c])
       /\ Matches(c, run, s, perf, run.awaits)
  /\ run.pc = "returned" => Len(run.steps) = Len(StepsOf[c]) /\ Matches(c, run, s, perf, 0)

CallsOK == \A c \in Cals : CallOK(c, call[c], sent, performed)

(* Requests are of an attempt that was begun, and follow each other. *)
AttemptsOK == \A id \in 1..Len(sent) : sent[id].cal \in Cals => sent[id].attempt <= call[sent[id].cal].attempt

OrderOK ==
  \A id \in 1..Len(sent) : \A k \in 1..id - 1 :
    Mine(sent[id].cal, sent[id].attempt, sent, k) => k \in Carried(performed)

(* A request whose answer would be taken is the one its call waits for. *)
PendingOK ==
  /\ proc = "none" => sent = <<>> /\ tools = {}
  /\ proc = "up" => \A id \in pending : sent[id].cal \in Cals =>
                      call[sent[id].cal].pc = "awaits" /\ call[sent[id].cal].awaits = id
  /\ conn = "initialize" =>
       \A id, k \in 1..Len(sent) : sent[id].cal = Nobody /\ sent[k].cal = Nobody => id = k

(* The inductive invariant. *)
ExecInv == TypesOK /\ OnceOK /\ CallsOK /\ AttemptsOK /\ OrderOK /\ PendingOK

-----------------------------------------------------------------------------
(* What GoOn computes. *)

LEMMA Longer ==
  ASSUME NEW S, NEW s \in Seq(S), NEW x \in S
  PROVE  /\ Append(s, x) \in Seq(S)
         /\ Len(Append(s, x)) = Len(s) + 1 /\ Len(s) \in Nat
         /\ \A i \in 1..Len(s) : Append(s, x)[i] = s[i]
         /\ Append(s, x)[Len(s) + 1] = x
  <1>1. /\ Append(s, x) \in Seq(S)
        /\ Len(Append(s, x)) = Len(s) + 1
        /\ \A i \in 1..Len(s) : Append(s, x)[i] = s[i]
        /\ Append(s, x)[Len(s) + 1] = x
    BY SMT
  <1>2. Len(s) \in Nat
    BY LenProperties, Zenon
  <1>3. QED
    BY <1>1, <1>2, Zenon

LEMMA StepsAreCounted == \A c \in Cals : Len(StepsOf[c]) \in Nat /\ DOMAIN StepsOf[c] = 1..Len(StepsOf[c])
  <1> SUFFICES ASSUME NEW c \in Cals
               PROVE  Len(StepsOf[c]) \in Nat /\ DOMAIN StepsOf[c] = 1..Len(StepsOf[c])
    OBVIOUS
  <1>1. StepsOf[c] \in Seq(Range(StepsOf[c]))
    BY ExecutorAssumption
  <1>2. QED
    BY <1>1, LenProperties, Zenon

(* The next step to be called is the first one with a tool the server has. *)
LEMMA NextCalledIsFirst ==
  ASSUME NEW c \in Cals, NEW known, NEW n \in Nat, n <= Len(StepsOf[c])
  PROVE  LET i == NextCalled(c, known, n) IN
         /\ i \in n + 1..Len(StepsOf[c]) + 1
         /\ i <= Len(StepsOf[c]) => StepsOf[c][i] \in known
         /\ \A k \in n + 1..i - 1 : k <= Len(StepsOf[c]) /\ StepsOf[c][k] \notin known
  <1> DEFINE L == Len(StepsOf[c])
             T == {i \in n + 1..L : StepsOf[c][i] \in known} \cup {L + 1}
             i == NextCalled(c, known, n)
  <1>1. L \in Nat
    BY StepsAreCounted
  <1>2. T \in SUBSET Nat /\ T # {}
    BY <1>1
  <1>3. i = Min(T)
    BY DEF NextCalled
  <1> HIDE DEF T, i, L
  <1>4. i \in T /\ \A y \in T : i <= y
    BY <1>2, <1>3, MinIsLeast
  <1> USE DEF T
  <1>5. i \in n + 1..L + 1 /\ (i <= L => StepsOf[c][i] \in known)
    BY <1>1, <1>4 DEF L
  <1>6. \A k \in n + 1..i - 1 : k <= L /\ StepsOf[c][k] \notin known
    BY <1>1, <1>4, <1>5
  <1>7. QED
    BY <1>5, <1>6 DEF i, L

(* The results up to that step: those there were, and those of the steps     *)
(* passed over.                                                              *)
LEMMA SkippedAreUnknown ==
  ASSUME NEW steps \in Seq(Outcomes), NEW i \in Nat, i >= Len(steps) + 1
  PROVE  LET results == steps \o Skipped(Len(steps), i) IN
         /\ results \in Seq(Outcomes)
         /\ Len(results) = i - 1
         /\ \A k \in 1..Len(steps) : results[k] = steps[k]
         /\ \A k \in Len(steps) + 1..i - 1 : results[k] = "unknown"
  <1> DEFINE n == Len(steps)
             skipped == Skipped(n, i)
             results == steps \o skipped
  <1>1. n \in Nat
    BY LenProperties
  <1>2. skipped \in Seq(Outcomes) /\ Len(skipped) = i - n - 1
        /\ \A k \in 1..i - n - 1 : skipped[k] = "unknown"
    <2>1. i - n - 1 \in Nat
      BY <1>1
    <2>2. /\ skipped = [k \in 1..i - n - 1 |-> "unknown"]
          /\ \A k \in 1..i - n - 1 : "unknown" \in Outcomes
      BY DEF Skipped, Outcomes
    <2> HIDE DEF skipped
    <2>3. skipped \in [1..i - n - 1 -> Outcomes]
      BY <2>2
    <2>4. skipped \in Seq(Outcomes)
      <3>1. \E m \in Nat : skipped \in [1..m -> Outcomes]
        BY <2>1, <2>3
      <3>2. Seq(Outcomes) = UNION {[1..m -> Outcomes] : m \in Nat}
        BY SeqDef
      <3>3. QED
        BY <3>1, <3>2, Zenon
    <2>5. Len(skipped) = i - n - 1
      <3>1. DOMAIN skipped = 1..i - n - 1
        BY <2>3
      <3>2. DOMAIN skipped = 1..Len(skipped) /\ Len(skipped) \in Nat
        BY <2>4, LenProperties, Zenon
      <3>3. QED
        BY <2>1, <3>1, <3>2
    <2>6. QED
      BY <2>2, <2>4, <2>5
  <1> HIDE DEF skipped
  <1>3. /\ results \in Seq(Outcomes)
        /\ Len(results) = n + Len(skipped)
        /\ \A k \in 1..n + Len(skipped) : results[k] = IF k <= n THEN steps[k] ELSE skipped[k - n]
    BY <1>2, ConcatProperties, Zenon
  <1> HIDE DEF results, n
  <1>4. Len(results) = i - 1
    BY <1>1, <1>2, <1>3
  <1>5. \A k \in 1..n : results[k] = steps[k]
    BY <1>1, <1>2, <1>3 DEF n
  <1>6. \A k \in n + 1..i - 1 : results[k] = "unknown"
    <2> SUFFICES ASSUME NEW k \in n + 1..i - 1 PROVE results[k] = "unknown"
      OBVIOUS
    <2>1. k \in 1..n + Len(skipped) /\ ~(k <= n) /\ k - n \in 1..i - n - 1
      BY <1>1, <1>2
    <2>2. QED
      BY <1>2, <1>3, <2>1
  <1>7. QED
    BY <1>3, <1>4, <1>5, <1>6 DEF results, n, skipped

-----------------------------------------------------------------------------
(* How the results of a call keep matching its requests. *)

(* Requests of others do not matter. *)
LEMMA MatchesLater ==
  ASSUME NEW c, NEW run, NEW s \in Seq(Requests), NEW perf, NEW open, Matches(c, run, s, perf, open),
         NEW x \in Requests, ~(x.cal = c /\ x.attempt = run.attempt)
  PROVE  Matches(c, run, Append(s, x), perf, open)
  <1> DEFINE t == Append(s, x)
  <1>1. /\ Len(t) = Len(s) + 1 /\ Len(s) \in Nat
        /\ \A id \in 1..Len(s) : t[id] = s[id]
        /\ t[Len(s) + 1] = x
    BY Longer
  <1> HIDE DEF t
  <1>2. \A id \in 1..Len(t) : Mine(c, run.attempt, t, id) => id \in 1..Len(s) /\ Mine(c, run.attempt, s, id)
    BY <1>1 DEF Mine
  <1>3. \A id \in 1..Len(s) : id \in 1..Len(t) /\ t[id] = s[id] /\ (Mine(c, run.attempt, s, id) => Mine(c, run.attempt, t, id))
    BY <1>1 DEF Mine
  <1>4. \A i \in 1..Len(run.steps) :
          IF StepsOf[c][i] \in run.known
            THEN \E id \in 1..Len(t) : /\ Mine(c, run.attempt, t, id) /\ t[id].step = i
                                       /\ [id |-> id, result |-> run.steps[i]] \in perf
            ELSE run.steps[i] = "unknown"
    BY <1>3 DEF Matches
  <1>5. \A id \in 1..Len(t) : Mine(c, run.attempt, t, id) =>
          /\ t[id].step \in 1..Len(run.steps) \/ id = open
          /\ StepsOf[c][t[id].step] \in run.known
          /\ \A k \in 1..Len(t) : Mine(c, run.attempt, t, k) /\ t[k].step = t[id].step => k = id
    <2> SUFFICES ASSUME NEW id \in 1..Len(t), Mine(c, run.attempt, t, id)
                 PROVE  /\ t[id].step \in 1..Len(run.steps) \/ id = open
                        /\ StepsOf[c][t[id].step] \in run.known
                        /\ \A k \in 1..Len(t) : Mine(c, run.attempt, t, k) /\ t[k].step = t[id].step => k = id
      OBVIOUS
    <2>1. id \in 1..Len(s) /\ Mine(c, run.attempt, s, id) /\ t[id] = s[id]
      BY <1>2, <1>3
    <2>2. /\ s[id].step \in 1..Len(run.steps) \/ id = open
          /\ StepsOf[c][s[id].step] \in run.known
          /\ \A k \in 1..Len(s) : Mine(c, run.attempt, s, k) /\ s[k].step = s[id].step => k = id
      BY <2>1 DEF Matches
    <2>3. QED
      BY <1>2, <1>3, <2>1, <2>2
  <1>6. QED
    BY <1>4, <1>5 DEF Matches, t

(* The server may do more. *)
LEMMA MatchesMore ==
  ASSUME NEW c, NEW run, NEW s, NEW perf, NEW more, NEW open, Matches(c, run, s, perf, open), perf \subseteq more
  PROVE  Matches(c, run, s, more, open)
  BY DEF Matches

(* Steps without a tool get their result without a request. *)
LEMMA MatchesSkipped ==
  ASSUME NEW c \in Cals, NEW run \in Calls, NEW s, NEW perf, Matches(c, run, s, perf, 0),
         Len(run.steps) <= Len(StepsOf[c]),
         NEW i, i = NextCalled(c, run.known, Len(run.steps)),
         NEW new, new.steps = run.steps \o Skipped(Len(run.steps), i),
         new.known = run.known, new.attempt = run.attempt
  PROVE  /\ Matches(c, new, s, perf, 0)
         /\ new.steps \in Seq(Outcomes) /\ Len(new.steps) = i - 1
         /\ i \in 1..Len(StepsOf[c]) + 1
         /\ i <= Len(StepsOf[c]) => StepsOf[c][i] \in run.known
  <1> DEFINE n == Len(run.steps)
  <1>1. run.steps \in Seq(Outcomes) /\ n \in Nat /\ Len(StepsOf[c]) \in Nat
    BY LenProperties, StepsAreCounted DEF Calls
  <1>2. /\ i \in n + 1..Len(StepsOf[c]) + 1
        /\ i <= Len(StepsOf[c]) => StepsOf[c][i] \in run.known
        /\ \A k \in n + 1..i - 1 : StepsOf[c][k] \notin run.known
    BY <1>1, NextCalledIsFirst
  <1>3. /\ new.steps \in Seq(Outcomes)
        /\ Len(new.steps) = i - 1
        /\ \A k \in 1..n : new.steps[k] = run.steps[k]
        /\ \A k \in n + 1..i - 1 : new.steps[k] = "unknown"
    <2>1. i \in Nat /\ i >= n + 1
      BY <1>1, <1>2
    <2>2. /\ run.steps \o Skipped(n, i) \in Seq(Outcomes)
          /\ Len(run.steps \o Skipped(n, i)) = i - 1
          /\ \A k \in 1..n : (run.steps \o Skipped(n, i))[k] = run.steps[k]
          /\ \A k \in n + 1..i - 1 : (run.steps \o Skipped(n, i))[k] = "unknown"
      BY <1>1, <2>1, SkippedAreUnknown, Zenon
    <2>3. new.steps = run.steps \o Skipped(n, i)
      OBVIOUS
    <2>4. QED
      BY <2>2, <2>3, Zenon
  <1> HIDE DEF n
  <1>4. Matches(c, new, s, perf, 0)
    <2>1. ASSUME NEW k \in 1..Len(new.steps)
          PROVE  IF StepsOf[c][k] \in new.known
                   THEN \E id \in 1..Len(s) : /\ Mine(c, new.attempt, s, id) /\ s[id].step = k
                                              /\ [id |-> id, result |-> new.steps[k]] \in perf
                   ELSE new.steps[k] = "unknown"
      <3>1. CASE k \in 1..n
        <4>1. new.steps[k] = run.steps[k] /\ k \in 1..Len(run.steps)
          BY <1>3, <3>1 DEF n
        <4>2. QED
          BY <4>1 DEF Matches
      <3>2. CASE k \in n + 1..i - 1
        BY <1>2, <1>3, <3>2
      <3>3. k \in 1..n \/ k \in n + 1..i - 1
        BY <1>1, <1>2, <1>3
      <3>4. QED
        BY <3>1, <3>2, <3>3
    <2>2. 1..Len(run.steps) \subseteq 1..Len(new.steps)
      BY <1>1, <1>2, <1>3 DEF n
    <2>3. QED
      BY <2>1, <2>2 DEF Matches
  <1>5. QED
    BY <1>1, <1>2, <1>3, <1>4

(* The request for the next step is the open one. *)
LEMMA MatchesAsked ==
  ASSUME NEW c \in Cals, NEW run, run.steps \in Seq(Outcomes), run.attempt \in Nat,
         NEW s \in Seq(Requests), NEW perf, Matches(c, run, s, perf, 0),
         StepsOf[c][Len(run.steps) + 1] \in run.known
  PROVE  Matches(c, run, Append(s, [cal |-> c, attempt |-> run.attempt, step |-> Len(run.steps) + 1]),
                 perf, Len(s) + 1)
  <1> DEFINE x == [cal |-> c, attempt |-> run.attempt, step |-> Len(run.steps) + 1]
             t == Append(s, x)
  <1>1. Len(run.steps) \in Nat
    BY LenProperties
  <1>2. x \in Requests /\ x.cal = c /\ x.attempt = run.attempt /\ x.step = Len(run.steps) + 1
    BY <1>1 DEF Requests
  <1> HIDE DEF x
  <1>3. /\ Len(t) = Len(s) + 1 /\ Len(s) \in Nat
        /\ \A id \in 1..Len(s) : t[id] = s[id]
        /\ t[Len(s) + 1] = x
    BY <1>2, Longer
  <1> HIDE DEF t
  <1>4. \A id \in 1..Len(s) : id \in 1..Len(t) /\ t[id] = s[id] /\ (Mine(c, run.attempt, s, id) <=> Mine(c, run.attempt, t, id))
    BY <1>3 DEF Mine
  <1>5. \A id \in 1..Len(s) : Mine(c, run.attempt, t, id) => t[id].step \in 1..Len(run.steps)
    BY <1>4 DEF Matches
  <1>6. \A i \in 1..Len(run.steps) :
          IF StepsOf[c][i] \in run.known
            THEN \E id \in 1..Len(t) : /\ Mine(c, run.attempt, t, id) /\ t[id].step = i
                                       /\ [id |-> id, result |-> run.steps[i]] \in perf
            ELSE run.steps[i] = "unknown"
    BY <1>4 DEF Matches
  <1>7. ASSUME NEW id \in 1..Len(t), Mine(c, run.attempt, t, id)
        PROVE  /\ t[id].step \in 1..Len(run.steps) \/ id = Len(s) + 1
               /\ StepsOf[c][t[id].step] \in run.known
               /\ \A k \in 1..Len(t) : Mine(c, run.attempt, t, k) /\ t[k].step = t[id].step => k = id
    <2>1. CASE id \in 1..Len(s)
      <3>1. t[id].step \in 1..Len(run.steps) /\ StepsOf[c][t[id].step] \in run.known
        BY <1>4, <1>5, <1>7, <2>1 DEF Matches
      <3>2. ASSUME NEW k \in 1..Len(t), Mine(c, run.attempt, t, k), t[k].step = t[id].step
            PROVE  k = id
        <4>1. CASE k \in 1..Len(s)
          <5>1. Mine(c, run.attempt, s, k) /\ Mine(c, run.attempt, s, id) /\ s[k].step = s[id].step
            BY <1>4, <1>7, <2>1, <3>2, <4>1
          <5>2. QED
            BY <2>1, <4>1, <5>1 DEF Matches
        <4>2. CASE k = Len(s) + 1
          BY <1>1, <1>2, <1>3, <3>1, <3>2, <4>2
        <4>3. QED
          BY <1>3, <4>1, <4>2
      <3>3. QED
        BY <3>1, <3>2
    <2>2. CASE id = Len(s) + 1
      <3>1. t[id].step = Len(run.steps) + 1
        BY <1>2, <1>3, <2>2
      <3>2. \A k \in 1..Len(s) : Mine(c, run.attempt, t, k) => t[k].step # Len(run.steps) + 1
        BY <1>1, <1>5
      <3>3. \A k \in 1..Len(t) : k \in 1..Len(s) \/ k = id
        BY <1>3, <2>2
      <3>4. QED
        BY <2>2, <3>1, <3>2, <3>3
    <2>3. QED
      BY <1>3, <2>1, <2>2
  <1>8. QED
    BY <1>6, <1>7 DEF Matches, t, x

(* Its answer is the result of the step. *)
LEMMA MatchesAnswered ==
  ASSUME NEW c, NEW run, run.steps \in Seq(Outcomes), NEW s, NEW perf, NEW open \in 1..Len(s),
         Matches(c, run, s, perf, open), Mine(c, run.attempt, s, open),
         s[open].step = Len(run.steps) + 1,
         NEW result \in Outcomes, [id |-> open, result |-> result] \in perf,
         NEW new, new.steps = Append(run.steps, result), new.known = run.known, new.attempt = run.attempt
  PROVE  Matches(c, new, s, perf, 0)
  <1> DEFINE n == Len(run.steps)
  <1>1. /\ n \in Nat /\ Len(new.steps) = n + 1
        /\ \A k \in 1..n : new.steps[k] = run.steps[k]
        /\ new.steps[n + 1] = result
    BY Longer
  <1>2. ASSUME NEW k \in 1..Len(new.steps)
        PROVE  IF StepsOf[c][k] \in new.known
                 THEN \E id \in 1..Len(s) : /\ Mine(c, new.attempt, s, id) /\ s[id].step = k
                                            /\ [id |-> id, result |-> new.steps[k]] \in perf
                 ELSE new.steps[k] = "unknown"
    <2>1. CASE k \in 1..n
      <3>1. new.steps[k] = run.steps[k] /\ k \in 1..Len(run.steps)
        BY <1>1, <2>1
      <3>2. QED
        BY <3>1 DEF Matches
    <2>2. CASE k = n + 1
      <3>1. StepsOf[c][k] \in new.known
        BY <2>2 DEF Matches
      <3>2. [id |-> open, result |-> new.steps[k]] \in perf
        BY <1>1, <2>2
      <3>3. QED
        BY <2>2, <3>1, <3>2
    <2>3. k \in 1..n \/ k = n + 1
      <3>1. k \in 1..n + 1
        BY <1>1, <1>2
      <3>2. QED
        BY <1>1, <3>1
    <2>4. QED
      BY <2>1, <2>2, <2>3, Zenon
  <1>3. ASSUME NEW id \in 1..Len(s), Mine(c, new.attempt, s, id)
        PROVE  /\ s[id].step \in 1..Len(new.steps)
               /\ StepsOf[c][s[id].step] \in new.known
               /\ \A k \in 1..Len(s) : Mine(c, new.attempt, s, k) /\ s[k].step = s[id].step => k = id
    <2>1. /\ s[id].step \in 1..n \/ id = open
          /\ StepsOf[c][s[id].step] \in run.known
          /\ \A k \in 1..Len(s) : Mine(c, run.attempt, s, k) /\ s[k].step = s[id].step => k = id
      BY <1>3 DEF Matches
    <2>2. s[id].step \in 1..Len(new.steps)
      BY <1>1, <2>1
    <2>3. QED
      BY <2>1, <2>2
  <1>4. QED
    BY <1>2, <1>3 DEF Matches

(* With none open, every request was answered. *)
LEMMA MatchedAreCarried ==
  ASSUME NEW c \in Cals, NEW run, NEW s \in Seq(Requests), NEW perf, Matches(c, run, s, perf, 0),
         NEW id \in 1..Len(s), Mine(c, run.attempt, s, id)
  PROVE  id \in Carried(perf)
  <1>1. s[id].step \in 1..Len(run.steps) /\ StepsOf[c][s[id].step] \in run.known
    BY LenProperties DEF Matches
  <1>2. PICK k \in 1..Len(s) : /\ Mine(c, run.attempt, s, k) /\ s[k].step = s[id].step
                               /\ [id |-> k, result |-> run.steps[s[id].step]] \in perf
    BY <1>1 DEF Matches
  <1>3. k = id
    BY <1>2 DEF Matches
  <1>4. QED
    BY <1>2, <1>3 DEF Carried

LEMMA CallLater ==
  ASSUME NEW c, NEW run, NEW s \in Seq(Requests), NEW perf, CallOK(c, run, s, perf),
         NEW x \in Requests, ~(x.cal = c /\ x.attempt = run.attempt)
  PROVE  CallOK(c, run, Append(s, x), perf)
  <1>1. /\ Len(Append(s, x)) = Len(s) + 1 /\ Len(s) \in Nat
        /\ \A id \in 1..Len(s) : Append(s, x)[id] = s[id]
    BY Longer
  <1>2. \A open : Matches(c, run, s, perf, open) => Matches(c, run, Append(s, x), perf, open)
    BY MatchesLater
  <1> DEFINE t == Append(s, x)
  <1> HIDE DEF t
  <1>3. /\ Len(t) = Len(s) + 1 /\ Len(s) \in Nat
        /\ \A id \in 1..Len(s) : t[id] = s[id]
        /\ \A open : Matches(c, run, s, perf, open) => Matches(c, run, t, perf, open)
    BY <1>1, <1>2 DEF t
  <1>4. CallOK(c, run, t, perf)
    BY <1>3 DEF CallOK, Mine
  <1>5. QED
    BY <1>4 DEF t

-----------------------------------------------------------------------------
(* Each step preserves the invariant. *)

(* A request may be made when all those of its attempt were carried out. *)
LEMMA Requested ==
  ASSUME ExecInv, NEW x \in Requests, sent' = Append(sent, x),
         performed' = performed, answers' \subseteq answers, asked' \subseteq asked \cup {Len(sent) + 1},
         \A k \in 1..Len(sent) : Mine(x.cal, x.attempt, sent, k) => k \in Carried(performed)
  PROVE  /\ OnceOK' /\ OrderOK'
         /\ sent' \in Seq(Requests) /\ asked' \subseteq 1..Len(sent')
         /\ performed' \subseteq [id : 1..Len(sent'), result : Results] /\ answers' \subseteq performed'
  <1>1. /\ sent' \in Seq(Requests)
        /\ Len(sent') = Len(sent) + 1 /\ Len(sent) \in Nat
        /\ \A id \in 1..Len(sent) : sent'[id] = sent[id]
        /\ sent'[Len(sent) + 1] = x
    BY Longer DEF ExecInv, TypesOK
  <1>2. 1..Len(sent') = 1..Len(sent) \cup {Len(sent) + 1} /\ Len(sent) + 1 \notin 1..Len(sent)
    BY <1>1
  <1>3. Carried(performed) \subseteq 1..Len(sent)
    BY DEF ExecInv, TypesOK, Carried
  <1>4. /\ asked' \subseteq 1..Len(sent') /\ answers' \subseteq performed'
        /\ performed' \subseteq [id : 1..Len(sent'), result : Results]
    BY <1>2 DEF ExecInv, TypesOK
  <1>5. OnceOK'
    BY <1>2, <1>3 DEF ExecInv, OnceOK
  <1>6. OrderOK'
    <2> SUFFICES ASSUME NEW id \in 1..Len(sent'), NEW k \in 1..id - 1,
                        Mine(sent'[id].cal, sent'[id].attempt, sent', k)
                 PROVE  k \in Carried(performed)
      BY DEF OrderOK
    <2>1. k \in 1..Len(sent) /\ sent'[k] = sent[k]
      BY <1>1
    <2>2. CASE id \in 1..Len(sent)
      <3>1. Mine(sent[id].cal, sent[id].attempt, sent, k)
        BY <1>1, <2>1, <2>2 DEF Mine
      <3>2. QED
        BY <2>2, <3>1 DEF ExecInv, OrderOK
    <2>3. CASE id = Len(sent) + 1
      <3>1. Mine(x.cal, x.attempt, sent, k)
        BY <1>1, <2>1, <2>3 DEF Mine
      <3>2. QED
        BY <2>1, <3>1
    <2>4. QED
      BY <1>2, <2>2, <2>3
  <1>7. QED
    BY <1>1, <1>4, <1>5, <1>6

(* What GoOn makes of a run whose results match its requests. *)
LEMMA GoOnKeeps ==
  ASSUME ExecInv, NEW c \in Cals, NEW run \in Calls, NEW freed,
         Matches(c, run, sent, performed, 0), Len(run.steps) <= Len(StepsOf[c]),
         call[c].attempt <= run.attempt,
         proc = "none" => run.known = {},
         proc = "up" => \A id \in pending \ freed : sent[id].cal # c,
         GoOn(c, run, freed), UNCHANGED <<proc, conn, tools, performed>>, answers' \subseteq answers
  PROVE  ExecInv'
  <1> DEFINE i == NextCalled(c, run.known, Len(run.steps))
             atEnd == i > Len(StepsOf[c])
             results == run.steps \o Skipped(Len(run.steps), i)
             awaits == IF atEnd THEN 0 ELSE Len(sent) + 1
             pc == CASE atEnd -> "returned"
                     [] ~atEnd /\ proc = "up" -> "awaits"
                     [] OTHER -> "threw"
             new == [run EXCEPT !.steps = results, !.awaits = awaits, !.pc = pc]
  <1>1. call \in [Cals -> Calls] /\ sent \in Seq(Requests) /\ Len(sent) \in Nat
    BY LenProperties DEF ExecInv, TypesOK
  <1>2. call' = [call EXCEPT ![c] = new]
    BY DEF GoOn
  <1>3. /\ new.steps = run.steps \o Skipped(Len(run.steps), i)
        /\ new.known = run.known /\ new.attempt = run.attempt
        /\ new.awaits = IF atEnd THEN 0 ELSE Len(sent) + 1
        /\ atEnd => new.pc = "returned"
        /\ ~atEnd /\ proc = "up" => new.pc = "awaits"
        /\ ~atEnd /\ proc # "up" => new.pc = "threw"
        /\ new = [pc |-> new.pc, attempt |-> run.attempt, known |-> run.known,
                 steps |-> new.steps, awaits |-> new.awaits]
    <2> HIDE DEF results, awaits, pc
    <2>1. /\ new = [pc |-> pc, attempt |-> run.attempt, known |-> run.known,
                   steps |-> results, awaits |-> awaits]
          /\ new.steps = results /\ new.known = run.known /\ new.attempt = run.attempt
          /\ new.awaits = awaits /\ new.pc = pc
      <3>1. run = [pc |-> run.pc, attempt |-> run.attempt, known |-> run.known,
                   steps |-> run.steps, awaits |-> run.awaits]
        BY DEF Calls
      <3>2. new = [pc |-> pc, attempt |-> run.attempt, known |-> run.known,
                   steps |-> results, awaits |-> awaits]
        <4>1. /\ DOMAIN run = {"pc", "attempt", "known", "steps", "awaits"}
              /\ run = [f \in DOMAIN run |-> run[f]]
          BY <3>1
        <4>2. /\ DOMAIN new = {"pc", "attempt", "known", "steps", "awaits"}
              /\ new = [f \in DOMAIN new |-> new[f]]
          BY <4>1
        <4>3. new.steps = results /\ new.awaits = awaits /\ new.pc = pc
          BY <4>1
        <4>4. new.known = run.known /\ new.attempt = run.attempt
          BY <4>1
        <4> HIDE DEF new
        <4>5. QED
          BY <4>2, <4>3, <4>4
      <3> HIDE DEF new
      <3>3. QED
        BY <3>2
    <2> HIDE DEF new, i
    <2>2. awaits = IF atEnd THEN 0 ELSE Len(sent) + 1
      BY DEF awaits
    <2>3. results = run.steps \o Skipped(Len(run.steps), i)
      BY DEF results
    <2>4. /\ atEnd => pc = "returned"
          /\ ~atEnd /\ proc = "up" => pc = "awaits"
          /\ ~atEnd /\ proc # "up" => pc = "threw"
      BY DEF pc
    <2>5. QED
      BY <2>1, <2>2, <2>3, <2>4
  <1>4. IF atEnd THEN NoRequest ELSE Request(c, run.attempt, i)
    BY DEF GoOn
  <1>5. pending' = IF atEnd THEN pending \ freed ELSE (pending \ freed) \cup {Len(sent) + 1}
    BY DEF GoOn
  <1> HIDE DEF new
  <1>6. /\ Matches(c, new, sent, performed, 0)
        /\ new.steps \in Seq(Outcomes) /\ Len(new.steps) = i - 1
        /\ i \in 1..Len(StepsOf[c]) + 1
        /\ i <= Len(StepsOf[c]) => StepsOf[c][i] \in run.known
    BY <1>3, MatchesSkipped
  <1>7. run.attempt \in Nat /\ run.known \in SUBSET Advertised /\ Len(StepsOf[c]) \in Nat
    BY StepsAreCounted DEF Calls
  <1> HIDE DEF i
  <1>8. new \in Calls
    <2>1. new.pc \in {"idle", "awaits", "returned", "threw"} /\ new.awaits \in Nat
      BY <1>1, <1>3
    <2>2. new = [pc |-> new.pc, attempt |-> run.attempt, known |-> run.known,
                 steps |-> new.steps, awaits |-> new.awaits]
      BY <1>3
    <2>3. QED
      BY <1>6, <1>7, <2>1, <2>2 DEF Calls
  <1>9. /\ call' \in [Cals -> Calls] /\ call'[c] = new
        /\ \A d \in Cals \ {c} : call'[d] = call[d]
    BY <1>1, <1>2, <1>8
  <1>10. \A id \in 1..Len(sent) : sent[id].cal = c => sent[id].attempt <= run.attempt
    <2>1. \A id \in 1..Len(sent) : sent[id].attempt \in Nat
      <3>1. \A id \in 1..Len(sent) : sent[id] \in Requests
        BY <1>1, ElementOfSeq
      <3>2. QED
        BY <3>1 DEF Requests
    <2>2. call[c].attempt \in Nat
      BY <1>1 DEF Calls
    <2>3. QED
      BY <1>7, <2>1, <2>2 DEF ExecInv, AttemptsOK
  <1>11. CASE atEnd
    <2>1. UNCHANGED <<sent, asked>> /\ pending' = pending \ freed /\ new.pc = "returned"
      BY <1>3, <1>4, <1>5, <1>11 DEF NoRequest
    <2>2. TypesOK'
      BY <1>9, <2>1 DEF ExecInv, TypesOK
    <2>3. OnceOK' /\ OrderOK'
      BY <2>1 DEF ExecInv, OnceOK, OrderOK
    <2>4. CallsOK'
      <3>1. Len(new.steps) = Len(StepsOf[c])
        BY <1>6, <1>7, <1>11
      <3>2. CallOK(c, new, sent, performed)
        BY <1>6, <2>1, <3>1 DEF CallOK
      <3>3. QED
        BY <1>9, <2>1, <3>2 DEF ExecInv, CallsOK
    <2>5. AttemptsOK'
      BY <1>3, <1>9, <1>10, <2>1 DEF ExecInv, AttemptsOK
    <2>6. PendingOK'
      <3>1. proc = "up" => \A id \in pending' : sent[id].cal \in Cals => sent[id].cal \in Cals \ {c}
        BY <2>1
      <3>2. QED
        BY <1>9, <2>1, <3>1 DEF ExecInv, PendingOK
    <2>7. QED
      BY <2>2, <2>3, <2>4, <2>5, <2>6 DEF ExecInv
  <1>12. CASE ~atEnd
    <2> DEFINE x == [cal |-> c, attempt |-> run.attempt, step |-> i]
    <2>1. /\ sent' = Append(sent, x) /\ asked' \subseteq asked \cup {Len(sent) + 1}
          /\ pending' = (pending \ freed) \cup {Len(sent) + 1}
      BY <1>4, <1>5, <1>12 DEF Request
    <2>2. i = Len(new.steps) + 1 /\ StepsOf[c][i] \in run.known /\ i \in Nat /\ i <= Len(StepsOf[c])
      BY <1>6, <1>7, <1>12
    <2>3. proc # "none"
      BY <2>2
    <2>4. x \in Requests /\ x.cal = c /\ x.attempt = run.attempt
      BY <1>7, <2>2 DEF Requests
    <2>5. /\ Len(sent') = Len(sent) + 1
          /\ \A id \in 1..Len(sent) : sent'[id] = sent[id]
          /\ sent'[Len(sent) + 1] = x
      BY <1>1, <2>1, <2>4, Longer
    <2>6. Matches(c, new, sent', performed, Len(sent) + 1)
      <3>1. sent' = Append(sent, [cal |-> c, attempt |-> new.attempt, step |-> Len(new.steps) + 1])
        BY <1>3, <2>1, <2>2
      <3>2. StepsOf[c][Len(new.steps) + 1] \in new.known /\ new.attempt \in Nat
        BY <1>3, <1>7, <2>2
      <3>3. QED
        BY <1>1, <1>6, <3>1, <3>2, MatchesAsked
    <2>7. \A k \in 1..Len(sent) : Mine(c, run.attempt, sent, k) => k \in Carried(performed)
      BY <1>1, MatchedAreCarried
    <2> HIDE DEF x
    <2>8. /\ OnceOK' /\ OrderOK'
          /\ sent' \in Seq(Requests) /\ asked' \subseteq 1..Len(sent')
          /\ performed' \subseteq [id : 1..Len(sent'), result : Results] /\ answers' \subseteq performed'
      BY <2>1, <2>4, <2>7, Requested
    <2>9. TypesOK'
      <3>1. pending' \subseteq 1..Len(sent')
        <4>1. pending \subseteq 1..Len(sent)
          BY DEF ExecInv, TypesOK
        <4>2. 1..Len(sent') = 1..Len(sent) \cup {Len(sent) + 1}
          BY <1>1, <2>5
        <4>3. QED
          BY <2>1, <4>1, <4>2
      <3>2. QED
        BY <1>9, <2>8, <3>1 DEF ExecInv, TypesOK
    <2>10. CallsOK'
      <3>1. CallOK(c, new, sent', performed)
        <4>1. new.pc # "returned" /\ new.awaits = Len(sent) + 1
          BY <1>3, <1>12
        <4>2. /\ new.awaits \in 1..Len(sent') /\ Mine(c, new.attempt, sent', new.awaits)
              /\ sent'[new.awaits].step = Len(new.steps) + 1
          <5>1. sent'[new.awaits] = x /\ new.awaits \in 1..Len(sent')
            BY <1>1, <2>5, <4>1
          <5>2. x.step = Len(new.steps) + 1
            BY <2>2 DEF x
          <5>3. QED
            BY <1>3, <2>4, <5>1, <5>2 DEF Mine
        <4>3. QED
          BY <2>2, <2>6, <4>1, <4>2 DEF CallOK
      <3>2. ASSUME NEW d \in Cals \ {c} PROVE CallOK(d, call[d], sent', performed)
        <4>1. CallOK(d, call[d], sent, performed) /\ x.cal # d
          BY <2>4 DEF ExecInv, CallsOK
        <4>2. QED
          BY <1>1, <2>1, <2>4, <4>1, CallLater
      <3>3. QED
        BY <1>9, <3>1, <3>2 DEF CallsOK
    <2>11. AttemptsOK'
      <3> SUFFICES ASSUME NEW id \in 1..Len(sent'), sent'[id].cal \in Cals
                   PROVE  sent'[id].attempt <= call'[sent'[id].cal].attempt
        BY DEF AttemptsOK
      <3>1. CASE id = Len(sent) + 1
        BY <1>3, <1>7, <1>9, <2>4, <2>5, <3>1
      <3>2. CASE id \in 1..Len(sent)
        BY <1>3, <1>9, <1>10, <2>5, <3>2 DEF ExecInv, AttemptsOK
      <3>3. QED
        BY <1>1, <2>5, <3>1, <3>2
    <2>12. PendingOK'
      <3>1. proc = "up" => \A id \in pending' : sent'[id].cal \in Cals =>
                             call'[sent'[id].cal].pc = "awaits" /\ call'[sent'[id].cal].awaits = id
        <4> SUFFICES ASSUME proc = "up", NEW id \in pending', sent'[id].cal \in Cals
                     PROVE  call'[sent'[id].cal].pc = "awaits" /\ call'[sent'[id].cal].awaits = id
          OBVIOUS
        <4>1. CASE id = Len(sent) + 1
          BY <1>3, <1>9, <1>12, <2>4, <2>5, <4>1
        <4>2. CASE id \in pending \ freed
          <5>1. sent'[id] = sent[id] /\ sent[id].cal \in Cals \ {c}
            BY <2>5, <4>2 DEF ExecInv, TypesOK
          <5>2. QED
            BY <1>9, <4>2, <5>1 DEF ExecInv, PendingOK
        <4>3. QED
          BY <2>1, <4>1, <4>2
      <3>2. conn = "initialize" =>
              \A id, k \in 1..Len(sent') : sent'[id].cal = Nobody /\ sent'[k].cal = Nobody => id = k
        <4>1. \A id \in 1..Len(sent') : sent'[id].cal = Nobody => id \in 1..Len(sent) /\ sent'[id] = sent[id]
          BY <1>1, <2>4, <2>5, ExecutorAssumption
        <4>2. QED
          BY <4>1 DEF ExecInv, PendingOK
      <3>3. QED
        BY <2>3, <3>1, <3>2 DEF PendingOK
    <2>13. QED
      BY <2>8, <2>9, <2>10, <2>11, <2>12 DEF ExecInv
  <1>13. QED
    BY <1>11, <1>12

LEMMA ExecStarts == Init => ExecInv
  <1> SUFFICES ASSUME Init PROVE ExecInv
    OBVIOUS
  <1>1. \A c \in Cals : call[c] \in Calls /\ call[c].pc = "idle"
    BY DEF Init, Calls
  <1>2. TypesOK
    BY <1>1 DEF Init, TypesOK
  <1>3. OnceOK /\ OrderOK /\ PendingOK /\ AttemptsOK
    BY DEF Init, OnceOK, OrderOK, PendingOK, AttemptsOK
  <1>4. CallsOK
    BY <1>1 DEF CallsOK, CallOK
  <1>5. QED
    BY <1>2, <1>3, <1>4 DEF ExecInv

LEMMA AttemptPreserves ==
  ASSUME ExecInv, NEW c \in Cals, Attempt(c)
  PROVE  ExecInv'
  <1> DEFINE run == [pc |-> "awaits", attempt |-> call[c].attempt + 1, known |-> tools,
                     steps |-> <<>>, awaits |-> 0]
  <1>1. /\ call[c].pc \in {"idle", "threw"} /\ GoOn(c, run, {})
        /\ UNCHANGED <<proc, conn, tools, performed>> /\ answers' = answers
    BY DEF Attempt
  <1>2. call[c] \in Calls /\ call[c].attempt \in Nat /\ tools \in SUBSET Advertised
    BY DEF ExecInv, TypesOK, Calls
  <1>3. run \in Calls /\ run.steps = <<>> /\ run.attempt = call[c].attempt + 1 /\ run.known = tools
    BY <1>2 DEF Calls
  <1> HIDE DEF run
  <1>4. \A id \in 1..Len(sent) : ~Mine(c, run.attempt, sent, id)
    <2> SUFFICES ASSUME NEW id \in 1..Len(sent), sent[id].cal = c PROVE sent[id].attempt # run.attempt
      BY DEF Mine
    <2>1. sent[id] \in Requests
      BY ElementOfSeq DEF ExecInv, TypesOK
    <2>2. sent[id].attempt \in Nat /\ sent[id].attempt <= call[c].attempt
      BY <2>1 DEF ExecInv, AttemptsOK, Requests
    <2>3. QED
      BY <1>2, <1>3, <2>2
  <1>5. Matches(c, run, sent, performed, 0)
    BY <1>3, <1>4 DEF Matches
  <1>6. Len(run.steps) <= Len(StepsOf[c])
    BY <1>3, StepsAreCounted
  <1>7. proc = "up" => \A id \in pending \ {} : sent[id].cal # c
    BY <1>1 DEF ExecInv, PendingOK
  <1>8. proc = "none" => run.known = {}
    BY <1>3 DEF ExecInv, PendingOK
  <1>9. call[c].attempt <= run.attempt
    BY <1>2, <1>3
  <1>10. QED
    BY <1>1, <1>3, <1>5, <1>6, <1>7, <1>8, <1>9, GoOnKeeps

(* The call that waits for the answer takes it as the result of its step. *)
LEMMA AnswerPreserves ==
  ASSUME ExecInv, NEW answer \in answers, OnLine(answer), answer.id \in pending,
         NEW c \in Cals, sent[answer.id].cal = c, answer.result # "error"
  PROVE  ExecInv'
  <1> DEFINE id == answer.id
             run == [call[c] EXCEPT !.steps = Append(@, answer.result)]
  <1>1. /\ proc = "up" /\ UNCHANGED <<proc, conn, tools, performed>> /\ answers' \subseteq answers
        /\ GoOn(c, run, {id})
    BY ExecutorAssumption DEF OnLine, TakeLine, Settles
  <1>2. /\ call[c] \in Calls /\ call[c].pc = "awaits" /\ call[c].awaits = id
        /\ answer \in performed /\ id \in 1..Len(sent)
    BY <1>1 DEF ExecInv, TypesOK, PendingOK
  <1>3. answer.result \in Outcomes /\ [id |-> id, result |-> answer.result] \in performed
    <2>1. answer \in [id : 1..Len(sent), result : Results]
      BY <1>2 DEF ExecInv, TypesOK
    <2>2. answer = [id |-> id, result |-> answer.result] /\ answer.result \in Results
      BY <2>1
    <2>3. QED
      BY <1>2, <2>2 DEF Outcomes
  <1>4. /\ Mine(c, call[c].attempt, sent, id) /\ sent[id].step = Len(call[c].steps) + 1
        /\ Len(call[c].steps) + 1 <= Len(StepsOf[c])
        /\ Matches(c, call[c], sent, performed, id)
    BY <1>2 DEF ExecInv, CallsOK, CallOK
  <1>5. call[c].steps \in Seq(Outcomes) /\ call[c].attempt \in Nat
    BY <1>2 DEF Calls
  <1>6. /\ Append(call[c].steps, answer.result) \in Seq(Outcomes)
        /\ Len(Append(call[c].steps, answer.result)) = Len(call[c].steps) + 1
    BY <1>3, <1>5, Longer
  <1>7. /\ run \in Calls /\ run.steps = Append(call[c].steps, answer.result)
        /\ run.known = call[c].known /\ run.attempt = call[c].attempt
    BY <1>2, <1>6 DEF Calls
  <1> HIDE DEF run
  <1>8. Matches(c, run, sent, performed, 0)
    BY <1>2, <1>3, <1>4, <1>5, <1>7, MatchesAnswered
  <1>9. \A k \in pending \ {id} : sent[k].cal # c
    BY <1>1, <1>2 DEF ExecInv, PendingOK
  <1>10. Len(run.steps) <= Len(StepsOf[c]) /\ call[c].attempt <= run.attempt
    BY <1>4, <1>5, <1>6, <1>7
  <1>11. QED
    BY <1>1, <1>7, <1>8, <1>9, <1>10, GoOnKeeps

(* A request that is given up ends the attempt that waits for it. *)
LEMMA GivenUp ==
  ASSUME ExecInv, NEW id \in pending, UNCHANGED <<proc, tools, sent, asked, performed>>,
         answers' \subseteq answers, pending' = pending \ {id}, conn' \in {conn, "failed"},
         call' \in [Cals -> Calls],
         \A c \in Cals : \/ call'[c] = call[c]
                         \/ /\ call'[c].pc = "threw" /\ call'[c].attempt = call[c].attempt
                            /\ call[c].awaits = id
  PROVE  ExecInv'
  <1>1. TypesOK' /\ OnceOK' /\ OrderOK'
    BY DEF ExecInv, TypesOK, OnceOK, OrderOK
  <1>2. CallsOK'
    <2> SUFFICES ASSUME NEW c \in Cals PROVE CallOK(c, call'[c], sent, performed)
      BY DEF CallsOK
    <2>1. CASE call'[c] = call[c]
      BY <2>1 DEF ExecInv, CallsOK
    <2>2. CASE call'[c].pc = "threw"
      BY <2>2 DEF CallOK
    <2>3. QED
      BY <2>1, <2>2
  <1>3. AttemptsOK'
    BY DEF ExecInv, AttemptsOK
  <1>4. PendingOK'
    <2>1. ASSUME proc = "up", NEW k \in pending', sent[k].cal \in Cals
          PROVE  call'[sent[k].cal].pc = "awaits" /\ call'[sent[k].cal].awaits = k
      <3>1. k # id /\ call[sent[k].cal].pc = "awaits" /\ call[sent[k].cal].awaits = k
        BY <2>1 DEF ExecInv, PendingOK
      <3>2. call'[sent[k].cal] = call[sent[k].cal]
        BY <2>1, <3>1
      <3>3. QED
        BY <3>1, <3>2
    <2>2. QED
      BY <2>1 DEF ExecInv, PendingOK
  <1>5. QED
    BY <1>1, <1>2, <1>3, <1>4 DEF ExecInv

LEMMA RejectPreserves ==
  ASSUME ExecInv, NEW answer \in answers, OnLine(answer), answer.id \in pending,
         NEW c \in Cals, sent[answer.id].cal = c, answer.result = "error"
  PROVE  ExecInv'
  <1>1. /\ proc = "up" /\ UNCHANGED <<proc, conn, tools, performed>> /\ answers' \subseteq answers
        /\ Reject(c, answer.id)
    BY ExecutorAssumption DEF OnLine, TakeLine, Settles
  <1>2. call \in [Cals -> Calls]
    BY DEF ExecInv, TypesOK
  <1>3. /\ call' = [call EXCEPT ![c].pc = "threw", ![c].awaits = 0]
        /\ pending' = pending \ {answer.id} /\ UNCHANGED <<sent, asked>>
    BY <1>1 DEF Reject, NoRequest
  <1>4. /\ call'[c] \in Calls /\ call'[c].pc = "threw" /\ call'[c].attempt = call[c].attempt
        /\ \A d \in Cals \ {c} : call'[d] = call[d]
        /\ call' \in [Cals -> Calls]
    <2>1. call[c] \in Calls
      BY <1>2
    <2>2. [call[c] EXCEPT !.pc = "threw", !.awaits = 0] \in Calls
      BY <2>1 DEF Calls
    <2>3. call' = [call EXCEPT ![c] = [call[c] EXCEPT !.pc = "threw", !.awaits = 0]]
      BY <1>2, <1>3, <2>1 DEF Calls
    <2>4. /\ [call[c] EXCEPT !.pc = "threw", !.awaits = 0].pc = "threw"
          /\ [call[c] EXCEPT !.pc = "threw", !.awaits = 0].attempt = call[c].attempt
      BY <2>1 DEF Calls
    <2>5. QED
      BY <1>2, <2>2, <2>3, <2>4
  <1>5. call[c].awaits = answer.id
    BY <1>1 DEF ExecInv, PendingOK
  <1>6. \A d \in Cals : \/ call'[d] = call[d]
                        \/ /\ call'[d].pc = "threw" /\ call'[d].attempt = call[d].attempt
                           /\ call[d].awaits = answer.id
    BY <1>4, <1>5
  <1>7. UNCHANGED <<proc, tools, sent, asked, performed>> /\ conn' \in {conn, "failed"}
    BY <1>1, <1>3
  <1>8. QED
    BY <1>1, <1>3, <1>4, <1>6, <1>7, GivenUp

(* Steps that leave the calls and the requests as they are. *)
LEMMA QuietPreserves ==
  ASSUME ExecInv, UNCHANGED <<call, sent, performed>>,
         asked' \subseteq asked, answers' \subseteq answers, pending' \subseteq pending,
         tools' \subseteq Advertised, proc' \in {"none", "up", "closed"},
         proc' = "none" => proc = "none" /\ tools' = tools,
         proc' = "up" => proc = "up",
         conn' = "initialize" => conn = "initialize"
  PROVE  ExecInv'
  <1>1. TypesOK' /\ OnceOK' /\ OrderOK'
    BY DEF ExecInv, TypesOK, OnceOK, OrderOK
  <1>2. CallsOK' /\ AttemptsOK' /\ PendingOK'
    BY DEF ExecInv, CallsOK, AttemptsOK, PendingOK
  <1>3. QED
    BY <1>1, <1>2 DEF ExecInv

(* A request of the handshake. *)
LEMMA ShakePreserves ==
  ASSUME ExecInv, UNCHANGED <<call, tools, performed>>, answers' \subseteq answers,
         sent' = Append(sent, [cal |-> Nobody, attempt |-> 0, step |-> 0]),
         asked' \subseteq asked \cup {Len(sent) + 1}, pending' \subseteq pending \cup {Len(sent) + 1},
         proc' = "up", proc = "up" \/ proc = "none", conn' = "initialize" => sent = <<>>,
         \A k \in 1..Len(sent) : sent[k].cal = Nobody => k \in Carried(performed)
  PROVE  ExecInv'
  <1> DEFINE x == [cal |-> Nobody, attempt |-> 0, step |-> 0]
  <1>1. x \in Requests /\ x.cal = Nobody /\ Nobody \notin Cals
    BY ExecutorAssumption DEF Requests
  <1> HIDE DEF x
  <1>2. sent' = Append(sent, x) /\ sent \in Seq(Requests) /\ Len(sent) \in Nat
    BY LenProperties DEF x, ExecInv, TypesOK
  <1>3. /\ Len(sent') = Len(sent) + 1
        /\ \A id \in 1..Len(sent) : sent'[id] = sent[id]
        /\ sent'[Len(sent) + 1] = x
        /\ 1..Len(sent') = 1..Len(sent) \cup {Len(sent) + 1}
    BY <1>1, <1>2, Longer
  <1>4. \A k \in 1..Len(sent) : Mine(x.cal, x.attempt, sent, k) => k \in Carried(performed)
    BY <1>1 DEF Mine
  <1>5. /\ OnceOK' /\ OrderOK'
        /\ sent' \in Seq(Requests) /\ asked' \subseteq 1..Len(sent')
        /\ performed' \subseteq [id : 1..Len(sent'), result : Results] /\ answers' \subseteq performed'
    BY <1>1, <1>2, <1>4, Requested
  <1>6. pending' \subseteq 1..Len(sent')
    BY <1>3 DEF ExecInv, TypesOK
  <1>7. TypesOK'
    BY <1>5, <1>6 DEF ExecInv, TypesOK
  <1>8. CallsOK'
    <2> SUFFICES ASSUME NEW c \in Cals PROVE CallOK(c, call[c], sent', performed)
      BY DEF CallsOK
    <2>1. CallOK(c, call[c], sent, performed) /\ x.cal # c
      BY <1>1 DEF ExecInv, CallsOK
    <2>2. QED
      BY <1>1, <1>2, <2>1, CallLater
  <1>9. AttemptsOK'
    BY <1>1, <1>3 DEF ExecInv, AttemptsOK
  <1>10. PendingOK'
    <2>1. ASSUME NEW id \in pending', sent'[id].cal \in Cals
          PROVE  call[sent'[id].cal].pc = "awaits" /\ call[sent'[id].cal].awaits = id
      <3>1. id # Len(sent) + 1
        BY <1>1, <1>3, <2>1
      <3>2. id \in pending /\ id \in 1..Len(sent) /\ sent'[id] = sent[id]
        BY <1>3, <3>1 DEF ExecInv, TypesOK
      <3>3. proc = "up"
        BY <1>2, <3>2 DEF ExecInv, PendingOK
      <3>4. QED
        BY <2>1, <3>2, <3>3 DEF ExecInv, PendingOK
    <2>2. conn' = "initialize" => \A id, k \in 1..Len(sent') : id = k
      <3>1. sent = <<>> => Len(sent) = 0
        OBVIOUS
      <3>2. QED
        BY <1>3, <3>1
    <2>3. QED
      BY <2>1, <2>2 DEF PendingOK
  <1>11. QED
    BY <1>5, <1>7, <1>8, <1>9, <1>10 DEF ExecInv

LEMMA ConnectPreserves ==
  ASSUME ExecInv, Connect
  PROVE  ExecInv'
  <1>1. /\ proc = "none" /\ proc' = "up" /\ conn' = "initialize"
        /\ UNCHANGED <<tools, call, answers, performed>>
        /\ pending' = pending \cup {Len(sent) + 1}
        /\ sent' = Append(sent, [cal |-> Nobody, attempt |-> 0, step |-> 0])
        /\ asked' \subseteq asked \cup {Len(sent) + 1}
    BY DEF Connect, Request
  <1>2. sent = <<>>
    BY <1>1 DEF ExecInv, PendingOK
  <1>3. \A k \in 1..Len(sent) : FALSE
    BY <1>2
  <1>4. QED
    BY <1>1, <1>2, <1>3, ShakePreserves

LEMMA OnLinePreserves ==
  ASSUME ExecInv, NEW answer \in answers, OnLine(answer)
  PROVE  ExecInv'
  <1> DEFINE id == answer.id
  <1>1. proc = "up" /\ proc' = proc /\ answers' \subseteq answers /\ performed' = performed
    BY DEF OnLine
  <1>2. answer \in performed /\ id \in 1..Len(sent) /\ sent \in Seq(Requests)
    BY DEF ExecInv, TypesOK
  <1>3. sent[id].cal \in Cals \cup {Nobody}
    <2>1. sent[id] \in Requests
      BY <1>2, ElementOfSeq
    <2>2. QED
      BY <2>1 DEF Requests
  <1>4. CASE id \notin pending
    <2>1. UNCHANGED <<sent, asked, conn, tools, pending, call>>
      BY <1>4 DEF OnLine, NoRequest
    <2>2. tools \subseteq Advertised
      BY DEF ExecInv, TypesOK
    <2>3. QED
      BY <1>1, <2>1, <2>2, QuietPreserves
  <1>5. CASE id \in pending /\ sent[id].cal = Nobody
    <2>1. Shake(id, answer.result) /\ UNCHANGED call
      BY <1>5 DEF OnLine, TakeLine, Settles
    <2>2. tools \subseteq Advertised
      BY DEF ExecInv, TypesOK
    <2>3. CASE answer.result = "ok" /\ conn = "initialize"
      <3>1. /\ conn' = "tools/list" /\ UNCHANGED tools
            /\ sent' = Append(sent, [cal |-> Nobody, attempt |-> 0, step |-> 0])
            /\ asked' \subseteq asked \cup {Len(sent) + 1}
            /\ pending' \subseteq pending \cup {Len(sent) + 1}
        BY <2>1, <2>3 DEF Shake, Request
      <3>2. \A k \in 1..Len(sent) : sent[k].cal = Nobody => k \in Carried(performed)
        <4>1. \A k \in 1..Len(sent) : sent[k].cal = Nobody => k = id
          BY <1>2, <1>5, <2>3 DEF ExecInv, PendingOK
        <4>2. id \in Carried(performed)
          BY <1>2 DEF Carried
        <4>3. QED
          BY <4>1, <4>2
      <3>3. QED
        BY <1>1, <2>1, <3>1, <3>2, ShakePreserves
    <2>4. CASE ~(answer.result = "ok" /\ conn = "initialize")
      <3>1. /\ conn' \in {"connected", "failed"} /\ tools' \subseteq Advertised
            /\ UNCHANGED <<sent, asked>> /\ pending' \subseteq pending
        BY <2>1, <2>2, <2>4 DEF Shake, NoRequest
      <3>2. QED
        BY <1>1, <2>1, <3>1, QuietPreserves
    <2>5. QED
      BY <2>3, <2>4
  <1>6. CASE id \in pending /\ sent[id].cal \in Cals
    BY <1>6, AnswerPreserves, RejectPreserves
  <1>7. QED
    BY <1>3, <1>4, <1>5, <1>6

LEMMA OnTimerPreserves ==
  ASSUME ExecInv, NEW id \in timers, OnTimer(id)
  PROVE  ExecInv'
  <1>1. call \in [Cals -> Calls] /\ tools \subseteq Advertised /\ proc \in {"none", "up", "closed"}
    BY DEF ExecInv, TypesOK
  <1>2. /\ UNCHANGED <<proc, tools, sent, asked, answers, performed>> /\ pending' = pending \ {id}
        /\ conn' = IF id \in pending /\ sent[id].cal = Nobody THEN "failed" ELSE conn
        /\ call' = [c \in Cals |->
                     IF id \in pending /\ call[c].awaits = id
                       THEN [call[c] EXCEPT !.pc = "threw", !.awaits = 0] ELSE call[c]]
    BY DEF OnTimer, server
  <1>3. CASE id \in pending
    <2>1. ASSUME NEW c \in Cals
          PROVE  /\ call'[c] \in Calls
                 /\ \/ call'[c] = call[c]
                    \/ /\ call'[c].pc = "threw" /\ call'[c].attempt = call[c].attempt
                       /\ call[c].awaits = id
      <3>1. call[c] \in Calls
        BY <1>1
      <3>2. CASE call[c].awaits = id
        <4>1. call'[c] = [call[c] EXCEPT !.pc = "threw", !.awaits = 0]
          BY <1>2, <1>3, <3>2
        <4>2. call'[c] \in Calls
          <5>1. [call[c] EXCEPT !.pc = "threw", !.awaits = 0] \in Calls
            BY <3>1 DEF Calls
          <5>2. QED
            BY <4>1, <5>1
        <4>3. call'[c].pc = "threw" /\ call'[c].attempt = call[c].attempt
          BY <3>1, <4>1 DEF Calls
        <4>4. QED
          BY <3>2, <4>2, <4>3
      <3>3. CASE call[c].awaits # id
        BY <1>2, <3>1, <3>3
      <3>4. QED
        BY <3>2, <3>3
    <2>2. call' \in [Cals -> Calls]
      BY <1>2, <2>1
    <2>3. conn' \in {conn, "failed"}
      BY <1>2
    <2>4. QED
      BY <1>2, <1>3, <2>1, <2>2, <2>3, GivenUp
  <1>4. CASE id \notin pending
    <2>1. call' = call
      BY <1>1, <1>2, <1>4
    <2>2. QED
      BY <1>1, <1>2, <1>4, <2>1, QuietPreserves
  <1>5. QED
    BY <1>3, <1>4

LEMMA PerformPreserves ==
  ASSUME ExecInv, NEW id \in asked, Perform(id)
  PROVE  ExecInv'
  <1>1. PICK result \in Results :
          /\ performed' = performed \cup {[id |-> id, result |-> result]}
          /\ answers' = answers \cup {[id |-> id, result |-> result]}
    BY DEF Perform
  <1>2. asked' = asked \ {id} /\ UNCHANGED <<proc, conn, tools, pending, call, sent>>
    BY DEF Perform
  <1>3. id \in 1..Len(sent) /\ id \notin Carried(performed)
    BY DEF ExecInv, TypesOK, OnceOK
  <1>4. TypesOK'
    BY <1>1, <1>2, <1>3 DEF ExecInv, TypesOK
  <1>5. Carried(performed)' = Carried(performed) \cup {id}
    <2> DEFINE new == [id |-> id, result |-> result]
    <2>1. new.id = id /\ performed' = performed \cup {new}
      BY <1>1
    <2> HIDE DEF new
    <2>2. {p.id : p \in performed'} = {p.id : p \in performed} \cup {id}
      BY <2>1
    <2>3. QED
      BY <2>2 DEF Carried
  <1>6. OnceOK'
    <2>1. asked' \cap Carried(performed)' = {}
      BY <1>2, <1>5 DEF ExecInv, OnceOK
    <2>2. \A p \in performed : p.id # id
      BY <1>3 DEF Carried
    <2> DEFINE new == [id |-> id, result |-> result]
    <2>3. new.id = id /\ performed' = performed \cup {new}
      BY <1>1
    <2> HIDE DEF new
    <2>4. \A p, q \in performed' : p.id = q.id => p = q
      BY <2>2, <2>3 DEF ExecInv, OnceOK
    <2>5. QED
      BY <2>1, <2>4 DEF OnceOK
  <1>7. OrderOK'
    BY <1>2, <1>5 DEF ExecInv, OrderOK
  <1>8. CallsOK'
    <2> SUFFICES ASSUME NEW c \in Cals PROVE CallOK(c, call[c], sent, performed')
      BY <1>2 DEF CallsOK
    <2>1. CallOK(c, call[c], sent, performed) /\ performed \subseteq performed'
      BY <1>1 DEF ExecInv, CallsOK
    <2>2. \A open : Matches(c, call[c], sent, performed, open) => Matches(c, call[c], sent, performed', open)
      BY <2>1, MatchesMore
    <2>3. QED
      BY <2>1, <2>2 DEF CallOK
  <1>9. AttemptsOK' /\ PendingOK'
    BY <1>2 DEF ExecInv, AttemptsOK, PendingOK
  <1>10. QED
    BY <1>4, <1>6, <1>7, <1>8, <1>9 DEF ExecInv

LEMMA ExecSteps ==
  ASSUME ExecInv, [Next]_vars
  PROVE  ExecInv'
  <1>1. tools \subseteq Advertised /\ proc \in {"none", "up", "closed"}
    BY DEF ExecInv, TypesOK
  <1>2. CASE UNCHANGED vars
    BY <1>1, <1>2, QuietPreserves DEF vars, server
  <1>3. CASE Close
    BY <1>1, <1>3, QuietPreserves DEF Close, server
  <1>4. CASE Next /\ ~Close
    BY <1>4, ConnectPreserves, AttemptPreserves, PerformPreserves, OnLinePreserves, OnTimerPreserves DEF Next
  <1>5. QED
    BY <1>2, <1>3, <1>4

LEMMA ExecInvariant == Spec => []ExecInv
  BY ExecStarts, ExecSteps, PTL DEF Spec

-----------------------------------------------------------------------------
(* "effects from real MCP calls": the record executeCal returns has for each *)
(* step with a tool of the server the result of the one call made for it,    *)
(* whatever else is under way on the pipe, is given up, or comes late.       *)
THEOREM ExecutorRecord == Spec => []RecordIsTheServers
  <1>1. ExecInv => RecordIsTheServers
    <2> SUFFICES ASSUME ExecInv, NEW c \in Cals, call[c].pc = "returned"
                 PROVE  /\ Len(call[c].steps) = Len(StepsOf[c])
                        /\ \A i \in DOMAIN StepsOf[c] :
                             IF StepsOf[c][i] \in call[c].known
                               THEN {p.result : p \in Done(c, i)} = {call[c].steps[i]}
                               ELSE Done(c, i) = {} /\ call[c].steps[i] = "unknown"
      BY DEF RecordIsTheServers
    <2>1. /\ Len(call[c].steps) = Len(StepsOf[c])
          /\ Matches(c, call[c], sent, performed, 0)
          /\ DOMAIN StepsOf[c] = 1..Len(StepsOf[c])
      BY StepsAreCounted DEF ExecInv, CallsOK, CallOK
    <2>2. \A i, p : p \in Done(c, i) <=>
            p \in performed /\ Mine(c, call[c].attempt, sent, p.id) /\ sent[p.id].step = i
      <3>1. \A p \in performed : sent[p.id] \in Requests
        <4>1. \A id \in 1..Len(sent) : sent[id] \in Requests
          BY ElementOfSeq DEF ExecInv, TypesOK
        <4>2. QED
          BY <4>1 DEF ExecInv, TypesOK
      <3>2. QED
        BY <3>1 DEF Done, Mine, Requests
    <2>3. ASSUME NEW i \in DOMAIN StepsOf[c], StepsOf[c][i] \in call[c].known
          PROVE  {p.result : p \in Done(c, i)} = {call[c].steps[i]}
      <3>1. PICK id \in 1..Len(sent) : /\ Mine(c, call[c].attempt, sent, id) /\ sent[id].step = i
                                       /\ [id |-> id, result |-> call[c].steps[i]] \in performed
        BY <2>1, <2>3 DEF Matches
      <3>2. [id |-> id, result |-> call[c].steps[i]] \in Done(c, i)
        BY <2>2, <3>1
      <3>3. ASSUME NEW p \in Done(c, i) PROVE p = [id |-> id, result |-> call[c].steps[i]]
        <4>1. p \in performed /\ p.id \in 1..Len(sent)
          BY <2>2 DEF ExecInv, TypesOK
        <4>2. p.id = id
          BY <2>1, <2>2, <3>1, <4>1 DEF Matches
        <4>3. QED
          BY <3>1, <4>1, <4>2 DEF ExecInv, OnceOK
      <3>4. QED
        BY <3>2, <3>3
    <2>4. ASSUME NEW i \in DOMAIN StepsOf[c], StepsOf[c][i] \notin call[c].known
          PROVE  Done(c, i) = {} /\ call[c].steps[i] = "unknown"
      <3>1. \A p \in Done(c, i) : StepsOf[c][i] \in call[c].known
        <4>1. \A p \in Done(c, i) : p.id \in 1..Len(sent)
          BY <2>2 DEF ExecInv, TypesOK
        <4>2. QED
          BY <2>1, <2>2, <4>1 DEF Matches
      <3>2. QED
        BY <2>1, <2>4, <3>1 DEF Matches
    <2>5. QED
      BY <2>1, <2>3, <2>4
  <1>2. QED
    BY <1>1, ExecInvariant, PTL

(* executeCal awaits each call before it makes the next one: the server has  *)
(* carried out all earlier steps of an attempt when it carries out one, also *)
(* of an attempt that was given up.                                          *)
THEOREM ExecutorOrder == Spec => []StepsInOrder
  <1>1. ExecInv => StepsInOrder
    <2> SUFFICES ASSUME ExecInv, NEW p \in performed, NEW id \in 1..p.id - 1
                 PROVE  sent[id].cal = sent[p.id].cal /\ sent[id].attempt = sent[p.id].attempt
                          => id \in Carried(performed)
      BY DEF StepsInOrder, Carried
    <2>1. p.id \in 1..Len(sent)
      BY DEF ExecInv, TypesOK
    <2>2. \A k \in 1..p.id - 1 :
            Mine(sent[p.id].cal, sent[p.id].attempt, sent, k) => k \in Carried(performed)
      BY <2>1 DEF ExecInv, OrderOK
    <2>3. QED
      BY <2>2 DEF Mine
  <1>2. QED
    BY <1>1, ExecInvariant, PTL
=============================================================================
