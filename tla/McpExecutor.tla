----------------------------- MODULE McpExecutor -----------------------------
(***************************************************************************)
(* The agent runtime, orchestrator/src/mcp/executor.ts and                 *)
(* orchestrator/src/agent/ovt-agent.ts: an executor that has the steps of  *)
(* CALs carried out by an MCP server, over one pipe, and makes of the      *)
(* answers the trace the CAL is submitted with.                            *)
(*                                                                         *)
(* Several CALs may be executed at a time.  The server, another process,   *)
(* takes its time, answers in any order or never; a request whose timer    *)
(* fires is given up by the executor, not by the server.  An agent may try *)
(* a CAL again.  Promise continuations run before the next event: what     *)
(* follows an await is part of the action that settles it.                 *)
(*                                                                         *)
(* Payloads are left out: a result is how the step went.                   *)
(***************************************************************************)
EXTENDS Integers, SequencesExt

CONSTANTS
  Cals,         \* CALs the agent has executed
  StepsOf,      \* the tools of the steps of each, in order
  Advertised,   \* the tools of the server
  MaxAttempts,  \* bound: how often a CAL is tried
  MaxId,        \* bound: ids of requests
  Nobody        \* a request of the handshake, not of a CAL

ASSUME ExecutorAssumption ==
  /\ Nobody \notin Cals
  /\ MaxAttempts \in Nat /\ MaxId \in Nat
  /\ \A c \in Cals : StepsOf[c] \in Seq(Range(StepsOf[c]))

VARIABLES
  proc,       \* the child process: "none", "up", or "closed" by the executor
  conn,       \* connect: "idle", "initialize", "tools/list", "connected", "failed"
  tools,      \* the tools cached by connect
  pending,    \* ids of requests not settled
  timers,     \* ids whose timer has not fired
  call,       \* executeCal of each CAL, and buildSubmission around it
  sent,       \* requests by id: history, nextId is Len(sent) + 1
  asked,      \* external: requests the server has not carried out
  answers,    \* external: answers on their way, [id, result]
  performed   \* external: what the server has carried out, by id

server == <<asked, answers, performed>>
vars == <<proc, conn, tools, pending, timers, call, sent, server>>

Results == {"ok", "isError", "error"}    \* "error": a JSON-RPC error

Init ==
  /\ proc = "none" /\ conn = "idle" /\ tools = {}
  /\ pending = {} /\ timers = {}
  /\ call = [c \in Cals |-> [pc |-> "idle", attempt |-> 0, known |-> {},
                             steps |-> <<>>, awaits |-> 0]]
  /\ sent = <<>>
  /\ asked = {} /\ answers = {} /\ performed = {}

-----------------------------------------------------------------------------
(* request: takes an id and a timer, and writes, which throws without a      *)
(* process; the entry in pending stays until the timer fires.                *)
Request(cal, attempt, step) ==
  LET id == Len(sent) + 1 IN
  /\ id <= MaxId
  /\ sent' = Append(sent, [cal |-> cal, attempt |-> attempt, step |-> step])
  /\ timers' = timers \cup {id}
  /\ asked' = IF proc' = "up" THEN asked \cup {id} ELSE asked

NoRequest == UNCHANGED <<sent, timers, asked>>

(* connect: spawn, initialize, tools/list. *)
Connect ==
  /\ conn = "idle" /\ proc = "none"
  /\ proc' = "up" /\ conn' = "initialize"
  /\ Request(Nobody, 0, 0)
  /\ pending' = pending \cup {Len(sent) + 1}
  /\ UNCHANGED <<tools, call, answers, performed>>

(* The handshake goes on with the answer to its request, or fails. *)
Shake(id, result) ==
  \/ /\ result = "ok" /\ conn = "initialize"
     /\ conn' = "tools/list"
     /\ Request(Nobody, 0, 0)
     /\ pending' = (pending \ {id}) \cup {Len(sent) + 1}
     /\ UNCHANGED tools
  \/ /\ result = "ok" /\ conn = "tools/list"
     /\ conn' = "connected" /\ tools' = Advertised
     /\ NoRequest
     /\ pending' = pending \ {id}
  \/ /\ result # "ok"
     /\ conn' = "failed"
     /\ NoRequest
     /\ pending' = pending \ {id}
     /\ UNCHANGED tools

-----------------------------------------------------------------------------
(* executeCal: steps with a tool the server does not have fail on the spot,  *)
(* the others are called one by one.  A call that is in is settled, and the  *)
(* loop runs up to the next one, or to the end.                              *)
NextCalled(c, known, n) ==
  Min({i \in n+1..Len(StepsOf[c]) : StepsOf[c][i] \in known} \cup {Len(StepsOf[c]) + 1})

Skipped(n, i) == [k \in 1..i - n - 1 |-> "unknown"]

(* Goes on after the results of n steps are in; freed: the id just settled. *)
GoOn(c, run, freed) ==
  LET n == Len(run.steps)
      i == NextCalled(c, run.known, n)
      results == run.steps \o Skipped(n, i)
      id == Len(sent) + 1
      atEnd == i > Len(StepsOf[c])
  IN  /\ IF atEnd THEN NoRequest ELSE Request(c, run.attempt, i)
      /\ pending' = IF atEnd THEN pending \ freed ELSE (pending \ freed) \cup {id}
      /\ call' = [call EXCEPT ![c] =
           [run EXCEPT !.steps = results, !.awaits = IF atEnd THEN 0 ELSE id,
                       !.pc = CASE atEnd -> "returned"
                                [] ~atEnd /\ proc = "up" -> "awaits"
                                [] OTHER -> "threw"]]

(* buildSubmission, for the first time or after it has thrown. *)
Attempt(c) ==
  /\ call[c].pc \in {"idle", "threw"}
  /\ call[c].attempt < MaxAttempts
  /\ proc' = proc
  /\ GoOn(c, [pc |-> "awaits", attempt |-> call[c].attempt + 1, known |-> tools,
              steps |-> <<>>, awaits |-> 0], {})
  /\ UNCHANGED <<conn, tools, answers, performed>>

(* A call that failed without an answer of the tool ends the attempt. *)
Reject(c, id) ==
  /\ call' = [call EXCEPT ![c].pc = "threw", ![c].awaits = 0]
  /\ pending' = pending \ {id}
  /\ NoRequest

(* Defect: an answer settles the oldest request that is pending. *)
Settles_Oldest(id) == Min(pending)

Settles(id) == id

(* A line of the server, taken if its id is pending and dropped otherwise. *)
TakeLine(id, result) ==
  LET claim == Settles(id)
      c == sent[claim].cal
  IN  IF c = Nobody
        THEN Shake(claim, result) /\ UNCHANGED call
      ELSE /\ UNCHANGED <<conn, tools>>
           /\ IF result = "error" THEN Reject(c, claim)
              ELSE GoOn(c, [call[c] EXCEPT !.steps = Append(@, result)], {claim})

OnLine(answer) ==
  /\ proc = "up" /\ proc' = proc
  /\ answers' = answers \ {answer}
  /\ IF answer.id \in pending THEN TakeLine(answer.id, answer.result)
     ELSE NoRequest /\ UNCHANGED <<conn, tools, pending, call>>
  /\ UNCHANGED performed

(* Defect: a step that timed out is taken for one that failed. *)
OnTimer_GoesOn(id) ==
  /\ id \in timers /\ proc' = proc
  /\ IF id \in pending /\ sent[id].cal # Nobody /\ call[sent[id].cal].awaits = id
       THEN LET c == sent[id].cal IN
            /\ GoOn(c, [call[c] EXCEPT !.steps = Append(@, "isError")], {id})
            /\ UNCHANGED <<conn, tools>>
     ELSE /\ timers' = timers \ {id} /\ pending' = pending \ {id}
          /\ conn' = IF id \in pending /\ sent[id].cal = Nobody THEN "failed" ELSE conn
          /\ UNCHANGED <<sent, asked, call, tools>>
  /\ UNCHANGED <<answers, performed>>

(* The 5 s are over: a request still pending is rejected. *)
OnTimer(id) ==
  /\ id \in timers /\ proc' = proc
  /\ timers' = timers \ {id}
  /\ pending' = pending \ {id}
  /\ conn' = IF id \in pending /\ sent[id].cal = Nobody THEN "failed" ELSE conn
  /\ call' = [c \in Cals |->
                IF id \in pending /\ call[c].awaits = id
                  THEN [call[c] EXCEPT !.pc = "threw", !.awaits = 0] ELSE call[c]]
  /\ UNCHANGED <<tools, sent, server>>

(* Defect: the timers are cleared, and with them the last hope of those who wait. *)
Close_ClearsTimers ==
  /\ proc = "up"
  /\ proc' = "closed"
  /\ timers' = {}
  /\ UNCHANGED <<conn, tools, pending, call, sent, server>>

(* close: kills the process; nobody tells those who wait. *)
Close ==
  /\ proc = "up"
  /\ proc' = "closed"
  /\ UNCHANGED <<conn, tools, pending, timers, call, sent, server>>

(* The server. *)
Perform(id) ==
  /\ proc = "up"
  /\ asked' = asked \ {id}
  /\ \E result \in IF sent[id].cal = Nobody THEN Results \ {"isError"} ELSE Results :
       /\ performed' = performed \cup {[id |-> id, result |-> result]}
       /\ answers' = answers \cup {[id |-> id, result |-> result]}
  /\ UNCHANGED <<proc, conn, tools, pending, timers, call, sent>>

Next ==
  \/ Connect \/ Close
  \/ \E c \in Cals : Attempt(c)
  \/ \E id \in asked : Perform(id)
  \/ \E answer \in answers : OnLine(answer)
  \/ \E id \in timers : OnTimer(id)

(* setTimeout fires: nothing the executor does blocks the event loop.  *)
(* Nothing is assumed of the server.                                   *)
Spec == Init /\ [][Next]_vars /\ \A id \in 1..MaxId : WF_vars(OnTimer(id))

-----------------------------------------------------------------------------
(* What the server did for step i of the current attempt at c. *)
Done(c, i) ==
  {p \in performed : sent[p.id] = [cal |-> c, attempt |-> call[c].attempt, step |-> i]}

(* executor.ts, "effects from real MCP calls", "never rubber-stamps": though *)
(* CALs share the pipe, answers come late or out of order and requests are   *)
(* given up and tried again, a record that is returned has for each step     *)
(* with a known tool the result of the one call that was made for it.        *)
RecordIsTheServers ==
  \A c \in Cals : call[c].pc = "returned" =>
    /\ Len(call[c].steps) = Len(StepsOf[c])
    /\ \A i \in DOMAIN StepsOf[c] :
         IF StepsOf[c][i] \in call[c].known
           THEN {p.result : p \in Done(c, i)} = {call[c].steps[i]}
           ELSE Done(c, i) = {} /\ call[c].steps[i] = "unknown"

(* executeCal awaits each call: no step of an attempt is carried out before  *)
(* those ahead of it, whatever becomes of them and of the attempt.           *)
StepsInOrder ==
  \A p \in performed : \A id \in 1..p.id - 1 :
    LET this == sent[p.id] IN
    sent[id].cal = this.cal /\ sent[id].attempt = this.attempt =>
      id \in {q.id : q \in performed}

(* Every executeCal and every connect comes to an end, also when the server  *)
(* hangs or the executor was closed under it.                                *)
EveryCallEnds ==
  /\ \A c \in Cals : call[c].pc = "awaits" ~> call[c].pc # "awaits"
  /\ conn \in {"initialize", "tools/list"} ~> conn \in {"connected", "failed"}
=============================================================================
