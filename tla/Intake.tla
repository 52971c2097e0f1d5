------------------------------- MODULE Intake -------------------------------
(***************************************************************************)
(* What the daemon promises those who submit to it, with no word about     *)
(* timers, files or snapshots: an accepted submission waits its turn; a    *)
(* block takes the oldest one of some agents, one each; nothing else       *)
(* leaves the queue but by the end of the process, which loses all that    *)
(* waits; and whoever waits gets into a block unless the process ends.     *)
(* Daemon implements this specification.                                   *)
(***************************************************************************)
EXTENDS Sequences

CONSTANTS Submissions, Agents, AgentOf

VARIABLES
  waiting,  \* waiting[a]: submissions of a, oldest first
  blocks    \* the blocks in the log, each a set of submissions

vars == <<waiting, blocks>>

Init ==
  /\ waiting = [a \in Agents |-> <<>>]
  /\ blocks = <<>>

Accept(s) ==
  /\ waiting' = [waiting EXCEPT ![AgentOf[s]] = Append(@, s)]
  /\ UNCHANGED blocks

Waits(a) == waiting[a] # <<>>

Commit(served) ==
  /\ served # {}
  /\ \A a \in served : Waits(a)
  /\ blocks' = Append(blocks, {Head(waiting[a]) : a \in served})
  /\ waiting' = [a \in Agents |-> IF a \in served THEN Tail(waiting[a]) ELSE waiting[a]]

Lose ==
  /\ waiting' = [a \in Agents |-> <<>>]
  /\ UNCHANGED blocks

Serve(a) == \E served \in SUBSET Agents : a \in served /\ Commit(served)

Next ==
  \/ \E s \in Submissions : Accept(s)
  \/ \E served \in SUBSET Agents : Commit(served)
  \/ Lose

(* In what order, and how often, submissions are served: this is proved. *)
Safety == Init /\ [][Next]_vars

(* That they are: this is left to TLC. *)
Spec ==
  /\ Safety
  /\ \A a \in Agents : WF_vars(Serve(a))
=============================================================================
