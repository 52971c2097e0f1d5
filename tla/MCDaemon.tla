------------------------------ MODULE MCDaemon ------------------------------
(* One agent with three submissions, so that a flush takes several blocks,   *)
(* and one whose only submission makes its block throw.                      *)
EXTENDS Daemon, TLC

CONSTANTS s1, s2, s3, s4, a1, a2

MCBlocks == SUBSET {s1, s2, s3, s4}
MCPoison == {b \in MCBlocks : s4 \in b}
MCAgentOf == [s \in {s1, s2, s3} |-> a1] @@ s4 :> a2
=============================================================================
