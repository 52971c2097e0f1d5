---------------------------- MODULE MCCalReducer ----------------------------
(* Two agents, one of them with two CALs competing for its slot, and effects *)
(* among which a list whose second Delta is rejected.                        *)
EXTENDS CalReducer

CONSTANTS a1, a2, c1, c2, c3

MCAgentOf == c1 :> a1 @@ c2 :> a1 @@ c3 :> a2
MCInitBalances == a1 :> 2 @@ a2 :> 0
MCInitLeaf == [k \in Leaves |-> IF k[1] = "param" THEN 2 ELSE Absent]

AddGuard == [leaf |-> <<"guard", "any">>, op |-> "add", value |-> 1]
SubGuard == [leaf |-> <<"guard", "any">>, op |-> "sub", value |-> 2]
MCEffectLists == {<<AddGuard>>, <<AddGuard, SubGuard>>}
=============================================================================
