--------------------------- MODULE MCMcpExecutor ---------------------------
(* Two CALs that share an executor: one has a tool the server lacks between *)
(* two it has, the other calls the same tool.                               *)
EXTENDS McpExecutor

MCStepsOf == [c \in Cals |-> IF c = 1 THEN <<"send", "burn", "send">> ELSE <<"send">>]
=============================================================================
