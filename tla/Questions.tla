------------------------------ MODULE Questions ------------------------------
(***************************************************************************)
(* How the parts of the repository that take no time are put to their      *)
(* inputs: a step chooses a subject and what it is given, and records what *)
(* the code answers.                                                       *)
(***************************************************************************)
VARIABLES subject, given, answer
asked == <<subject, given, answer>>

Put(s, input, output) == subject' = s /\ given' = input /\ answer' = output

NothingAsked == subject = "none" /\ given = <<>> /\ answer = <<>>
=============================================================================
