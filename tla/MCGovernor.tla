----------------------------- MODULE MCGovernor -----------------------------
(* Small instances of Governor: an AI server the policy kills, an           *)
(* allowlisted shell, and a non-AI tool an operator may kill by hand.       *)
EXTENDS Governor
=============================================================================
