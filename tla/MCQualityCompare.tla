--------------------------- MODULE MCQualityCompare ---------------------------
(***************************************************************************)
(* QualityCompare with two configurations, two prompts that overflow L1 by *)
(* themselves, and an L2 pool with room for the filler that is sent when   *)
(* the populate did not tell their size.                                   *)
(***************************************************************************)
EXTENDS QualityCompare

TwoRuns == 1..2
=============================================================================
