-------------------------- MODULE MCAgreementMetrics --------------------------
(***************************************************************************)
(* AgreementMetrics on every pair of lists of two generations of at most   *)
(* two tokens, with logprobs complete, absent, missing the first one, or   *)
(* taken from the prompt.                                                  *)
(***************************************************************************)
EXTENDS AgreementMetrics

Ids == UNION {[1..n -> {11, 12}] : n \in 0..2}

MCComplete ==
  {[token_ids |-> ids, logprobs |-> Chosen(1..Len(ids))] : ids \in Ids}

MCIncomplete ==
  {[token_ids |-> ids, logprobs |-> lps] : ids \in Ids, lps \in {<<>>, <<NotOutput>>}}
    \cup {[token_ids |-> ids, logprobs |-> Chosen(2..Len(ids))] : ids \in Ids}

MCGenerations == MCComplete \cup MCIncomplete
=============================================================================
