------------------------------- MODULE MCHandoff -------------------------------
(* Three versions of the vectors: one changes a content, one adds a name.     *)
(* CUDA agrees with the CPU, or deviates on the changed content only.         *)
EXTENDS Handoff

MCVectorSets ==
  <<[n \in {"a"} |-> 1], [n \in {"a"} |-> 2], [n \in {"a", "b"} |-> IF n = "a" THEN 1 ELSE 3]>>

MCStarted == {[vectors |-> 1, codec |-> 1]}

MCDeviations == {{}, {<<1, 2>>}}

MCForks ==
  {[source |-> "current", codec |-> 1], [source |-> "host sync", codec |-> 2]}
=============================================================================
