---------------------------- MODULE MCRunExperiment ----------------------------
(* Small instances of RunExperiment: one or two runs, one server each.     *)
EXTENDS RunExperiment

MCOneServer == 0..1
MCTwoServers == 0..2

\* The widths of the two pools for 36 layers.
MCEncoded == 82944
MCBaseline == 147456

\* Any pool may come up: of either width or missing, at the target capacity
\* or one beside it.
MCAllPools ==
  [width : {MCEncoded, MCBaseline}, capacity : {2, 3, 4}]
    \cup {[width |-> 0, capacity |-> 0]}

\* The int8 pool at the target.
MCOnePool ==
  {[width |-> MCEncoded, capacity |-> 3]}

MCInt8 == <<"int8">>
MCInt8Stem == <<"int8_a">>
MCInt8Twice == <<"int8", "int8">>
MCTwoStems == <<"int8_a", "int8_b">>
MCSameStem == <<"int8_a", "int8_a">>   \* --tag used again
=============================================================================
