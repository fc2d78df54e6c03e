------------------------------ MODULE MCSmokeTest ------------------------------
(***************************************************************************)
(* SmokeTest on one server whose L2 may come up encoded, as BF16, with the *)
(* wrong capacity, or without its metric.                                  *)
(***************************************************************************)
EXTENDS SmokeTest

Int8Test == TRUE

\* 9 : 16 is the ratio of the two widths, 82,944 : 147,456.
MCEncodedWidth == 9
MCBaselineWidth == 16
MCHostBytes == 1000

MCPools ==
  {[width |-> 9, capacity |-> 112], [width |-> 16, capacity |-> 63],
   [width |-> 9, capacity |-> 63], [width |-> 16, capacity |-> 112],
   [width |-> 9, capacity |-> 0], [width |-> 9, capacity |-> 200]}
MCTexts == {"nothing", "one", "two"}
=============================================================================
