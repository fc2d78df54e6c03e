----------------------------- MODULE MCReplayTrace -----------------------------
(***************************************************************************)
(* Three requests and two threads: the third is sent while one of the      *)
(* others may still be in flight, and may share a prefix with either.  In  *)
(* the last trace a prompt goes on where another ends, with the token the  *)
(* server generates.                                                       *)
(***************************************************************************)
EXTENDS ReplayTrace

CONSTANT s

OneServer == {s}
MCWarmUp == <<1>>

MCTraces ==
  {[sequences |-> q, groups |-> DeriveGroups(q, 1)] :
     q \in {<< <<1, 1>>, <<1, 1>>, <<1, 2>> >>, << <<1, 2>>, <<2>>, <<1, 2>> >>,
            << <<1>>, <<1, 2>> >>}}
===============================================================================
