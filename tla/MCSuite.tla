-------------------------------- MODULE MCSuite --------------------------------
(* Gigabytes of 100000 bytes and budgets of a few tokens, on every side of    *)
(* the 6 tokens of reusable prefixes: 10 gigabytes are 7 BF16 or 13 INT8      *)
(* tokens, 8 are 6 or 10, 7 are 5 or 9, 4 are 3 or 5.  The tag b-r3 is apart  *)
(* from b, which has two repeats.                                             *)
EXTENDS Suite

CONSTANT Manual   \* sizings of the runs made by hand

MCOptions ==
  {[tag |-> <<"b">>, repeats |-> 2, skip_smoke |-> FALSE, host_bytes |-> 1000000],
   [tag |-> <<"b">>, repeats |-> 0, skip_smoke |-> TRUE, host_bytes |-> 800000],
   [tag |-> <<"b", "r3">>, repeats |-> 1, skip_smoke |-> TRUE, host_bytes |-> 700000],
   [tag |-> <<"b", "r3">>, repeats |-> 0, skip_smoke |-> TRUE, host_bytes |-> 400000]}

MCReruns ==
  {[kind |-> "run", config |-> "int8", tag |-> <<"b">>, sizing |-> s] : s \in Manual}
=============================================================================
