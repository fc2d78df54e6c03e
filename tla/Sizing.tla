--------------------------------- MODULE Sizing ---------------------------------
(***************************************************************************)
(* How many tokens an L2 pool holds: the host-pool arithmetic of SGLang as *)
(* scripts/capacity_table.py and scripts/run_experiment.py repeat it.      *)
(* Sizes are exact integers: a budget is a number of bytes, and a ratio is *)
(* the number of units of 1/Scale that its printed digits stand for.       *)
(***************************************************************************)
EXTENDS RecordLayout

CONSTANTS
  Scale,      \* a ratio is printed to twelve decimals: 10^12
  Gigabyte    \* bytes in one: 10^9

ASSUME SizingAssumption == Scale \in Nat \ {0} /\ Gigabyte \in Nat \ {0}

Formats == {"bf16", "int8"}
Sizings == {"fixed-size", "ratio", "equal-tokens"}

(* QWEN3_8B_LAYER_NUM, KV_HEADS, HEAD_DIM and BF16_ITEMSIZE.               *)
LAYER_NUM == 36
BASELINE_PER_TOKEN == 147456

(* What the pool of a format spends on one token, from the geometry.       *)
SizePerToken(format, layer_num) ==
  IF format = "int8" THEN BytesPerTokenAllLayers(V1_LAYOUT, layer_num)
                     ELSE UncompressedBytesPerToken(layer_num, 8, 128, 2)

(* HostKVCache rounds to whole pages, always by one page more.             *)
WholePages(size, page_size) == (size \div page_size + 1) * page_size

(* host_pool_size of a budget in bytes (--hicache-size).                   *)
HostPoolSize(size_per_token, budget, page_size) ==
  WholePages(budget \div size_per_token, page_size)

(* host_pool_size of a ratio to the device pool (--hicache-ratio).         *)
RatioPoolSize(device, ratio, page_size) ==
  WholePages((device * ratio) \div Scale, page_size)

(* CapacityRow.host_bytes_allocated.                                       *)
BytesAllocated(size_per_token, budget, page_size) ==
  HostPoolSize(size_per_token, budget, page_size) * size_per_token

(* Is ratio what f"{(target - 0.5) / device:.12f}" prints?  It is nearest  *)
(* to the quotient: at most half a unit away, that is 2 * device times it. *)
IsEqualTokensRatio(ratio, target, device) ==
  LET error == 2 * device * ratio - (2 * target - 1) * Scale
  IN  -device <= error /\ error <= device

EqualTokensRatio(target, device) ==
  LET below == ((2 * target - 1) * Scale) \div (2 * device)
  IN  CHOOSE ratio \in {below, below + 1} : IsEqualTokensRatio(ratio, target, device)

\* MUTANT: the additional page is forgotten.
BudgetWithoutPage(budget, layer_num) ==
  [f \in Formats |->
     budget \div (IF f = "bf16" THEN BASELINE_PER_TOKEN ELSE SizePerToken(f, layer_num))]

(* capacity_budget: pages of one token, and 36 layers whatever --layer-num *)
(* says for BF16.                                                          *)
CapacityBudget(budget, layer_num) ==
  [f \in Formats |->
     budget \div (IF f = "bf16" THEN BASELINE_PER_TOKEN ELSE SizePerToken(f, layer_num)) + 1]

(* workload_budget's verdict on the aggregate reusable prefixes.           *)
WorkloadVerdict(prefix_tokens, caps) ==
  IF prefix_tokens < caps.bf16 THEN "TOO SMALL"
  ELSE IF prefix_tokens > caps.int8 THEN "TOO LARGE"
  ELSE "DISCRIMINATING"

(* The bytes that --hicache-size asks for.  build_configs prints six digits *)
(* of --host-size and SGLang takes an integer: of a budget whose six digits *)
(* have no fraction, the nearest number of gigabytes.                       *)
HicacheSize(host_bytes) ==
  ((2 * host_bytes + Gigabyte) \div (2 * Gigabyte)) * Gigabyte

(* The pool SGLang builds from the arguments of build_configs; host_bytes  *)
(* and device stand for --host-size and --max-total-tokens.                *)
BuiltPool(format, sizing, host_bytes, device, ratio, page_size) ==
  IF sizing = "fixed-size"
  THEN HostPoolSize(SizePerToken(format, LAYER_NUM), HicacheSize(host_bytes), page_size)
  ELSE RatioPoolSize(device, ratio, page_size)
=============================================================================
