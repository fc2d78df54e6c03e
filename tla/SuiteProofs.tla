------------------------------- MODULE SuiteProofs -------------------------------
(***************************************************************************)
(* What the sizing arithmetic guarantees for every budget, target, device  *)
(* pool and page size; and what a measurement campaign guarantees for all  *)
(* options of reproduce_all.sh whose tags are apart, and any number of     *)
(* calls.                                                                  *)
(***************************************************************************)
EXTENDS Suite, FiniteSetTheorems, SequenceTheorems, TLAPS

(* Integer division as a product: the quotient q is the number with        *)
(* q * b <= a < (q + 1) * b.                                               *)
LEMMA Quotient ==
  ASSUME NEW a \in Nat, NEW b \in Nat \ {0}
  PROVE  /\ a \div b \in Nat
         /\ (a \div b) * b <= a
         /\ a < (a \div b) * b + b
  BY SMTT(30)

LEMMA QuotientIs ==
  ASSUME NEW a \in Nat, NEW b \in Nat \ {0}, NEW q \in Nat,
         q * b <= a, a < (q + 1) * b
  PROVE  a \div b = q
  BY Quotient, SMTT(30)

(* The pool is larger than what was asked for, by at most one page.        *)
LEMMA WholePagesBound ==
  ASSUME NEW size \in Nat, NEW page_size \in Nat \ {0}
  PROVE  /\ WholePages(size, page_size) \in Nat
         /\ size < WholePages(size, page_size)
         /\ WholePages(size, page_size) <= size + page_size
  <1> DEFINE q == size \div page_size
  <1>1. q \in Nat /\ q * page_size <= size /\ size < q * page_size + page_size
    BY Quotient
  <1>2. PICK w \in Nat : w = q * page_size
    BY <1>1, SMT
  <1>3. (q + 1) * page_size = w + page_size
    BY <1>1, <1>2, SMT
  <1> QED
    BY <1>1, <1>2, <1>3, SMT DEF WholePages

(* The printed ratio buys one token less than the target, before pages.    *)
LEMMA RatioIsOneBelow ==
  ASSUME NEW target \in Nat \ {0}, NEW device \in Nat \ {0}, NEW ratio \in Nat,
         Scale \in Nat, device < Scale, IsEqualTokensRatio(ratio, target, device)
  PROVE  (device * ratio) \div Scale = target - 1
  <1>1. PICK m \in Nat : m = device * ratio
    BY SMT
  <1>2. PICK w \in Nat : w = target * Scale
    BY SMT
  <1>3. 2 * device * ratio = 2 * m
    BY <1>1, SMT
  <1>4. (2 * target - 1) * Scale = 2 * w - Scale
    BY <1>2, SMT
  <1>5. /\ -device <= 2 * m - (2 * w - Scale)
        /\ 2 * m - (2 * w - Scale) <= device
    BY <1>3, <1>4 DEF IsEqualTokensRatio
  <1>6. (target - 1) * Scale = w - Scale /\ (target - 1 + 1) * Scale = w
    BY <1>2, SMT
  <1>7. w - Scale <= m /\ m < w
    BY <1>5, SMT
  <1>8. target - 1 \in Nat /\ Scale \in Nat \ {0}
    BY SMT
  <1> HIDE DEF IsEqualTokensRatio
  <1> DEFINE q == target - 1
  <1>9. q \in Nat /\ q * Scale <= m /\ m < (q + 1) * Scale
    BY <1>6, <1>7, <1>8
  <1> HIDE DEF q
  <1>10. m \div Scale = q
    BY <1>8, <1>9, QuotientIs
  <1> QED
    BY <1>1, <1>10 DEF q

(* Equal-tokens sizing (build_configs): for every target and every device  *)
(* pool smaller than the precision of the printed ratio, the pool holds    *)
(* the target, and less than one page more; with --page-size 1 exactly it. *)
THEOREM EqualTokensExact ==
  ASSUME NEW target \in Nat \ {0}, NEW device \in Nat \ {0}, NEW ratio \in Nat,
         NEW page_size \in Nat \ {0},
         Scale \in Nat, device < Scale, IsEqualTokensRatio(ratio, target, device)
  PROVE  /\ target <= RatioPoolSize(device, ratio, page_size)
         /\ RatioPoolSize(device, ratio, page_size) < target + page_size
  <1>1. (device * ratio) \div Scale = target - 1
    BY RatioIsOneBelow
  <1>2. RatioPoolSize(device, ratio, page_size) = WholePages(target - 1, page_size)
    BY <1>1 DEF RatioPoolSize
  <1>3. target - 1 \in Nat
    BY SMT
  <1>4. /\ WholePages(target - 1, page_size) \in Nat
        /\ target - 1 < WholePages(target - 1, page_size)
        /\ WholePages(target - 1, page_size) <= target - 1 + page_size
    BY <1>3, WholePagesBound
  <1> QED
    BY <1>2, <1>4, SMT

(* Fixed-size sizing (HostKVCache, capacity_table): a pool always takes    *)
(* more bytes than the budget, by at most one page of tokens.              *)
THEOREM BudgetIsExceededByAPage ==
  ASSUME NEW per_token \in Nat \ {0}, NEW budget \in Nat, NEW page_size \in Nat \ {0}
  PROVE  /\ budget < BytesAllocated(per_token, budget, page_size)
         /\ BytesAllocated(per_token, budget, page_size) <= budget + page_size * per_token
  <1> DEFINE size == budget \div per_token
             pool == WholePages(size, page_size)
  <1>1. size \in Nat /\ size * per_token <= budget /\ budget < size * per_token + per_token
    BY Quotient
  <1>2. pool \in Nat /\ size < pool /\ pool <= size + page_size
    BY <1>1, WholePagesBound
  <1> HIDE DEF size, pool
  <1>3. PICK k \in Nat : pool = size + 1 + k
    BY <1>1, <1>2, SMT
  <1>4. PICK j \in Nat : pool + j = size + page_size
    BY <1>1, <1>2, SMT
  <1>5. PICK s \in Nat : s = size * per_token
    BY <1>1, SMT
  <1>6. PICK a \in Nat : a = k * per_token
    BY <1>3, SMT
  <1>7. PICK b \in Nat : b = j * per_token
    BY <1>4, SMT
  <1>8. PICK p \in Nat : p = page_size * per_token
    BY SMT
  <1>9. pool * per_token = s + per_token + a
    BY <1>1, <1>3, <1>5, <1>6, SMTT(30)
  <1>10. pool * per_token + b = s + p
    <2>1. (pool + j) * per_token = (size + page_size) * per_token
      BY <1>4
    <2>2. (pool + j) * per_token = pool * per_token + j * per_token
      BY <1>2, <1>4, SMTT(30)
    <2>3. (size + page_size) * per_token = size * per_token + page_size * per_token
      BY <1>1, SMTT(30)
    <2> QED
      BY <2>1, <2>2, <2>3, <1>5, <1>7, <1>8
  <1>11. pool * per_token \in Nat
    BY <1>2, SMT
  <1>12. BytesAllocated(per_token, budget, page_size) = pool * per_token
    BY DEF BytesAllocated, HostPoolSize, size, pool
  <1> QED
    BY <1>1, <1>5, <1>8, <1>9, <1>10, <1>11, <1>12, SMT

-----------------------------------------------------------------------------
(* The pools of a run                                                      *)

LEMMA PerToken ==
  /\ SizePerToken("bf16", LAYER_NUM) = 147456
  /\ SizePerToken("int8", LAYER_NUM) = 82944
  BY SMT DEF SizePerToken, BytesPerTokenAllLayers, BytesPerToken, RowBytes, V1_LAYOUT,
             UncompressedBytesPerToken, LAYER_NUM

(* One of the two neighbours of the quotient is nearest to it, so that     *)
(* EqualTokensRatio is always defined.                                     *)
LEMMA RatioIsDefined ==
  ASSUME NEW target \in Nat \ {0}, NEW device \in Nat \ {0}, Scale \in Nat \ {0}
  PROVE  /\ EqualTokensRatio(target, device) \in Nat
         /\ IsEqualTokensRatio(EqualTokensRatio(target, device), target, device)
  <1> DEFINE wanted == (2 * target - 1) * Scale
             below == wanted \div (2 * device)
  <1>1. wanted \in Nat /\ 2 * device \in Nat \ {0}
    BY SMT
  <1>2. below \in Nat /\ below * (2 * device) <= wanted /\ wanted < below * (2 * device) + 2 * device
    <2> HIDE DEF wanted
    <2> QED BY <1>1, Quotient
  <1> HIDE DEF below
  <1>3. PICK m \in Nat : m = device * below
    BY <1>2, SMT
  <1>4. below * (2 * device) = 2 * m /\ 2 * device * below = 2 * m
    BY <1>2, <1>3, SMT
  <1>5. 2 * device * (below + 1) = 2 * m + 2 * device
    BY <1>2, <1>3, SMT
  <1>6. \E ratio \in {below, below + 1} : IsEqualTokensRatio(ratio, target, device)
    <2> HIDE DEF wanted
    <2>1. CASE wanted - 2 * m <= device
      <3>1. -device <= 2 * m - wanted /\ 2 * m - wanted <= device
        BY <2>1, <1>1, <1>2, <1>3, <1>4, SMT
      <3>2. IsEqualTokensRatio(below, target, device)
        BY <3>1, <1>4 DEF IsEqualTokensRatio, wanted
      <3> QED BY <3>2
    <2>2. CASE ~(wanted - 2 * m <= device)
      <3>1. -device <= (2 * m + 2 * device) - wanted /\ (2 * m + 2 * device) - wanted <= device
        BY <2>2, <1>1, <1>2, <1>3, <1>4, SMT
      <3>2. IsEqualTokensRatio(below + 1, target, device)
        BY <3>1, <1>5 DEF IsEqualTokensRatio, wanted
      <3> QED BY <3>2
    <2> QED BY <2>1, <2>2
  <1>7. EqualTokensRatio(target, device)
          = CHOOSE ratio \in {below, below + 1} : IsEqualTokensRatio(ratio, target, device)
    BY DEF EqualTokensRatio, below, wanted
  <1> HIDE DEF IsEqualTokensRatio
  <1> QED BY <1>2, <1>6, <1>7

LEMMA PagesOfOneToken ==
  ASSUME NEW size \in Nat
  PROVE  WholePages(size, 1) = size + 1
  BY WholePagesBound, SMT DEF WholePages

(* A whole number of gigabytes is printed as it is.                        *)
LEMMA ExactSize ==
  ASSUME NEW o \in Options
  PROVE  HicacheSize(o.host_bytes) = o.host_bytes
  <1> DEFINE h == o.host_bytes
             k == h \div Gigabyte
  <1>1. h \in Nat /\ h = k * Gigabyte /\ Gigabyte \in Nat \ {0}
    BY SuiteAssumption, SizingAssumption DEF Option
  <1>2. k \in Nat
    <2> HIDE DEF h
    <2> QED BY <1>1, Quotient
  <1> HIDE DEF h, k
  <1>3. PICK d \in Nat : d = 2 * Gigabyte
    BY <1>1
  <1>4. /\ d \in Nat \ {0} /\ 2 * h + Gigabyte \in Nat
        /\ k * d = 2 * h /\ (k + 1) * d = 2 * h + d
    BY <1>1, <1>2, <1>3, SMTT(30)
  <1>5. k * d <= 2 * h + Gigabyte /\ 2 * h + Gigabyte < (k + 1) * d
    BY <1>1, <1>3, <1>4
  <1>6. (2 * h + Gigabyte) \div d = k
    BY <1>2, <1>4, <1>5, QuotientIs
  <1>7. HicacheSize(h) = ((2 * h + Gigabyte) \div d) * Gigabyte
    BY <1>3 DEF HicacheSize
  <1> QED BY <1>1, <1>6, <1>7 DEF h

(* The capacities of workload_budget are those of the pools of a fixed     *)
(* budget, and INT8's is larger than BF16's.                               *)
LEMMA FixedPools ==
  ASSUME NEW o \in Options
  PROVE  /\ \A f \in Formats : /\ PoolOf(f, "fixed-size", o) = CapacityBudget(o.host_bytes, LAYER_NUM)[f]
                               /\ PoolOf(f, "fixed-size", o) \in Nat \ {0}
         /\ PoolOf("bf16", "fixed-size", o) < PoolOf("int8", "fixed-size", o)
  <1> DEFINE h == o.host_bytes
             x == h \div 147456
             y == h \div 82944
  <1>1. h \in Nat /\ 294912 <= h
    BY SuiteAssumption, SMT DEF Option, BASELINE_PER_TOKEN
  <1>2. x \in Nat /\ y \in Nat /\ x < y
    <2> HIDE DEF h
    <2> QED BY <1>1, SMTT(30)
  <1>3. PoolOf("bf16", "fixed-size", o) = x + 1
    <2>1. PoolOf("bf16", "fixed-size", o) = WholePages(x, 1)
      BY PerToken, ExactSize DEF PoolOf, BuiltPool, HostPoolSize
    <2> HIDE DEF x
    <2> QED BY <1>2, <2>1, PagesOfOneToken
  <1>4. PoolOf("int8", "fixed-size", o) = y + 1
    <2>1. PoolOf("int8", "fixed-size", o) = WholePages(y, 1)
      BY PerToken, ExactSize DEF PoolOf, BuiltPool, HostPoolSize
    <2> HIDE DEF y
    <2> QED BY <1>2, <2>1, PagesOfOneToken
  <1>5. CapacityBudget(o.host_bytes, LAYER_NUM)["bf16"] = x + 1
    BY DEF CapacityBudget, Formats, BASELINE_PER_TOKEN
  <1>6. CapacityBudget(o.host_bytes, LAYER_NUM)["int8"] = y + 1
    BY PerToken DEF CapacityBudget, Formats
  <1> HIDE DEF x, y
  <1> QED BY <1>2, <1>3, <1>4, <1>5, <1>6, SMT DEF Formats

LEMMA TargetIsBf16Pool ==
  ASSUME NEW o \in Options
  PROVE  Target(o) \in Nat \ {0} /\ Target(o) = PoolOf("bf16", "fixed-size", o)
  BY FixedPools DEF Target, Formats

(* Experiment A (reproduce_all.sh, build_configs): under equal-tokens      *)
(* sizing both formats get exactly the target, so the gauge check of       *)
(* run_experiment never stops a sweep, whatever the budget and the device. *)
THEOREM EqualTokensHonoured ==
  ASSUME NEW o \in Options, NEW f \in Formats
  PROVE  PoolOf(f, "equal-tokens", o) = Target(o)
  <1> DEFINE t == Target(o)
             r == EqualTokensRatio(t, Device)
  <1>1. t \in Nat \ {0} /\ Device \in Nat \ {0} /\ Device < Scale /\ Scale \in Nat \ {0}
    BY TargetIsBf16Pool, SuiteAssumption, SizingAssumption
  <1>2. r \in Nat /\ IsEqualTokensRatio(r, t, Device)
    <2> HIDE DEF t
    <2> QED BY <1>1, RatioIsDefined
  <1>3. PoolOf(f, "equal-tokens", o) = RatioPoolSize(Device, r, 1)
    BY DEF PoolOf, BuiltPool
  <1> HIDE DEF r, t
  <1>4. t <= RatioPoolSize(Device, r, 1) /\ RatioPoolSize(Device, r, 1) < t + 1
    BY <1>1, <1>2, EqualTokensExact
  <1>5. RatioPoolSize(Device, r, 1) \in Nat
    <2>1. (Device * r) \div Scale = t - 1
      BY <1>1, <1>2, RatioIsOneBelow
    <2>2. RatioPoolSize(Device, r, 1) = WholePages(t - 1, 1)
      BY <2>1 DEF RatioPoolSize
    <2>3. t - 1 \in Nat
      BY <1>1
    <2> QED BY <2>2, <2>3, PagesOfOneToken
  <1>6. RatioPoolSize(Device, r, 1) = t
    BY <1>1, <1>4, <1>5
  <1> QED BY <1>3, <1>6 DEF t

LEMMA PoolIsNat ==
  ASSUME NEW o \in Options, NEW f \in Formats, NEW sizing \in Sizings
  PROVE  PoolOf(f, sizing, o) \in Nat
  <1>1. CASE sizing = "ratio"
    <2> DEFINE size == (Device * (2 * Scale)) \div Scale
    <2>1. Device * (2 * Scale) \in Nat /\ Scale \in Nat \ {0}
      BY SuiteAssumption, SizingAssumption, SMT
    <2>2. size \in Nat
      BY <2>1, Quotient
    <2>3. PoolOf(f, sizing, o) = WholePages(size, 1)
      BY <1>1 DEF PoolOf, BuiltPool, RatioPoolSize
    <2> HIDE DEF size
    <2> QED BY <2>2, <2>3, WholePagesBound
  <1>2. CASE sizing = "fixed-size"
    BY <1>2, FixedPools
  <1>3. CASE sizing = "equal-tokens"
    BY <1>3, EqualTokensHonoured, TargetIsBf16Pool
  <1> QED BY <1>1, <1>2, <1>3 DEF Sizings

(* The verdict printed before a run, and the pools it is about.            *)
VerdictHolds(r) ==
  r.verdict # "none" =>
    IF OnTheEdge(r)
    THEN r.verdict = "DISCRIMINATING" /\ \A f \in Formats : Holds(r, f)
    ELSE /\ r.verdict = "TOO SMALL" <=> \A f \in Formats : Holds(r, f)
         /\ r.verdict = "TOO LARGE" <=> \A f \in Formats : ~Holds(r, f)
         /\ r.verdict = "DISCRIMINATING" <=> Holds(r, "int8") /\ ~Holds(r, "bf16")

LEMMA ResultTyping ==
  ASSUME NEW step \in RunSteps, NEW ok \in BOOLEAN, NEW o \in Options,
         NEW sha \in Commits, NEW by \in Nat
  PROVE  /\ Result(step, ok, o, sha, by) \in Results
         /\ Result(step, ok, o, sha, by).config = step.config
         /\ Result(step, ok, o, sha, by).tag = step.tag
         /\ Result(step, ok, o, sha, by).ok = ok
         /\ Result(step, ok, o, sha, by).sha = sha
         /\ Result(step, ok, o, sha, by).by = by
  <1> DEFINE r == Result(step, ok, o, sha, by)
  <1>1. step.config \in Configs /\ step.tag \in Tags /\ step.sizing \in Sizings
    BY DEF RunSteps
  <1>2. \A f \in Formats : PoolOf(f, step.sizing, o) \in Nat
    BY <1>1, PoolIsNat
  <1>3. step.config # "baseline" => step.config \in Formats
    BY <1>1 DEF Configs, Formats
  <1>4. (IF step.config = "baseline" THEN 0 ELSE PoolOf(step.config, step.sizing, o)) \in Nat
    BY <1>2, <1>3
  <1>5. Verdict(step, o) \in Verdicts
    BY DEF Verdict, WorkloadVerdict, Verdicts
  <1>6. [f \in Formats |-> PoolOf(f, step.sizing, o)] \in [Formats -> Nat]
    BY <1>2
  <1> QED BY <1>1, <1>4, <1>5, <1>6 DEF Result, Results

(* The result of a run that ended well.                                    *)
Good(step, o, sha, by) == Result(step, TRUE, o, sha, by)

LEMMA GoodResult ==
  ASSUME NEW step \in RunSteps, NEW o \in Options, NEW sha \in Commits, NEW by \in Nat
  PROVE  /\ Good(step, o, sha, by) \in Results
         /\ Good(step, o, sha, by).config = step.config
         /\ Good(step, o, sha, by).tag = step.tag
         /\ Good(step, o, sha, by).sha = sha
         /\ Good(step, o, sha, by).by = by
  <1>1. PICK ok \in BOOLEAN : ok = TRUE
    OBVIOUS
  <1> DEFINE r == Result(step, ok, o, sha, by)
  <1>2. r \in Results /\ r.config = step.config /\ r.tag = step.tag /\ r.ok = ok /\ r.sha = sha /\ r.by = by
    BY ResultTyping
  <1>3. Good(step, o, sha, by) = r
    BY <1>1, Zenon DEF Good
  <1> HIDE DEF r
  <1> QED BY <1>2, <1>3

LEMMA GoodIsOk ==
  ASSUME NEW step, NEW o, NEW sha, NEW by
  PROVE  Good(step, o, sha, by).ok
  BY DEF Good, Result

LEMMA ResultVerdict ==
  ASSUME NEW step \in RunSteps, step.sizing # "ratio", NEW ok, NEW o \in Options, NEW sha, NEW by
  PROVE  VerdictHolds(Result(step, ok, o, sha, by))
  <1> DEFINE r == Result(step, ok, o, sha, by)
             caps == CapacityBudget(o.host_bytes, LAYER_NUM)
  <1>1. r.verdict = Verdict(step, o)
    BY DEF Result
  <1>2. \A f \in Formats : r.pools[f] = PoolOf(f, step.sizing, o)
    BY DEF Result
  <1>3. CASE step.sizing = "equal-tokens"
    BY <1>1, <1>3 DEF Verdict, VerdictHolds
  <1>4. CASE step.sizing = "fixed-size"
    <2>1. /\ r.pools["bf16"] = caps["bf16"] /\ caps["bf16"] \in Nat
          /\ r.pools["int8"] = caps["int8"] /\ caps["int8"] \in Nat
          /\ caps["bf16"] < caps["int8"]
      BY <1>2, <1>4, FixedPools DEF Formats
    <2>2. r.verdict = WorkloadVerdict(PrefixTokens, caps)
      BY <1>1, <1>4 DEF Verdict
    <2>3. r.verdict = IF PrefixTokens < caps["bf16"] THEN "TOO SMALL"
                      ELSE IF PrefixTokens > caps["int8"] THEN "TOO LARGE"
                      ELSE "DISCRIMINATING"
      BY <2>2 DEF WorkloadVerdict
    <2>4. PICK low \in Nat, high \in Nat : low = caps["bf16"] /\ high = caps["int8"]
      BY <2>1
    <2>5. PrefixTokens \in Nat /\ low < high
      BY <2>1, <2>4, SuiteAssumption
    <2>6. PICK verdict : verdict = r.verdict
      OBVIOUS
    <2>7. verdict = IF PrefixTokens < low THEN "TOO SMALL"
                    ELSE IF PrefixTokens > high THEN "TOO LARGE" ELSE "DISCRIMINATING"
      BY <2>3, <2>4, <2>6
    <2>8. r.pools["bf16"] = low /\ r.pools["int8"] = high
      BY <2>1, <2>4
    <2> HIDE DEF r, caps
    <2>9. /\ OnTheEdge(r) <=> PrefixTokens = low
          /\ Holds(r, "bf16") <=> PrefixTokens <= low
          /\ Holds(r, "int8") <=> PrefixTokens <= high
          /\ (\A f \in Formats : Holds(r, f)) <=> PrefixTokens <= low
          /\ (\A f \in Formats : ~Holds(r, f)) <=> ~(PrefixTokens <= high)
      BY <2>5, <2>8 DEF OnTheEdge, Holds, Formats
    <2>10. ASSUME PrefixTokens < low
          PROVE  VerdictHolds(r)
      <3>1. verdict = "TOO SMALL"
        BY <2>7, <2>10
      <3>2. PrefixTokens # low /\ PrefixTokens <= low /\ PrefixTokens <= high
        BY <2>5, <2>10
      <3> QED BY <2>6, <2>9, <3>1, <3>2 DEF VerdictHolds
    <2>11. ASSUME PrefixTokens = low
          PROVE  VerdictHolds(r)
      <3>1. ~(PrefixTokens < low) /\ ~(PrefixTokens > high) /\ PrefixTokens <= low
        BY <2>5, <2>11
      <3>2. verdict = "DISCRIMINATING"
        BY <2>7, <3>1
      <3> QED BY <2>6, <2>9, <2>11, <3>1, <3>2 DEF VerdictHolds
    <2>12. ASSUME low < PrefixTokens /\ PrefixTokens <= high
          PROVE  VerdictHolds(r)
      <3>1. /\ ~(PrefixTokens < low) /\ ~(PrefixTokens > high)
            /\ PrefixTokens # low /\ ~(PrefixTokens <= low)
        BY <2>5, <2>12
      <3>2. verdict = "DISCRIMINATING"
        BY <2>7, <3>1
      <3> QED BY <2>6, <2>9, <2>12, <3>1, <3>2 DEF VerdictHolds
    <2>13. ASSUME high < PrefixTokens
          PROVE  VerdictHolds(r)
      <3>1. /\ ~(PrefixTokens < low) /\ PrefixTokens > high /\ PrefixTokens # low
            /\ ~(PrefixTokens <= low) /\ ~(PrefixTokens <= high)
        BY <2>5, <2>13
      <3>2. verdict = "TOO LARGE"
        BY <2>7, <3>1
      <3> QED BY <2>6, <2>9, <3>1, <3>2 DEF VerdictHolds
    <2>14. VerdictHolds(r)
      BY <2>5, <2>10, <2>11, <2>12, <2>13
    <2> QED BY <2>14 DEF r
  <1> QED BY <1>3, <1>4 DEF RunSteps, Sizings

-----------------------------------------------------------------------------
(* The steps of the script                                                 *)

Steps == RunSteps \cup [kind : {"smoke", "quality"}, config : Configs]

(* The n-th measurement of the script.                                     *)
RunAt(o, n) ==
  IF n <= 3
  THEN Run(IF n = 1 THEN "baseline" ELSE IF n = 2 THEN "bf16" ELSE "int8",
           o.tag, "fixed-size")
  ELSE IF n <= 3 + 2 * o.repeats
  THEN Run(IF (n - 3) % 2 = 1 THEN "bf16" ELSE "int8", RepeatTag(o, (n - 3 + 1) \div 2), "fixed-size")
  ELSE Run(IF n = 4 + 2 * o.repeats THEN "bf16" ELSE "int8", EqualTag(o), "equal-tokens")

LEMMA OptionTyping ==
  ASSUME NEW o \in Options
  PROVE  /\ o.repeats \in 0..3 /\ o.tag \in Seq(Words)
         /\ o.tag \in MainTags
         /\ o.tag \in Tags /\ EqualTag(o) \in Tags
         /\ \A i \in 1..3 : RepeatTag(o, i) \in Tags
  <1>1. o.repeats \in 0..3
    BY SuiteAssumption DEF Option
  <1>2. o.tag \in Seq(Words)
    BY SuiteAssumption, Zenon DEF Option
  <1>3. \A s \in Suffixes : o.tag \o s \in Tags
    <2> DEFINE t == o.tag
    <2>1. t \in MainTags
      BY DEF MainTags
    <2> HIDE DEF t
    <2>2. \A s \in Suffixes : t \o s \in Tags
      BY <2>1 DEF Tags
    <2> QED BY <2>2 DEF t
  <1>4. o.tag \o <<>> = o.tag
    BY <1>2, ConcatEmptySeq
  <1>5. o.tag \o <<>> \in Tags /\ EqualTag(o) \in Tags
    BY <1>3 DEF Suffixes, EqualTag
  <1>6. \A i \in 1..3 : RepeatTag(o, i) \in Tags
    BY <1>3 DEF Suffixes, RepeatTag
  <1> QED BY <1>1, <1>2, <1>4, <1>5, <1>6 DEF MainTags

(* What appending one word or two does to the length and the last word.    *)
LEMMA OneWord ==
  ASSUME NEW W, NEW t \in Seq(W), NEW word \in W
  PROVE  Len(t \o <<word>>) = Len(t) + 1 /\ (t \o <<word>>)[Len(t) + 1] = word
  <1> DEFINE last == <<word>>
  <1>1. last \in Seq(W) /\ Len(last) = 1 /\ last[1] = word /\ Len(t) \in Nat
    OBVIOUS
  <1> HIDE DEF last
  <1>2. /\ Len(t \o last) = Len(t) + Len(last)
        /\ \A n \in 1..Len(t) + Len(last) :
             (t \o last)[n] = IF n <= Len(t) THEN t[n] ELSE last[n - Len(t)]
    BY <1>1, ConcatProperties
  <1>3. Len(t) + 1 \in 1..Len(t) + 1 /\ ~(Len(t) + 1 <= Len(t)) /\ (Len(t) + 1) - Len(t) = 1
    BY <1>1
  <1>4. (t \o last)[Len(t) + 1] = word
    BY <1>1, <1>2, <1>3
  <1> QED BY <1>1, <1>2, <1>4 DEF last

LEMMA TwoWords ==
  ASSUME NEW W, NEW t \in Seq(W), NEW first \in W, NEW second \in W
  PROVE  Len(t \o <<first, second>>) = Len(t) + 2
  <1> DEFINE last == <<first, second>>
  <1>1. last \in Seq(W) /\ Len(last) = 2
    OBVIOUS
  <1> HIDE DEF last
  <1>2. Len(t \o last) = Len(t) + Len(last)
    BY <1>1, ConcatProperties
  <1> QED BY <1>1, <1>2 DEF last

(* The tags of one call differ: by their length, and repeats by their last *)
(* word.                                                                   *)
LEMMA OwnTagsDiffer ==
  ASSUME NEW o \in Options
  PROVE  /\ EqualTag(o) # o.tag
         /\ \A i \in 1..3 : RepeatTag(o, i) # o.tag /\ RepeatTag(o, i) # EqualTag(o)
         /\ \A i, j \in 1..3 : RepeatTag(o, i) = RepeatTag(o, j) => i = j
  <1> DEFINE t == o.tag
  <1>1. t \in Seq(Words)
    BY OptionTyping
  <1> HIDE DEF t
  <1>2. Len(t) \in Nat
    BY <1>1, LenProperties
  <1>3. Len(EqualTag(o)) = Len(t) + 2
    <2>1. "exp" \in Words /\ "a" \in Words
      BY SuiteAssumption
    <2>2. Len(t \o <<"exp", "a">>) = Len(t) + 2
      BY <1>1, <2>1, TwoWords
    <2> QED BY <2>2 DEF EqualTag, EqualSuffix, t
  <1>4. ASSUME NEW i \in 1..3
        PROVE  Len(RepeatTag(o, i)) = Len(t) + 1 /\ RepeatTag(o, i)[Len(t) + 1] = RepeatSuffix[i]
    <2> DEFINE word == RepeatSuffix[i]
    <2>1. word \in Words
      <3>1. word = "r1" \/ word = "r2" \/ word = "r3"
        BY DEF RepeatSuffix
      <3> HIDE DEF word
      <3> QED BY <3>1, SuiteAssumption
    <2> HIDE DEF word
    <2>2. Len(t \o <<word>>) = Len(t) + 1 /\ (t \o <<word>>)[Len(t) + 1] = word
      BY <1>1, <2>1, OneWord
    <2> QED BY <2>2 DEF RepeatTag, t, word
  <1>5. \A i, j \in 1..3 : RepeatSuffix[i] = RepeatSuffix[j] => i = j
    BY DEF RepeatSuffix
  <1>6. EqualTag(o) # t
    BY <1>2, <1>3
  <1>7. \A i \in 1..3 : RepeatTag(o, i) # t /\ RepeatTag(o, i) # EqualTag(o)
    BY <1>2, <1>3, <1>4
  <1>8. \A i, j \in 1..3 : RepeatTag(o, i) = RepeatTag(o, j) => i = j
    BY <1>4, <1>5
  <1> QED BY <1>6, <1>7, <1>8 DEF t

(* No call measures a baseline into the sweeps of another call's repeats   *)
(* and Experiment A.                                                       *)
LEMMA OtherTagsApart ==
  ASSUME NEW o \in Options
  PROVE  /\ EqualTag(o) \notin MainTags
         /\ \A i \in 1..o.repeats : RepeatTag(o, i) \notin MainTags
  BY TagsApart DEF MainTags, EqualTag, RepeatTag

LEMMA RunAtTyping ==
  ASSUME NEW o \in Options, NEW n \in 1..5 + 2 * o.repeats
  PROVE  RunAt(o, n) \in RunSteps /\ RunAt(o, n).sizing # "ratio"
  <1>1. o.tag \in Tags /\ EqualTag(o) \in Tags
    BY OptionTyping
  <1>2. ASSUME 3 < n, n <= 3 + 2 * o.repeats
        PROVE  RepeatTag(o, (n - 3 + 1) \div 2) \in Tags
    <2>1. (n - 3 + 1) \div 2 \in 1..3
      BY <1>2, OptionTyping, SMT
    <2> QED BY <2>1, OptionTyping
  <1>3. CASE n <= 3
    BY <1>1, <1>3 DEF RunAt, Run, RunSteps, Configs, Sizings
  <1>4. CASE 3 < n /\ n <= 3 + 2 * o.repeats
    BY <1>2, <1>4 DEF RunAt, Run, RunSteps, Configs, Sizings
  <1>5. CASE 3 + 2 * o.repeats < n
    BY <1>1, <1>5, OptionTyping DEF RunAt, Run, RunSteps, Configs, Sizings
  <1> QED BY <1>3, <1>4, <1>5, OptionTyping

(* The sequence of the module, element by element.                         *)
LEMMA RunsShape ==
  ASSUME NEW o \in Options
  PROVE  /\ RunsOf(o) \in Seq(RunSteps)
         /\ Len(RunsOf(o)) = 5 + 2 * o.repeats
         /\ \A n \in 1..Len(RunsOf(o)) : RunsOf(o)[n] = RunAt(o, n)
  <1> DEFINE k == 2 * o.repeats
             main == <<Run("baseline", o.tag, "fixed-size"),
                       Run("bf16", o.tag, "fixed-size"),
                       Run("int8", o.tag, "fixed-size")>>
             equal == <<Run("bf16", EqualTag(o), "equal-tokens"),
                        Run("int8", EqualTag(o), "equal-tokens")>>
  <1>1. k \in Nat /\ o.repeats \in 0..3
    BY OptionTyping
  <1>2. /\ main \in Seq(RunSteps) /\ Len(main) = 3
        /\ main[1] = RunAt(o, 1) /\ main[2] = RunAt(o, 2) /\ main[3] = RunAt(o, 3)
    <2>1. main[1] = RunAt(o, 1) /\ main[2] = RunAt(o, 2) /\ main[3] = RunAt(o, 3)
      BY DEF RunAt
    <2>2. 1 \in 1..5 + 2 * o.repeats /\ 2 \in 1..5 + 2 * o.repeats /\ 3 \in 1..5 + 2 * o.repeats
      BY <1>1
    <2>3. RunAt(o, 1) \in RunSteps /\ RunAt(o, 2) \in RunSteps /\ RunAt(o, 3) \in RunSteps
      BY <2>2, RunAtTyping
    <2> QED BY <2>1, <2>3
  <1>3. /\ equal \in Seq(RunSteps) /\ Len(equal) = 2
        /\ equal[1] = RunAt(o, 4 + k) /\ equal[2] = RunAt(o, 5 + k)
    <2>1. equal[1] = RunAt(o, 4 + k) /\ equal[2] = RunAt(o, 5 + k)
      BY <1>1 DEF RunAt
    <2>2. 4 + k \in 1..5 + 2 * o.repeats /\ 5 + k \in 1..5 + 2 * o.repeats
      BY <1>1
    <2>3. RunAt(o, 4 + k) \in RunSteps /\ RunAt(o, 5 + k) \in RunSteps
      BY <2>2, RunAtTyping
    <2> QED BY <2>1, <2>3
  <1>4. ASSUME NEW n \in 1..k
        PROVE  /\ RunAt(o, 3 + n) \in RunSteps
               /\ RunAt(o, 3 + n) =
                    Run(IF n % 2 = 1 THEN "bf16" ELSE "int8", RepeatTag(o, (n + 1) \div 2), "fixed-size")
    <2>1. ~(3 + n <= 3) /\ 3 + n <= 3 + 2 * o.repeats /\ (3 + n) - 3 = n /\ 3 + n \in 1..5 + 2 * o.repeats
      BY <1>1
    <2> QED BY <2>1, RunAtTyping DEF RunAt
  <1>5. /\ Repeats(o) \in Seq(RunSteps) /\ Len(Repeats(o)) = k
        /\ \A n \in 1..k : Repeats(o)[n] = RunAt(o, 3 + n)
    <2>1. Repeats(o) \in [1..k -> RunSteps]
      BY <1>4 DEF Repeats
    <2>2. Repeats(o) \in Seq(RunSteps)
      <3> HIDE DEF k
      <3> QED BY <1>1, <2>1, SeqDef
    <2>3. Len(Repeats(o)) = k
      <3> HIDE DEF k
      <3> QED BY <1>1, <2>1, <2>2, LenProperties
    <2>4. \A n \in 1..k : Repeats(o)[n] = RunAt(o, 3 + n)
      BY <1>4 DEF Repeats
    <2> QED BY <2>2, <2>3, <2>4
  <1> HIDE DEF main, equal
  <1>6. RunsOf(o) = main \o Repeats(o) \o equal
    BY DEF RunsOf, main, equal
  <1> DEFINE front == main \o Repeats(o)
  <1>7. /\ front \in Seq(RunSteps) /\ Len(front) = 3 + k
        /\ \A i \in 1..3 + k : front[i] = IF i <= 3 THEN main[i] ELSE Repeats(o)[i - 3]
    <2> DEFINE rep == Repeats(o)
    <2>1. main \in Seq(RunSteps) /\ rep \in Seq(RunSteps) /\ Len(main) = 3 /\ Len(rep) = k
      BY <1>2, <1>5
    <2> HIDE DEF rep, k
    <2>2. /\ main \o rep \in Seq(RunSteps) /\ Len(main \o rep) = Len(main) + Len(rep)
          /\ \A i \in 1..Len(main) + Len(rep) : (main \o rep)[i] =
                 IF i <= Len(main) THEN main[i] ELSE rep[i - Len(main)]
      BY <2>1, ConcatProperties
    <2> QED BY <2>1, <2>2 DEF rep
  <1> HIDE DEF front
  <1>8. /\ RunsOf(o) \in Seq(RunSteps) /\ Len(RunsOf(o)) = 3 + k + 2
        /\ \A i \in 1..3 + k + 2 : RunsOf(o)[i] = IF i <= 3 + k THEN front[i] ELSE equal[i - (3 + k)]
    <2>1. RunsOf(o) = front \o equal
      BY <1>6 DEF front
    <2>2. /\ front \o equal \in Seq(RunSteps) /\ Len(front \o equal) = Len(front) + Len(equal)
          /\ \A i \in 1..Len(front) + Len(equal) : (front \o equal)[i] =
                 IF i <= Len(front) THEN front[i] ELSE equal[i - Len(front)]
      BY <1>3, <1>7, ConcatProperties
    <2> HIDE DEF k
    <2> QED BY <2>1, <2>2, <1>3, <1>7
  <1>9. ASSUME NEW n \in 1..5 + k
        PROVE  RunsOf(o)[n] = RunAt(o, n)
    <2> HIDE DEF k
    <2>1. CASE n <= 3
      <3>1. RunsOf(o)[n] = main[n]
        BY <1>1, <1>7, <1>8, <2>1
      <3>2. n = 1 \/ n = 2 \/ n = 3
        BY <2>1
      <3> QED BY <3>1, <3>2, <1>2
    <2>2. CASE 3 < n /\ n <= 3 + k
      <3>1. n - 3 \in 1..k /\ 3 + (n - 3) = n
        BY <1>1, <2>2
      <3>2. RunsOf(o)[n] = Repeats(o)[n - 3]
        BY <1>1, <1>7, <1>8, <2>2
      <3> QED BY <3>1, <3>2, <1>5
    <2>3. CASE 3 + k < n
      <3>1. RunsOf(o)[n] = equal[n - (3 + k)]
        BY <1>1, <1>8, <2>3
      <3>2. (n = 4 + k /\ n - (3 + k) = 1) \/ (n = 5 + k /\ n - (3 + k) = 2)
        BY <1>1, <2>3
      <3> QED BY <3>1, <3>2, <1>3
    <2> QED BY <1>1, <2>1, <2>2, <2>3
  <1>10. 3 + k + 2 = 5 + k
    BY <1>1
  <1> QED BY <1>8, <1>9, <1>10

(* Where a measurement is filed: position, configuration and suffix.       *)
LEMMA RunAtFile ==
  ASSUME NEW o \in Options, NEW n \in 1..5 + 2 * o.repeats
  PROVE  /\ n <= 3 => /\ RunAt(o, n).tag = o.tag
                      /\ RunAt(o, n).config =
                           (IF n = 1 THEN "baseline" ELSE IF n = 2 THEN "bf16" ELSE "int8")
         /\ 3 < n /\ n <= 3 + 2 * o.repeats =>
              /\ (n - 2) \div 2 \in 1..o.repeats
              /\ RunAt(o, n).tag = RepeatTag(o, (n - 2) \div 2)
              /\ RunAt(o, n).config = (IF (n - 3) % 2 = 1 THEN "bf16" ELSE "int8")
         /\ 3 + 2 * o.repeats < n =>
              /\ RunAt(o, n).tag = EqualTag(o)
              /\ RunAt(o, n).config = (IF n = 4 + 2 * o.repeats THEN "bf16" ELSE "int8")
  <1>1. o.repeats \in 0..3
    BY OptionTyping
  <1>2. ASSUME 3 < n, n <= 3 + 2 * o.repeats
        PROVE  /\ (n - 2) \div 2 \in 1..o.repeats
               /\ RunAt(o, n).tag = RepeatTag(o, (n - 2) \div 2)
               /\ RunAt(o, n).config = (IF (n - 3) % 2 = 1 THEN "bf16" ELSE "int8")
    <2>1. n - 3 + 1 = n - 2 /\ ~(n <= 3)
      BY <1>2
    <2>2. (n - 2) \div 2 \in 1..o.repeats
      BY <1>1, <1>2, SMT
    <2>3. RunAt(o, n) = Run(IF (n - 3) % 2 = 1 THEN "bf16" ELSE "int8",
                            RepeatTag(o, (n - 2) \div 2), "fixed-size")
      BY <1>2, <2>1 DEF RunAt
    <2> QED BY <2>2, <2>3 DEF Run
  <1>3. n <= 3 => /\ RunAt(o, n).tag = o.tag
                  /\ RunAt(o, n).config =
                       (IF n = 1 THEN "baseline" ELSE IF n = 2 THEN "bf16" ELSE "int8")
    BY DEF RunAt, Run
  <1>4. ASSUME 3 + 2 * o.repeats < n
        PROVE  /\ RunAt(o, n).tag = EqualTag(o)
               /\ RunAt(o, n).config = (IF n = 4 + 2 * o.repeats THEN "bf16" ELSE "int8")
    <2>1. ~(n <= 3) /\ ~(n <= 3 + 2 * o.repeats)
      BY <1>1, <1>4
    <2> QED BY <2>1 DEF RunAt, Run
  <1> QED BY <1>2, <1>3, <1>4

(* No two measurements of a call go to one file.                           *)
LEMMA RunsDistinct ==
  ASSUME NEW o \in Options, NEW n \in 1..5 + 2 * o.repeats, NEW m \in 1..5 + 2 * o.repeats,
         File(RunAt(o, n)) = File(RunAt(o, m))
  PROVE  n = m
  <1> DEFINE k == 2 * o.repeats
  <1>1. o.repeats \in 0..3 /\ k \in Nat
    BY OptionTyping
  <1>2. RunAt(o, n).config = RunAt(o, m).config /\ RunAt(o, n).tag = RunAt(o, m).tag
    BY DEF File
  <1>3. /\ EqualTag(o) # o.tag
        /\ \A i \in 1..3 : RepeatTag(o, i) # o.tag /\ RepeatTag(o, i) # EqualTag(o)
        /\ \A i, j \in 1..3 : RepeatTag(o, i) = RepeatTag(o, j) => i = j
    BY OwnTagsDiffer
  <1>4. ASSUME NEW x \in 1..5 + 2 * o.repeats
        PROVE  /\ x <= 3 => RunAt(o, x).tag = o.tag
               /\ 3 < x /\ x <= 3 + k =>
                    /\ (x - 2) \div 2 \in 1..3
                    /\ RunAt(o, x).tag = RepeatTag(o, (x - 2) \div 2)
               /\ 3 + k < x => RunAt(o, x).tag = EqualTag(o)
    <2>1. x <= 3 => RunAt(o, x).tag = o.tag
      BY RunAtFile
    <2>2. 3 + k < x => RunAt(o, x).tag = EqualTag(o)
      BY RunAtFile
    <2>3. ASSUME 3 < x, x <= 3 + k
          PROVE  /\ (x - 2) \div 2 \in 1..3
                 /\ RunAt(o, x).tag = RepeatTag(o, (x - 2) \div 2)
      <3>1. (x - 2) \div 2 \in 1..o.repeats /\ RunAt(o, x).tag = RepeatTag(o, (x - 2) \div 2)
        BY <2>3, RunAtFile
      <3>2. \A i \in 1..o.repeats : i \in 1..3
        BY <1>1
      <3> QED BY <3>1, <3>2
    <2> QED BY <2>1, <2>2, <2>3
  <1>5. CASE n <= 3
    <2>1. m <= 3
      BY <1>1, <1>2, <1>3, <1>4, <1>5
    <2> QED BY <1>2, <1>5, <2>1, RunAtFile
  <1>6. CASE 3 < n /\ n <= 3 + k
    <2>1. 3 < m /\ m <= 3 + k
      BY <1>1, <1>2, <1>3, <1>4, <1>6
    <2>2. (n - 2) \div 2 = (m - 2) \div 2
      BY <1>2, <1>3, <1>4, <1>6, <2>1
    <2>3. (IF (n - 3) % 2 = 1 THEN "bf16" ELSE "int8") = (IF (m - 3) % 2 = 1 THEN "bf16" ELSE "int8")
      BY <1>2, <1>6, <2>1, RunAtFile
    <2>4. (n - 3) % 2 = 1 <=> (m - 3) % 2 = 1
      BY <2>3
    <2> QED BY <1>1, <1>6, <2>1, <2>2, <2>4, SMT
  <1>7. CASE 3 + k < n
    <2>1. 3 + k < m
      BY <1>1, <1>2, <1>3, <1>4, <1>7
    <2>2. (IF n = 4 + k THEN "bf16" ELSE "int8") = (IF m = 4 + k THEN "bf16" ELSE "int8")
      BY <1>2, <1>7, <2>1, RunAtFile
    <2>3. n = 4 + k <=> m = 4 + k
      BY <2>2
    <2> QED BY <1>1, <1>7, <2>1, <2>3
  <1> QED BY <1>1, <1>5, <1>6, <1>7

(* A call that measures one configuration under a tag measures all those   *)
(* that are ever filed under it.                                           *)
LEMMA RunsSiblings ==
  ASSUME NEW o \in Options, NEW n \in 1..5 + 2 * o.repeats, NEW c \in Configs,
         c = "baseline" => RunAt(o, n).tag \in MainTags
  PROVE  \E m \in 1..5 + 2 * o.repeats : File(RunAt(o, m)) = <<c, RunAt(o, n).tag>>
  <1> DEFINE k == 2 * o.repeats
  <1>1. o.repeats \in 0..3 /\ k \in Nat
    BY OptionTyping
  <1>2. CASE n <= 3
    <2>1. PICK m \in 1..3 : c = (IF m = 1 THEN "baseline" ELSE IF m = 2 THEN "bf16" ELSE "int8")
      BY DEF Configs
    <2>2. m \in 1..5 + 2 * o.repeats
      BY <1>1, <2>1
    <2>3. RunAt(o, m).config = c /\ RunAt(o, m).tag = RunAt(o, n).tag
      BY <1>2, <2>1, <2>2, RunAtFile
    <2> QED BY <2>2, <2>3 DEF File
  <1>3. CASE 3 < n /\ n <= 3 + k
    <2>1. (n - 2) \div 2 \in 1..3 /\ RunAt(o, n).tag = RepeatTag(o, (n - 2) \div 2)
      <3>1. (n - 2) \div 2 \in 1..o.repeats /\ RunAt(o, n).tag = RepeatTag(o, (n - 2) \div 2)
        BY <1>3, RunAtFile
      <3>2. \A i \in 1..o.repeats : i \in 1..3
        BY <1>1
      <3> QED BY <3>1, <3>2
    <2>2. RunAt(o, n).tag \notin MainTags
      BY <1>3, RunAtFile, OtherTagsApart
    <2>3. c = "bf16" \/ c = "int8"
      BY <2>2 DEF Configs
    <2> DEFINE i == (n - 2) \div 2
               m == IF c = "bf16" THEN 2 * i + 2 ELSE 2 * i + 3
    <2>4. i \in 1..o.repeats
      BY <1>3, RunAtFile
    <2>5. m \in 1..5 + k /\ 3 < m /\ m <= 3 + k
      <3> HIDE DEF i
      <3> QED BY <1>1, <2>4
    <2>6. (m - 2) \div 2 = i
      <3> HIDE DEF i
      <3> QED BY <1>1, <2>4, SMT
    <2>7. (m - 3) % 2 = 1 <=> c = "bf16"
      <3> HIDE DEF i
      <3> QED BY <1>1, <2>4, SMT
    <2> HIDE DEF m, i
    <2>8. RunAt(o, m).tag = RepeatTag(o, i) /\ RunAt(o, m).config = c
      BY <2>3, <2>5, <2>6, <2>7, RunAtFile
    <2>9. RunAt(o, n).tag = RepeatTag(o, i)
      BY <2>1 DEF i
    <2> QED BY <2>5, <2>8, <2>9 DEF File
  <1>4. CASE 3 + k < n
    <2>1. RunAt(o, n).tag \notin MainTags
      BY <1>4, RunAtFile, OtherTagsApart
    <2>2. c = "bf16" \/ c = "int8"
      BY <2>1 DEF Configs
    <2> DEFINE m == IF c = "bf16" THEN 4 + k ELSE 5 + k
    <2>3. m \in 1..5 + k /\ 3 + k < m
      BY <1>1
    <2>4. RunAt(o, m).tag = EqualTag(o) /\ RunAt(o, m).config = c
      BY <1>1, <2>2, <2>3, RunAtFile
    <2> QED BY <1>4, <2>3, <2>4, RunAtFile DEF File
  <1> QED BY <1>1, <1>2, <1>3, <1>4

LEMMA RunsFacts ==
  ASSUME NEW o \in Options
  PROVE  /\ RunsOf(o) \in Seq(RunSteps)
         /\ Len(RunsOf(o)) \in Nat
         /\ \A n \in 1..Len(RunsOf(o)) :
              /\ RunsOf(o)[n] \in RunSteps
              /\ RunsOf(o)[n].sizing # "ratio"
              /\ RunsOf(o)[n].config = "baseline" => RunsOf(o)[n].tag \in MainTags
         /\ \A n, m \in 1..Len(RunsOf(o)) : File(RunsOf(o)[n]) = File(RunsOf(o)[m]) => n = m
         /\ \A n \in 1..Len(RunsOf(o)) : \A c \in Configs :
              (c = "baseline" => RunsOf(o)[n].tag \in MainTags)
                => \E m \in 1..Len(RunsOf(o)) : File(RunsOf(o)[m]) = <<c, RunsOf(o)[n].tag>>
  <1>1. /\ RunsOf(o) \in Seq(RunSteps)
        /\ Len(RunsOf(o)) = 5 + 2 * o.repeats
        /\ \A n \in 1..5 + 2 * o.repeats : RunsOf(o)[n] = RunAt(o, n)
    BY RunsShape
  <1>2. o.repeats \in 0..3
    BY OptionTyping
  <1>3. ASSUME NEW n \in 1..5 + 2 * o.repeats, RunAt(o, n).config = "baseline"
        PROVE  RunAt(o, n).tag \in MainTags
    <2>1. CASE n <= 3
      BY <2>1, RunAtFile, OptionTyping
    <2>2. CASE 3 < n /\ n <= 3 + 2 * o.repeats
      BY <1>3, <2>2, RunAtFile
    <2>3. CASE 3 + 2 * o.repeats < n
      BY <1>3, <2>3, RunAtFile
    <2> QED BY <1>2, <2>1, <2>2, <2>3
  <1> DEFINE L == 5 + 2 * o.repeats
  <1>4. L \in Nat
    BY <1>2
  <1>5. \A n \in 1..L : /\ RunsOf(o)[n] \in RunSteps
                        /\ RunsOf(o)[n].sizing # "ratio"
                        /\ RunsOf(o)[n].config = "baseline" => RunsOf(o)[n].tag \in MainTags
    BY <1>1, <1>3, RunAtTyping
  <1>6. \A n, m \in 1..L : File(RunsOf(o)[n]) = File(RunsOf(o)[m]) => n = m
    BY <1>1, RunsDistinct
  <1>7. \A n \in 1..L : \A c \in Configs :
          (c = "baseline" => RunsOf(o)[n].tag \in MainTags)
            => \E m \in 1..L : File(RunsOf(o)[m]) = <<c, RunsOf(o)[n].tag>>
    BY <1>1, RunsSiblings
  <1> QED BY <1>1, <1>4, <1>5, <1>6, <1>7

IsRun(o, j) == Plan(o)[j].kind = "run"

(* The position of a measurement among the steps.                          *)
Offset(o) == IF o.skip_smoke THEN 0 ELSE 2

LEMMA PlanShape ==
  ASSUME NEW o \in Options
  PROVE  /\ Plan(o) \in Seq(Steps)
         /\ Len(Plan(o)) = Offset(o) + Len(RunsOf(o)) + 1
         /\ \A n \in 1..Len(RunsOf(o)) : /\ Offset(o) + n \in 1..Len(Plan(o))
                                         /\ IsRun(o, Offset(o) + n)
                                         /\ Plan(o)[Offset(o) + n] = RunsOf(o)[n]
         /\ \A j \in 1..Len(Plan(o)) : IsRun(o, j) =>
              j - Offset(o) \in 1..Len(RunsOf(o)) /\ Plan(o)[j] = RunsOf(o)[j - Offset(o)]
  <1> DEFINE smoke == SmokeTests(o)
             runs == RunsOf(o)
             tail == <<Check("quality", "int8")>>
             off == Offset(o)
             L == Len(runs)
  <1>1. /\ smoke \in Seq(Steps) /\ Len(smoke) = off
        /\ \A j \in 1..off : smoke[j].kind # "run"
    <2>1. CASE o.skip_smoke
      BY <2>1, EmptySeq DEF SmokeTests, Offset
    <2>2. CASE ~o.skip_smoke
      <3> DEFINE a == Check("smoke", "int8")
                 b == Check("smoke", "bf16")
      <3>1. a \in Steps /\ b \in Steps /\ a.kind # "run" /\ b.kind # "run"
        BY DEF Check, Steps, Configs
      <3>2. smoke = <<a, b>> /\ off = 2
        BY <2>2 DEF SmokeTests, Offset
      <3> HIDE DEF a, b, smoke, off
      <3> QED BY <3>1, <3>2
    <2> QED BY <2>1, <2>2
  <1>2. /\ tail \in Seq(Steps) /\ Len(tail) = 1 /\ tail[1].kind # "run"
    BY DEF Check, Steps, Configs
  <1>3. runs \in Seq(Steps) /\ L \in Nat /\ off \in Nat
    <2>1. runs \in Seq(RunSteps) /\ RunSteps \subseteq Steps /\ L \in Nat
      BY RunsFacts DEF Steps
    <2> HIDE DEF runs
    <2> QED BY <2>1, SeqMonotonic DEF Offset
  <1>4. \A n \in 1..L : runs[n].kind = "run"
    BY RunsFacts DEF RunSteps
  <1> HIDE DEF smoke, runs, tail, off
  <1> DEFINE front == smoke \o runs
  <1>5. /\ front \in Seq(Steps) /\ Len(front) = off + L
        /\ \A i \in 1..off + L : front[i] = IF i <= off THEN smoke[i] ELSE runs[i - off]
    <2>1. /\ front \in Seq(Steps) /\ Len(front) = Len(smoke) + Len(runs)
          /\ \A i \in 1..Len(smoke) + Len(runs) : front[i] =
                 IF i <= Len(smoke) THEN smoke[i] ELSE runs[i - Len(smoke)]
      BY <1>1, <1>3, ConcatProperties
    <2> QED BY <1>1, <2>1
  <1> HIDE DEF front
  <1>6. /\ front \o tail \in Seq(Steps) /\ Len(front \o tail) = off + L + 1
        /\ \A i \in 1..off + L + 1 : (front \o tail)[i] =
               IF i <= off + L THEN front[i] ELSE tail[i - (off + L)]
    <2>1. /\ front \o tail \in Seq(Steps) /\ Len(front \o tail) = Len(front) + Len(tail)
          /\ \A i \in 1..Len(front) + Len(tail) : (front \o tail)[i] =
                 IF i <= Len(front) THEN front[i] ELSE tail[i - Len(front)]
      BY <1>2, <1>5, ConcatProperties
    <2> QED BY <1>2, <1>5, <2>1
  <1>7. Plan(o) = front \o tail
    BY DEF Plan, front, smoke, runs, tail
  <1>8. ASSUME NEW n \in 1..L
        PROVE  off + n \in 1..off + L + 1 /\ Plan(o)[off + n] = runs[n] /\ IsRun(o, off + n)
    <2>1. /\ off + n \in 1..off + L + 1 /\ off + n \in 1..off + L /\ ~(off + n <= off)
          /\ off + n <= off + L /\ (off + n) - off = n
      BY <1>3, <1>8
    <2>2. (front \o tail)[off + n] = front[off + n] /\ front[off + n] = runs[n]
      BY <1>5, <1>6, <2>1
    <2> QED BY <1>4, <1>7, <2>1, <2>2 DEF IsRun
  <1>9. ASSUME NEW j \in 1..off + L + 1, IsRun(o, j)
        PROVE  j - off \in 1..L /\ Plan(o)[j] = runs[j - off]
    <2>1. CASE j <= off
      <3>1. j \in 1..off + L /\ j \in 1..off /\ j <= off + L
        BY <1>3, <2>1
      <3>2. Plan(o)[j] = smoke[j]
        BY <1>5, <1>6, <1>7, <2>1, <3>1
      <3> QED BY <1>1, <1>9, <3>1, <3>2 DEF IsRun
    <2>2. CASE off < j /\ j <= off + L
      <3>1. ~(j <= off) /\ j \in 1..off + L /\ j - off \in 1..L
        BY <1>3, <2>2
      <3> QED BY <1>5, <1>6, <1>7, <2>2, <3>1
    <2>3. CASE off + L < j
      <3>1. j - (off + L) = 1 /\ ~(j <= off + L)
        BY <1>3, <2>3
      <3>2. Plan(o)[j] = tail[1]
        BY <1>6, <1>7, <3>1
      <3> QED BY <1>2, <1>9, <3>2 DEF IsRun
    <2> QED BY <1>3, <2>1, <2>2, <2>3
  <1>10. Plan(o) \in Seq(Steps) /\ Len(Plan(o)) = off + L + 1
    BY <1>6, <1>7
  <1> QED BY <1>8, <1>9, <1>10 DEF off, runs

(* The same facts by the position in the plan.                             *)
LEMMA PlanFacts ==
  ASSUME NEW o \in Options
  PROVE  /\ Plan(o) \in Seq(Steps)
         /\ Len(Plan(o)) \in Nat
         /\ \A j \in 1..Len(Plan(o)) : IsRun(o, j) =>
              /\ Plan(o)[j] \in RunSteps
              /\ Plan(o)[j].sizing # "ratio"
              /\ Plan(o)[j].config = "baseline" => Plan(o)[j].tag \in MainTags
         /\ \A i, j \in 1..Len(Plan(o)) :
              IsRun(o, i) /\ IsRun(o, j) /\ File(Plan(o)[i]) = File(Plan(o)[j]) => i = j
         /\ \A j \in 1..Len(Plan(o)) : \A c \in Configs :
              IsRun(o, j) /\ (c = "baseline" => Plan(o)[j].tag \in MainTags)
                => \E i \in 1..Len(Plan(o)) : IsRun(o, i) /\ File(Plan(o)[i]) = <<c, Plan(o)[j].tag>>
  <1>1. Plan(o) \in Seq(Steps) /\ Len(Plan(o)) \in Nat
    BY PlanShape, LenProperties
  <1>2. \A j \in 1..Len(Plan(o)) : IsRun(o, j) =>
              /\ Plan(o)[j] \in RunSteps
              /\ Plan(o)[j].sizing # "ratio"
              /\ Plan(o)[j].config = "baseline" => Plan(o)[j].tag \in MainTags
    <2> TAKE j \in 1..Len(Plan(o))
    <2> HAVE IsRun(o, j)
    <2>1. j - Offset(o) \in 1..Len(RunsOf(o)) /\ Plan(o)[j] = RunsOf(o)[j - Offset(o)]
      BY PlanShape
    <2> QED BY <2>1, RunsFacts
  <1>3. ASSUME NEW i \in 1..Len(Plan(o)), NEW j \in 1..Len(Plan(o)),
               IsRun(o, i), IsRun(o, j), File(Plan(o)[i]) = File(Plan(o)[j])
        PROVE  i = j
    <2>1. /\ i - Offset(o) \in 1..Len(RunsOf(o)) /\ Plan(o)[i] = RunsOf(o)[i - Offset(o)]
          /\ j - Offset(o) \in 1..Len(RunsOf(o)) /\ Plan(o)[j] = RunsOf(o)[j - Offset(o)]
      BY <1>3, PlanShape
    <2>2. i - Offset(o) = j - Offset(o)
      BY <1>3, <2>1, RunsFacts
    <2> QED BY <1>1, <2>2 DEF Offset
  <1>4. ASSUME NEW j \in 1..Len(Plan(o)), NEW c \in Configs,
               IsRun(o, j), c = "baseline" => Plan(o)[j].tag \in MainTags
        PROVE  \E i \in 1..Len(Plan(o)) : IsRun(o, i) /\ File(Plan(o)[i]) = <<c, Plan(o)[j].tag>>
    <2>1. j - Offset(o) \in 1..Len(RunsOf(o)) /\ Plan(o)[j] = RunsOf(o)[j - Offset(o)]
      BY <1>4, PlanShape
    <2>2. PICK m \in 1..Len(RunsOf(o)) : File(RunsOf(o)[m]) = <<c, RunsOf(o)[j - Offset(o)].tag>>
      BY <1>4, <2>1, RunsFacts
    <2>3. /\ Offset(o) + m \in 1..Len(Plan(o)) /\ IsRun(o, Offset(o) + m)
          /\ Plan(o)[Offset(o) + m] = RunsOf(o)[m]
      BY PlanShape
    <2> QED BY <2>1, <2>2, <2>3
  <1> QED BY <1>1, <1>2, <1>3, <1>4

-----------------------------------------------------------------------------
(* The inductive invariant                                                 *)

Entry == Results \cup {NoFile, Truncated}

TypeOK ==
  /\ pod \in [Files -> Entry]
  /\ laptop \in [Files -> Entry]
  /\ phase \in {"idle", "running", "done", "aborted"}
  /\ opts \in Options
  /\ todo \in Seq(Steps)
  /\ commit \in Commits
  /\ provenance \in Commits
  /\ command \in Nat
  /\ whole \in BOOLEAN

(* A result is in the file of its run, of a command not after last; the    *)
(* baseline is in no sweep but a main one.                                 *)
Filed(dir, last) ==
  \A f \in Files : dir[f] \in Results =>
    /\ dir[f].config = f[1] /\ dir[f].tag = f[2]
    /\ dir[f].by <= last
    /\ f[1] = "baseline" => f[2] \in MainTags

(* The steps of plan that are over when those in left are not, and whether *)
(* the result in file f is of one of them.                                 *)
Past(plan, left) == Len(plan) - Len(left)
Measured(f, o, left) ==
  \E j \in 1..Past(Plan(o), left) : IsRun(o, j) /\ File(Plan(o)[j]) = f

(* A script that runs or is done has what is left of its plan to do, and   *)
(* the results of this call are those of the runs it has made: all of them *)
(* and nothing else.                                                       *)
Underway ==
  phase \in {"running", "done"} =>
    /\ Len(todo) <= Len(Plan(opts))
    /\ \A i \in 1..Len(todo) : todo[i] = Plan(opts)[Past(Plan(opts), todo) + i]
    /\ \A j \in 1..Past(Plan(opts), todo) : IsRun(opts, j) =>
         pod[File(Plan(opts)[j])] = Good(Plan(opts)[j], opts, provenance, command)
    /\ \A f \in Files : pod[f] \in Results /\ pod[f].by = command => Measured(f, opts, todo)
    /\ phase = "running" => provenance = commit
    /\ phase = "done" => todo = <<>>

(* On a pod where nothing failed, a sweep mixes two calls only while the   *)
(* later one is measuring it.                                              *)
Together ==
  whole => \A f, g \in Files :
    f[2] = g[2] /\ pod[f] \in Results /\ pod[g] \in Results =>
      \/ pod[f].by = pod[g].by
      \/ phase = "running" /\ (Measured(f, opts, todo) \/ Measured(g, opts, todo))

IInv ==
  /\ TypeOK
  /\ Filed(pod, command) /\ Filed(laptop, command)
  /\ Underway
  /\ Together

LEMMA OutcomesAre ==
  ASSUME NEW step \in RunSteps, NEW o \in Options, NEW old \in Entry, NEW by \in Nat,
         commit \in Commits, NEW out \in Outcomes(step, o, old, by)
  PROVE  /\ out.file \in Entry
         /\ \/ out.file = old
            \/ out.file = Truncated
            \/ \E ok \in BOOLEAN : out.file = Result(step, ok, o, commit, by)
         /\ out.exit = 0 => out.file = Good(step, o, commit, by)
  <1> DEFINE failed == [file |-> Result(step, FALSE, o, commit, by), exit |-> 1]
             kept == [file |-> old, exit |-> 2]
             killed == [file |-> Truncated, exit |-> 137]
             good == [file |-> Good(step, o, commit, by), exit |-> 0]
  <1>1. out = failed \/ out = kept \/ out = killed \/ out = good
    BY DEF Outcomes, Good
  <1>2. \A ok \in BOOLEAN : Result(step, ok, o, commit, by) \in Entry
    BY ResultTyping DEF Entry
  <1>3. CASE out = failed
    <2>1. out.file = Result(step, FALSE, o, commit, by) /\ out.exit = 1
      BY <1>3
    <2>2. PICK ok \in BOOLEAN : ok = FALSE
      OBVIOUS
    <2>3. out.file = Result(step, ok, o, commit, by)
      BY <2>1, <2>2, Zenon
    <2>4. out.file \in Entry
      BY <1>2, <2>3
    <2>5. out.exit # 0
      BY <2>1
    <2> QED BY <2>3, <2>4, <2>5, Zenon
  <1>4. CASE out = kept
    BY <1>4
  <1>5. CASE out = killed
    BY <1>5 DEF Entry
  <1>6. CASE out = good
    <2>1. PICK ok \in BOOLEAN : ok = TRUE
      OBVIOUS
    <2>2. out.file = Good(step, o, commit, by)
      BY <1>6
    <2>3. out.file = Result(step, ok, o, commit, by)
      BY <2>1, <2>2, Zenon DEF Good
    <2> QED BY <1>2, <2>2, <2>3
  <1> QED BY <1>1, <1>3, <1>4, <1>5, <1>6

LEMMA FileTyping ==
  ASSUME NEW step \in RunSteps
  PROVE  File(step) \in Files /\ File(step)[1] = step.config /\ File(step)[2] = step.tag
  BY DEF File, Files, RunSteps

(* A run leaves results/ in order, whatever became of it.                  *)
LEMMA FiledAfterRun ==
  ASSUME NEW step \in RunSteps, step.config = "baseline" => step.tag \in MainTags,
         NEW o \in Options, NEW dir \in [Files -> Entry], NEW last \in Nat, NEW by \in Nat,
         last <= by, Filed(dir, last), commit \in Commits,
         NEW out \in Outcomes(step, o, dir[File(step)], by)
  PROVE  /\ [dir EXCEPT ![File(step)] = out.file] \in [Files -> Entry]
         /\ Filed([dir EXCEPT ![File(step)] = out.file], by)
  <1> DEFINE old == dir[File(step)]
             new == [dir EXCEPT ![File(step)] = out.file]
  <1>1. File(step) \in Files /\ File(step)[1] = step.config /\ File(step)[2] = step.tag
    BY FileTyping
  <1>2. old \in Entry
    BY <1>1
  <1>3. /\ out.file \in Entry
        /\ \/ out.file = old
           \/ out.file = Truncated
           \/ \E ok \in BOOLEAN : out.file = Result(step, ok, o, commit, by)
    <2> HIDE DEF old
    <2>1. out \in Outcomes(step, o, old, by)
      BY DEF old
    <2> QED BY <1>2, <2>1, OutcomesAre
  <1>4. new \in [Files -> Entry]
    BY <1>3
  <1>5. ASSUME NEW f \in Files, new[f] \in Results
        PROVE  /\ new[f].config = f[1] /\ new[f].tag = f[2]
               /\ new[f].by <= by
               /\ f[1] = "baseline" => f[2] \in MainTags
    <2>1. CASE new[f] = dir[f]
      <3>1. dir[f].by <= last /\ dir[f].by \in Nat
        BY <1>5, <2>1 DEF Filed, Results
      <3>2. dir[f].by <= by
        BY <3>1
      <3> QED BY <1>5, <2>1, <3>2 DEF Filed
    <2>2. CASE f = File(step) /\ new[f] # dir[f]
      <3>1. new[f] = out.file
        BY <1>1, <2>2
      <3>2. out.file # Truncated
        BY <1>5, <3>1, SuiteAssumption
      <3>3. PICK ok \in BOOLEAN : out.file = Result(step, ok, o, commit, by)
        BY <1>3, <2>2, <3>1, <3>2
      <3>4. new[f].config = step.config /\ new[f].tag = step.tag /\ new[f].by = by
        BY <3>1, <3>3, ResultTyping
      <3> QED BY <1>1, <2>2, <3>4
    <2>3. f # File(step) => new[f] = dir[f]
      OBVIOUS
    <2> QED BY <2>1, <2>2, <2>3
  <1> QED BY <1>4, <1>5 DEF Filed

(* A fresh clone: the published results, all of command 0.                 *)
LEMMA PublishedIs ==
  /\ Published \in [Files -> Entry]
  /\ Filed(Published, 0)
  /\ \A f \in Files : Published[f] \in Results => Published[f].by = 0
  /\ \A f \in Files : Published[f] \in Results => VerdictHolds(Published[f])
  <1> DEFINE o == CHOOSE o \in Options : \A p \in Options : p.repeats <= o.repeats
             first == CHOOSE c \in Commits : TRUE
             of(f) == CHOOSE n \in 1..Len(RunsOf(o)) : File(RunsOf(o)[n]) = f
  <1>1. o \in Options
    <2>1. \A p \in Options : p.repeats \in 0..3
      BY OptionTyping
    <2>2. \E x \in Options : \A p \in Options : p.repeats <= x.repeats
      <3>1. CASE \E x \in Options : x.repeats = 3
        BY <2>1, <3>1
      <3>2. CASE (\A p \in Options : p.repeats # 3) /\ \E x \in Options : x.repeats = 2
        BY <2>1, <3>2
      <3>3. CASE (\A p \in Options : p.repeats # 3 /\ p.repeats # 2) /\ \E x \in Options : x.repeats = 1
        BY <2>1, <3>3
      <3>4. CASE \A p \in Options : p.repeats # 3 /\ p.repeats # 2 /\ p.repeats # 1
        <4>1. PICK x \in Options : TRUE
          BY SuiteAssumption
        <4>2. \A p \in Options : p.repeats = 0
          BY <2>1, <3>4
        <4> QED BY <4>1, <4>2
      <3> QED BY <3>1, <3>2, <3>3, <3>4
    <2> QED BY <2>2
  <1>2. first \in Commits
    BY SuiteAssumption
  <1> HIDE DEF o, first
  <1>3. \A f \in Files :
          \/ Published[f] = NoFile
          \/ \E n \in 1..Len(RunsOf(o)) : /\ File(RunsOf(o)[n]) = f
                                          /\ Published[f] = Good(RunsOf(o)[n], o, first, 0)
    <2> TAKE f \in Files
    <2>1. CASE \E n \in 1..Len(RunsOf(o)) : File(RunsOf(o)[n]) = f
      <3>1. of(f) \in 1..Len(RunsOf(o)) /\ File(RunsOf(o)[of(f)]) = f
        BY <2>1
      <3>2. Published[f] = Good(RunsOf(o)[of(f)], o, first, 0)
        BY <2>1 DEF Published, Good, o, first
      <3> HIDE DEF of
      <3> QED BY <3>1, <3>2
    <2>2. CASE ~ \E n \in 1..Len(RunsOf(o)) : File(RunsOf(o)[n]) = f
      BY <2>2 DEF Published, o, first
    <2> QED BY <2>1, <2>2
  <1>4. ASSUME NEW f \in Files
        PROVE  /\ Published[f] \in Entry
               /\ Published[f] \in Results =>
                    /\ Published[f].config = f[1] /\ Published[f].tag = f[2]
                    /\ Published[f].by = 0
                    /\ f[1] = "baseline" => f[2] \in MainTags
                    /\ VerdictHolds(Published[f])
    <2>1. CASE Published[f] = NoFile
      BY <2>1, SuiteAssumption DEF Entry
    <2>2. CASE \E n \in 1..Len(RunsOf(o)) : /\ File(RunsOf(o)[n]) = f
                                            /\ Published[f] = Good(RunsOf(o)[n], o, first, 0)
      <3> PICK n \in 1..Len(RunsOf(o)) : /\ File(RunsOf(o)[n]) = f
                                         /\ Published[f] = Good(RunsOf(o)[n], o, first, 0)
        BY <2>2
      <3> DEFINE step == RunsOf(o)[n]
      <3>1. /\ step \in RunSteps /\ step.sizing # "ratio"
            /\ step.config = "baseline" => step.tag \in MainTags
        BY <1>1, RunsFacts
      <3>2. f[1] = step.config /\ f[2] = step.tag
        BY <3>1, FileTyping
      <3> HIDE DEF step
      <3>3. Published[f] = Good(step, o, first, 0)
        BY DEF step
      <3>4. /\ Published[f] \in Results /\ Published[f].config = step.config
            /\ Published[f].tag = step.tag /\ Published[f].by = 0
        <4>1. PICK by \in Nat : by = 0
          OBVIOUS
        <4>2. /\ Good(step, o, first, by) \in Results
              /\ Good(step, o, first, by).config = step.config
              /\ Good(step, o, first, by).tag = step.tag
              /\ Good(step, o, first, by).by = by
          BY <1>1, <1>2, <3>1, GoodResult
        <4> QED BY <3>3, <4>1, <4>2
      <3>5. VerdictHolds(Published[f])
        BY <1>1, <3>1, <3>3, ResultVerdict DEF Good
      <3> QED BY <3>1, <3>2, <3>4, <3>5 DEF Entry
    <2> QED BY <1>3, <2>1, <2>2
  <1>5. Published \in [Files -> Entry]
    <2>1. DOMAIN Published = Files /\ Published = [f \in Files |-> Published[f]]
      BY DEF Published
    <2> QED BY <1>4, <2>1
  <1> QED BY <1>4, <1>5 DEF Filed

(* The step that is due.                                                   *)
LEMMA HeadOfPlan ==
  ASSUME IInv, phase = "running", todo # <<>>
  PROVE  LET past == Past(Plan(opts), todo)
         IN  /\ past \in Nat /\ past + 1 \in 1..Len(Plan(opts))
             /\ Head(todo) = Plan(opts)[past + 1]
             /\ Head(todo).kind = "run" => IsRun(opts, past + 1) /\ Head(todo) \in RunSteps
             /\ Tail(todo) \in Seq(Steps)
             /\ Len(Tail(todo)) = Len(todo) - 1
             /\ \A i \in 1..Len(Tail(todo)) : Tail(todo)[i] = Plan(opts)[past + 1 + i]
             /\ Past(Plan(opts), Tail(todo)) = past + 1
  <1> DEFINE plan == Plan(opts)
             past == Past(plan, todo)
  <1>1. todo \in Seq(Steps) /\ opts \in Options
    BY DEF IInv, TypeOK
  <1>2. plan \in Seq(Steps) /\ Len(plan) \in Nat
    BY <1>1, PlanFacts
  <1>3. /\ Head(todo) = todo[1] /\ Len(todo) \in Nat \ {0}
        /\ Tail(todo) \in Seq(Steps) /\ Len(Tail(todo)) = Len(todo) - 1
        /\ \A i \in 1..Len(Tail(todo)) : Tail(todo)[i] = todo[i + 1]
    BY <1>1, HeadTailProperties, EmptySeq
  <1>4. Len(todo) <= Len(plan) /\ \A i \in 1..Len(todo) : todo[i] = plan[past + i]
    BY DEF IInv, Underway
  <1>5. past \in Nat /\ past + 1 \in 1..Len(plan) /\ past = Len(plan) - Len(todo)
    <2> HIDE DEF plan
    <2> QED BY <1>2, <1>3, <1>4 DEF Past
  <1>6. Head(todo) = plan[past + 1]
    BY <1>3, <1>4
  <1>7. Head(todo).kind = "run" => IsRun(opts, past + 1) /\ Head(todo) \in RunSteps
    <2>1. Head(todo).kind = "run" => IsRun(opts, past + 1)
      BY <1>6 DEF IsRun
    <2> HIDE DEF past
    <2> QED BY <1>1, <1>5, <1>6, <2>1, PlanFacts
  <1>8. Past(plan, Tail(todo)) = past + 1
    <2> HIDE DEF plan
    <2> QED BY <1>2, <1>3, <1>5 DEF Past
  <1>9. ASSUME NEW i \in 1..Len(Tail(todo))
        PROVE  Tail(todo)[i] = plan[past + 1 + i]
    <2>1. i + 1 \in 1..Len(todo) /\ past + (i + 1) = past + 1 + i
      <3> HIDE DEF plan, past
      <3> QED BY <1>3, <1>5
    <2> QED BY <1>3, <1>4, <2>1
  <1> QED BY <1>3, <1>5, <1>6, <1>7, <1>8, <1>9

LEMMA MeasuredGrows ==
  ASSUME NEW f, NEW o, NEW left, NEW less, Past(Plan(o), left) \in Int,
         Past(Plan(o), less) = Past(Plan(o), left) + 1,
         Measured(f, o, left)
  PROVE  Measured(f, o, less)
  BY DEF Measured

LEMMA InitIInv ==
  ASSUME Init
  PROVE  IInv
  <1>1. /\ pod = Published /\ laptop = [f \in Files |-> NoFile] /\ phase = "idle"
        /\ command = 0 /\ todo = <<>>
    BY DEF Init
  <1>2. TypeOK
    <2>1. (CHOOSE c \in Commits : TRUE) \in Commits
      BY SuiteAssumption
    <2>2. laptop \in [Files -> Entry]
      BY <1>1 DEF Entry
    <2>3. todo \in Seq(Steps)
      BY <1>1
    <2> QED BY <1>1, <2>1, <2>2, <2>3, PublishedIs DEF Init, TypeOK
  <1>3. Filed(pod, command)
    BY <1>1, PublishedIs
  <1>4. Filed(laptop, command)
    BY <1>1, SuiteAssumption DEF Filed
  <1>5. Underway
    BY <1>1 DEF Underway
  <1>6. Together
    BY <1>1, PublishedIs DEF Together
  <1> QED BY <1>2, <1>3, <1>4, <1>5, <1>6 DEF IInv

(* Before its first step a script has measured nothing.                    *)
LEMMA InvokeIInv ==
  ASSUME IInv, NEW o \in Options, Invoke(o)
  PROVE  IInv'
  <1>1. /\ phase' = "running" /\ opts' = o /\ todo' = Plan(o) /\ provenance' = commit
        /\ command' = command + 1 /\ pod' = pod /\ laptop' = laptop /\ commit' = commit /\ whole' = whole
        /\ phase # "running"
    BY DEF Invoke
  <1>2. Plan(o) \in Seq(Steps) /\ Len(Plan(o)) \in Nat
    BY PlanFacts
  <1>3. TypeOK'
    BY <1>1, <1>2 DEF IInv, TypeOK
  <1>4. \A f \in Files : pod[f] \in Results => pod[f].by \in Nat /\ pod[f].by <= command
    BY DEF IInv, Filed, Results
  <1>5. \A f \in Files : laptop[f] \in Results => laptop[f].by \in Nat /\ laptop[f].by <= command
    BY DEF IInv, Filed, Results
  <1>6. command \in Nat /\ command' = command + 1
    BY <1>1 DEF IInv, TypeOK
  <1>7. Filed(pod', command')
    BY <1>1, <1>4, <1>6 DEF IInv, Filed
  <1>8. Filed(laptop', command')
    BY <1>1, <1>5, <1>6 DEF IInv, Filed
  <1>9. Underway'
    <2>1. Past(Plan(o), Plan(o)) = 0
      BY <1>2 DEF Past
    <2>2. \A f \in Files : ~(pod'[f] \in Results /\ pod'[f].by = command')
      BY <1>1, <1>4, <1>6
    <2> QED BY <1>1, <1>2, <2>1, <2>2 DEF Underway
  <1>10. Together'
    BY <1>1 DEF IInv, Together
  <1> QED BY <1>3, <1>7, <1>8, <1>9, <1>10 DEF IInv, Filed

(* A step that ends the script leaves nothing to claim.                    *)
LEMMA AbortIInv ==
  ASSUME phase' = "aborted", whole' = FALSE
  PROVE  Underway' /\ Together'
  BY DEF Underway, Together

LEMMA CheckStepIInv ==
  ASSUME IInv, CheckStep
  PROVE  IInv'
  <1>1. /\ phase = "running" /\ todo # <<>> /\ Head(todo).kind # "run"
        /\ UNCHANGED <<pod, laptop, opts, commit, provenance, command>>
    BY DEF CheckStep
  <1> DEFINE plan == Plan(opts)
             past == Past(plan, todo)
  <1>2. /\ past \in Nat /\ past + 1 \in 1..Len(plan)
        /\ Head(todo) = plan[past + 1]
        /\ Tail(todo) \in Seq(Steps) /\ Len(Tail(todo)) = Len(todo) - 1
        /\ \A i \in 1..Len(Tail(todo)) : Tail(todo)[i] = plan[past + 1 + i]
        /\ Past(plan, Tail(todo)) = past + 1
    BY <1>1, HeadOfPlan
  <1>3. Filed(pod', command') /\ Filed(laptop', command')
    BY <1>1 DEF IInv
  <1>4. CASE todo' = Tail(todo) /\ UNCHANGED <<phase, whole>>
    <2>1. TypeOK'
      BY <1>1, <1>2, <1>4 DEF IInv, TypeOK
    <2>2. ~IsRun(opts, past + 1)
      BY <1>1, <1>2 DEF IsRun
    <2>3. \A f \in Files : Measured(f, opts, todo) => Measured(f, opts, Tail(todo))
      BY <1>2, MeasuredGrows
    <2>4. Underway'
      <3>1. /\ Len(todo) \in Nat /\ Len(plan) \in Nat /\ Len(todo) <= Len(plan)
        <4>1. todo \in Seq(Steps) /\ opts \in Options
          BY DEF IInv, TypeOK
        <4> QED BY <1>1, <4>1, PlanFacts, LenProperties DEF IInv, Underway
      <3>2. Len(Tail(todo)) <= Len(plan)
        <4> HIDE DEF plan
        <4> QED BY <1>2, <3>1
      <3>3. \A j \in 1..past + 1 : IsRun(opts, j) => j \in 1..past
        <4> HIDE DEF past
        <4> QED BY <1>2, <2>2
      <3>4. \A j \in 1..past : IsRun(opts, j) =>
              pod[File(plan[j])] = Good(plan[j], opts, provenance, command)
        BY <1>1 DEF IInv, Underway
      <3>5. \A f \in Files : pod[f] \in Results /\ pod[f].by = command => Measured(f, opts, todo)
        BY <1>1 DEF IInv, Underway
      <3>6. provenance = commit
        BY <1>1 DEF IInv, Underway
      <3> HIDE DEF past, plan
      <3>7. \A j \in 1..Past(plan, Tail(todo)) : IsRun(opts, j) =>
              pod[File(plan[j])] = Good(plan[j], opts, provenance, command)
        BY <1>2, <3>3, <3>4
      <3>8. \A i \in 1..Len(Tail(todo)) : Tail(todo)[i] = plan[Past(plan, Tail(todo)) + i]
        BY <1>2
      <3> QED BY <1>1, <1>4, <2>3, <3>2, <3>5, <3>6, <3>7, <3>8 DEF Underway, plan
    <2>5. Together'
      BY <1>1, <1>4, <2>3 DEF IInv, Together
    <2> QED BY <1>3, <2>1, <2>4, <2>5 DEF IInv, Filed
  <1>5. CASE phase' = "aborted" /\ todo' = <<>> /\ whole' = FALSE
    <2>1. todo' \in Seq(Steps)
      BY <1>5
    <2>2. TypeOK'
      BY <1>1, <1>5, <2>1 DEF IInv, TypeOK
    <2> QED BY <1>3, <1>5, <2>2, AbortIInv DEF IInv, Filed
  <1> QED BY <1>4, <1>5 DEF CheckStep, Advance

LEMMA RunStepIInv ==
  ASSUME IInv, RunStep
  PROVE  IInv'
  <1> DEFINE plan == Plan(opts)
             past == Past(plan, todo)
             step == Head(todo)
  <1>1. /\ phase = "running" /\ todo # <<>> /\ step.kind = "run"
        /\ UNCHANGED <<laptop, opts, commit, provenance, command>>
    BY DEF RunStep
  <1>2. PICK out \in Outcomes(step, opts, pod[File(step)], command) :
          pod' = [pod EXCEPT ![File(step)] = out.file] /\ Advance(out.exit)
    BY DEF RunStep
  <1>3. /\ past \in Nat /\ past + 1 \in 1..Len(plan)
        /\ step = plan[past + 1] /\ IsRun(opts, past + 1) /\ step \in RunSteps
        /\ Tail(todo) \in Seq(Steps) /\ Len(Tail(todo)) = Len(todo) - 1
        /\ \A i \in 1..Len(Tail(todo)) : Tail(todo)[i] = plan[past + 1 + i]
        /\ Past(plan, Tail(todo)) = past + 1
    BY <1>1, HeadOfPlan
  <1>4. /\ opts \in Options /\ commit \in Commits /\ command \in Nat
        /\ pod \in [Files -> Entry] /\ File(step) \in Files
    BY <1>3, FileTyping DEF IInv, TypeOK
  <1>5. Len(plan) \in Nat /\ (step.config = "baseline" => step.tag \in MainTags)
    BY <1>3, <1>4, PlanFacts
  <1> HIDE DEF step
  <1>6. pod' \in [Files -> Entry] /\ Filed(pod', command)
    <2>1. Filed(pod, command) /\ command <= command
      BY <1>4 DEF IInv
    <2> QED BY <1>2, <1>3, <1>4, <1>5, <2>1, FiledAfterRun
  <1>7. Filed(pod', command') /\ Filed(laptop', command')
    BY <1>1, <1>6 DEF IInv
  <1>8. CASE out.exit = 0
    <2>1. todo' = Tail(todo) /\ UNCHANGED <<phase, whole>>
      BY <1>2, <1>8 DEF Advance
    <2>2. TypeOK'
      BY <1>1, <1>3, <1>6, <2>1 DEF IInv, TypeOK
    <2>3. out.file = Good(step, opts, commit, command)
      <3>1. pod[File(step)] \in Entry
        BY <1>4
      <3> QED BY <1>2, <1>3, <1>4, <1>8, <3>1, OutcomesAre
    <2>4. provenance = commit
      BY <1>1 DEF IInv, Underway
    <2>5. \A j \in 1..past + 1 : IsRun(opts, j) =>
            pod'[File(plan[j])] = Good(plan[j], opts, provenance, command)
      <3> TAKE j \in 1..past + 1
      <3> HAVE IsRun(opts, j)
      <3>1. CASE j = past + 1
        BY <1>2, <1>3, <1>4, <2>3, <2>4, <3>1
      <3>2. CASE j # past + 1
        <4>1. j \in 1..past /\ j \in 1..Len(plan) /\ past + 1 \in 1..Len(plan)
          <5> HIDE DEF past, plan
          <5> QED BY <1>3, <1>5, <3>2
        <4>2. pod[File(plan[j])] = Good(plan[j], opts, provenance, command)
          BY <1>1, <4>1 DEF IInv, Underway
        <4>3. File(plan[j]) # File(step)
          <5>1. File(plan[j]) = File(plan[past + 1]) => j = past + 1
            BY <1>3, <1>4, <4>1, PlanFacts
          <5> QED BY <1>3, <3>2, <5>1
        <4>4. File(plan[j]) \in Files
          BY <1>4, <4>1, PlanFacts, FileTyping
        <4> QED BY <1>2, <1>4, <4>2, <4>3, <4>4
      <3> QED BY <3>1, <3>2
    <2>6. \A f \in Files : Measured(f, opts, todo) => Measured(f, opts, Tail(todo))
      BY <1>3, MeasuredGrows
    <2>7. Measured(File(step), opts, Tail(todo))
      <3>1. past + 1 \in 1..past + 1
        <4> HIDE DEF past
        <4> QED BY <1>3
      <3> QED BY <1>3, <3>1 DEF Measured
    <2>8. Underway'
      <3>1. /\ Len(todo) \in Nat /\ Len(todo) <= Len(plan)
        <4>1. todo \in Seq(Steps)
          BY DEF IInv, TypeOK
        <4> QED BY <1>1, <4>1, LenProperties DEF IInv, Underway
      <3>2. Len(Tail(todo)) <= Len(plan)
        <4> HIDE DEF plan
        <4> QED BY <1>3, <1>5, <3>1
      <3>3. \A f \in Files : pod'[f] \in Results /\ pod'[f].by = command => Measured(f, opts, Tail(todo))
        <4> TAKE f \in Files
        <4>1. CASE f = File(step)
          BY <2>7, <4>1
        <4>2. CASE f # File(step)
          <5>1. pod'[f] = pod[f]
            BY <1>2, <1>4, <4>2
          <5>2. pod[f] \in Results /\ pod[f].by = command => Measured(f, opts, todo)
            BY <1>1 DEF IInv, Underway
          <5> QED BY <2>6, <5>1, <5>2
        <4> QED BY <4>1, <4>2
      <3> HIDE DEF past, plan
      <3>4. \A j \in 1..Past(plan, Tail(todo)) : IsRun(opts, j) =>
              pod'[File(plan[j])] = Good(plan[j], opts, provenance, command)
        BY <1>3, <2>5
      <3>5. \A i \in 1..Len(Tail(todo)) : Tail(todo)[i] = plan[Past(plan, Tail(todo)) + i]
        BY <1>3
      <3> QED BY <1>1, <2>1, <2>4, <3>2, <3>3, <3>4, <3>5 DEF Underway, plan
    <2>9. Together'
      <3> SUFFICES ASSUME whole, NEW f \in Files, NEW g \in Files,
                          f[2] = g[2], pod'[f] \in Results, pod'[g] \in Results
                   PROVE  \/ pod'[f].by = pod'[g].by
                          \/ Measured(f, opts, Tail(todo)) \/ Measured(g, opts, Tail(todo))
        BY <1>1, <2>1 DEF Together
      <3>1. CASE f = File(step) \/ g = File(step)
        BY <2>7, <3>1
      <3>2. CASE f # File(step) /\ g # File(step)
        <4>1. pod'[f] = pod[f] /\ pod'[g] = pod[g]
          BY <1>2, <1>4, <3>2
        <4> QED BY <2>6, <4>1 DEF IInv, Together
      <3> QED BY <3>1, <3>2
    <2> QED BY <1>7, <2>2, <2>8, <2>9 DEF IInv, Filed
  <1>9. CASE out.exit # 0
    <2>1. phase' = "aborted" /\ todo' = <<>> /\ whole' = FALSE
      BY <1>2, <1>9 DEF Advance
    <2>2. todo' \in Seq(Steps)
      BY <2>1
    <2>3. TypeOK'
      BY <1>1, <1>6, <2>1, <2>2 DEF IInv, TypeOK
    <2> QED BY <1>7, <2>1, <2>3, AbortIInv DEF IInv, Filed
  <1> QED BY <1>8, <1>9

(* When the last step is over, every sweep the call has touched is whole.  *)
LEMMA AllMeasured ==
  ASSUME IInv, phase \in {"running", "done"}, todo = <<>>,
         NEW f \in Files, NEW g \in Files, f[2] = g[2],
         pod[f] \in Results, pod[g] \in Results, Measured(f, opts, todo)
  PROVE  pod[f].by = command /\ pod[g].by = command
  <1> DEFINE plan == Plan(opts)
  <1>1. opts \in Options /\ provenance \in Commits /\ command \in Nat
    BY DEF IInv, TypeOK
  <1>2. plan \in Seq(Steps) /\ Len(plan) \in Nat /\ Past(plan, todo) = Len(plan)
    <2>1. plan \in Seq(Steps) /\ Len(plan) \in Nat
      BY <1>1, PlanFacts
    <2> HIDE DEF plan
    <2>2. Len(todo) = 0
      BY EmptySeq
    <2> QED BY <2>1, <2>2 DEF Past
  <1>3. ASSUME NEW h \in Files, NEW i \in 1..Len(plan), IsRun(opts, i), File(plan[i]) = h
        PROVE  pod[h].by = command
    <2>1. plan[i] \in RunSteps
      BY <1>1, <1>3, PlanFacts
    <2>2. pod[h] = Good(plan[i], opts, provenance, command)
      BY <1>2, <1>3 DEF IInv, Underway
    <2> QED BY <1>1, <2>1, <2>2, GoodResult
  <1>4. PICK j \in 1..Len(plan) : IsRun(opts, j) /\ File(plan[j]) = f
    BY <1>2 DEF Measured
  <1>5. g[1] \in Configs /\ g = <<g[1], g[2]>>
    BY DEF Files
  <1>6. plan[j] \in RunSteps /\ plan[j].tag = g[2]
    BY <1>1, <1>4, PlanFacts, FileTyping
  <1>7. g[1] = "baseline" => plan[j].tag \in MainTags
    BY <1>6 DEF IInv, Filed
  <1>8. PICK i \in 1..Len(plan) : IsRun(opts, i) /\ File(plan[i]) = g
    <2> DEFINE c == g[1]
    <2>1. c \in Configs /\ (c = "baseline" => plan[j].tag \in MainTags) /\ g = <<c, plan[j].tag>>
      BY <1>5, <1>6, <1>7
    <2> HIDE DEF c
    <2>2. \E i \in 1..Len(plan) : IsRun(opts, i) /\ File(plan[i]) = <<c, plan[j].tag>>
      BY <1>1, <1>4, <2>1, PlanFacts
    <2> QED BY <2>1, <2>2
  <1> QED BY <1>3, <1>4, <1>8

LEMMA FinishIInv ==
  ASSUME IInv, Finish
  PROVE  IInv'
  <1>1. /\ phase = "running" /\ todo = <<>> /\ phase' = "done"
        /\ UNCHANGED <<pod, laptop, opts, todo, commit, provenance, command, whole>>
    BY DEF Finish
  <1>2. TypeOK'
    BY <1>1 DEF IInv, TypeOK
  <1>3. Filed(pod', command') /\ Filed(laptop', command')
    BY <1>1 DEF IInv
  <1>4. Underway'
    BY <1>1 DEF IInv, Underway
  <1>5. Together'
    <2> SUFFICES ASSUME whole, NEW f \in Files, NEW g \in Files,
                        f[2] = g[2], pod[f] \in Results, pod[g] \in Results
                 PROVE  pod[f].by = pod[g].by
      BY <1>1 DEF Together
    <2>1. \/ pod[f].by = pod[g].by
          \/ Measured(f, opts, todo) \/ Measured(g, opts, todo)
      BY DEF IInv, Together
    <2> QED BY <1>1, <2>1, AllMeasured
  <1> QED BY <1>2, <1>3, <1>4, <1>5 DEF IInv, Filed

LEMMA RerunIInv ==
  ASSUME IInv, NEW step \in Reruns, Rerun(step)
  PROVE  IInv'
  <1>1. /\ phase' = "idle" /\ whole' = FALSE /\ command' = command + 1
        /\ UNCHANGED <<laptop, opts, todo, commit, provenance>>
    BY DEF Rerun
  <1>2. PICK out \in Outcomes(step, opts, pod[File(step)], command + 1) :
          pod' = [pod EXCEPT ![File(step)] = out.file]
    BY DEF Rerun
  <1>3. step \in RunSteps /\ (step.config = "baseline" => step.tag \in MainTags)
    BY SuiteAssumption
  <1>4. /\ opts \in Options /\ commit \in Commits /\ command \in Nat /\ pod \in [Files -> Entry]
        /\ Filed(pod, command) /\ Filed(laptop, command)
    BY DEF IInv, TypeOK
  <1>5. command + 1 \in Nat /\ command <= command + 1
    BY <1>4
  <1> DEFINE next == command + 1
  <1>6. pod' \in [Files -> Entry] /\ Filed(pod', next)
    <2>1. next \in Nat /\ command <= next /\ out \in Outcomes(step, opts, pod[File(step)], next)
      BY <1>2, <1>5
    <2> HIDE DEF next
    <2> QED BY <1>2, <1>3, <1>4, <2>1, FiledAfterRun
  <1>7. Filed(laptop', command')
    <2>1. \A f \in Files : laptop[f] \in Results => laptop[f].by \in Nat /\ laptop[f].by <= command
      BY <1>4 DEF Filed, Results
    <2> QED BY <1>1, <1>4, <2>1 DEF Filed
  <1>8. Filed(pod', command')
    BY <1>1, <1>6
  <1>9. TypeOK'
    BY <1>1, <1>5, <1>6 DEF IInv, TypeOK
  <1>10. Underway' /\ Together'
    BY <1>1 DEF Underway, Together
  <1> QED BY <1>7, <1>8, <1>9, <1>10 DEF IInv, Filed

LEMMA CheckoutIInv ==
  ASSUME IInv, NEW c \in Commits, Checkout(c)
  PROVE  IInv'
  <1>1. /\ phase # "running" /\ commit' = c
        /\ UNCHANGED <<pod, laptop, phase, opts, todo, provenance, command, whole>>
    BY DEF Checkout
  <1>2. TypeOK'
    BY <1>1 DEF IInv, TypeOK
  <1>3. Underway' /\ Together'
    BY <1>1 DEF IInv, Underway, Together
  <1> QED BY <1>1, <1>2, <1>3 DEF IInv, Filed

LEMMA NewPodIInv ==
  ASSUME IInv, NewPod
  PROVE  IInv'
  <1>1. /\ pod' = Published /\ phase' = "idle" /\ todo' = <<>>
        /\ provenance' = (CHOOSE c \in Commits : TRUE) /\ whole' = TRUE
        /\ UNCHANGED <<laptop, opts, commit, command>>
    BY DEF NewPod
  <1>2. todo' \in Seq(Steps) /\ provenance' \in Commits
    BY <1>1, SuiteAssumption
  <1>3. TypeOK'
    BY <1>1, <1>2, PublishedIs DEF IInv, TypeOK
  <1>4. Filed(pod', command')
    <2>1. command \in Nat /\ 0 <= command
      BY DEF IInv, TypeOK
    <2> QED BY <1>1, <2>1, PublishedIs DEF Filed
  <1>5. Filed(laptop', command')
    BY <1>1 DEF IInv
  <1>6. Underway'
    BY <1>1 DEF Underway
  <1>7. Together'
    BY <1>1, PublishedIs DEF Together
  <1> QED BY <1>3, <1>4, <1>5, <1>6, <1>7 DEF IInv, Filed

LEMMA PullIInv ==
  ASSUME IInv, Pull
  PROVE  IInv'
  <1>1. /\ laptop' = Copied(pod, laptop)
        /\ UNCHANGED <<pod, phase, opts, todo, commit, provenance, command, whole>>
    BY DEF Pull
  <1>2. pod \in [Files -> Entry] /\ laptop \in [Files -> Entry]
    BY DEF IInv, TypeOK
  <1>3. laptop' \in [Files -> Entry]
    BY <1>1, <1>2 DEF Copied
  <1>4. TypeOK'
    BY <1>1, <1>3 DEF IInv, TypeOK
  <1>5. \A f \in Files : laptop'[f] = pod[f] \/ laptop'[f] = laptop[f]
    BY <1>1 DEF Copied
  <1>6. Filed(laptop', command')
    BY <1>1, <1>5 DEF IInv, Filed
  <1>7. Underway' /\ Together'
    BY <1>1 DEF IInv, Underway, Together
  <1> QED BY <1>1, <1>4, <1>6, <1>7 DEF IInv, Filed

LEMMA StutterIInv ==
  ASSUME IInv, UNCHANGED vars
  PROVE  IInv'
  <1>1. UNCHANGED <<pod, laptop, phase, opts, todo, commit, provenance, command, whole>>
    BY DEF vars
  <1>2. TypeOK' /\ Underway' /\ Together'
    BY <1>1 DEF IInv, TypeOK, Underway, Together
  <1> QED BY <1>1, <1>2 DEF IInv, Filed

LEMMA Inductive ==
  Spec => []IInv
  <1>1. Init => IInv
    BY InitIInv
  <1>2. IInv /\ [Next]_vars => IInv'
    BY InvokeIInv, CheckStepIInv, RunStepIInv, FinishIInv, RerunIInv, CheckoutIInv,
       NewPodIInv, PullIInv, StutterIInv DEF Next
  <1> QED BY <1>1, <1>2, PTL DEF Spec

-----------------------------------------------------------------------------
(* What analyse.py reports                                                 *)

(* The sweep of a tag is the results under that tag, by configuration.     *)
LEMMA SweepIs ==
  ASSUME NEW dir \in [Files -> Entry], NEW last, Filed(dir, last), NEW tag \in Tags
  PROVE  /\ DOMAIN Sweep(dir, tag) = {c \in Configs : dir[<<c, tag>>] \in Results}
         /\ \A c \in DOMAIN Sweep(dir, tag) : Sweep(dir, tag)[c] = dir[<<c, tag>>]
  <1> DEFINE runs == {r \in LoadRuns(dir) : r.tag = tag}
  <1>1. \A f \in Files : dir[f] \notin {NoFile, Truncated} <=> dir[f] \in Results
    BY SuiteAssumption DEF Entry
  <1>2. LoadRuns(dir) = {dir[f] : f \in {g \in Files : dir[g] \in Results}}
    BY <1>1 DEF LoadRuns
  <1>3. \A r \in runs : r.config \in Configs /\ <<r.config, tag>> \in Files
                        /\ r = dir[<<r.config, tag>>] /\ r \in Results
    <2> TAKE r \in runs
    <2>1. PICK f \in Files : dir[f] \in Results /\ r = dir[f]
      BY <1>2
    <2>2. r.config = f[1] /\ r.tag = f[2] /\ r.tag = tag /\ f = <<f[1], f[2]>> /\ f[1] \in Configs
      BY <2>1 DEF Filed, Files
    <2> QED BY <2>1, <2>2
  <1>4. \A c \in Configs : dir[<<c, tag>>] \in Results =>
          dir[<<c, tag>>] \in runs /\ dir[<<c, tag>>].config = c
    <2> TAKE c \in Configs
    <2> HAVE dir[<<c, tag>>] \in Results
    <2> DEFINE f == <<c, tag>>
    <2>1. f \in Files /\ f[1] = c /\ f[2] = tag /\ dir[f] \in Results
      BY DEF Files
    <2> HIDE DEF f
    <2>2. dir[f].config = c /\ dir[f].tag = tag /\ dir[f] \in LoadRuns(dir)
      BY <1>2, <2>1 DEF Filed
    <2> QED BY <2>2 DEF f
  <1> HIDE DEF runs
  <1>5. Sweep(dir, tag) = [c \in {r.config : r \in runs} |-> CHOOSE r \in runs : r.config = c]
    BY DEF Sweep, runs
  <1>6. {r.config : r \in runs} = {c \in Configs : dir[<<c, tag>>] \in Results}
    BY <1>3, <1>4
  <1>7. \A c \in {r.config : r \in runs} : (CHOOSE r \in runs : r.config = c) = dir[<<c, tag>>]
    <2> TAKE c \in {r.config : r \in runs}
    <2> DEFINE chosen == CHOOSE r \in runs : r.config = c
    <2>1. chosen \in runs /\ chosen.config = c
      OBVIOUS
    <2> HIDE DEF chosen
    <2>2. chosen = dir[<<c, tag>>]
      BY <1>3, <2>1
    <2> QED BY <2>2 DEF chosen
  <1> QED BY <1>5, <1>6, <1>7

(* After DONE, the results of the call are those of its measurements.      *)
LEMMA DoneFiles ==
  ASSUME IInv, phase = "done"
  PROVE  /\ \A n \in 1..Len(RunsOf(opts)) :
              pod[File(RunsOf(opts)[n])] = Good(RunsOf(opts)[n], opts, provenance, command)
         /\ \A f \in Files : pod[f] \in Results /\ pod[f].by = command =>
              \E n \in 1..Len(RunsOf(opts)) : File(RunsOf(opts)[n]) = f
  <1> DEFINE plan == Plan(opts)
  <1>1. opts \in Options /\ todo = <<>>
    BY DEF IInv, TypeOK, Underway
  <1>2. Len(plan) \in Nat /\ Past(plan, todo) = Len(plan)
    <2>1. Len(plan) \in Nat
      BY <1>1, PlanFacts
    <2>2. Len(todo) = 0
      BY <1>1, EmptySeq
    <2> HIDE DEF plan
    <2> QED BY <2>1, <2>2 DEF Past
  <1>3. \A j \in 1..Len(plan) : IsRun(opts, j) =>
          pod[File(plan[j])] = Good(plan[j], opts, provenance, command)
    BY <1>2 DEF IInv, Underway
  <1>4. ASSUME NEW n \in 1..Len(RunsOf(opts))
        PROVE  pod[File(RunsOf(opts)[n])] = Good(RunsOf(opts)[n], opts, provenance, command)
    <2>1. /\ Offset(opts) + n \in 1..Len(plan) /\ IsRun(opts, Offset(opts) + n)
          /\ plan[Offset(opts) + n] = RunsOf(opts)[n]
      BY <1>1, PlanShape
    <2> QED BY <1>3, <2>1
  <1>5. ASSUME NEW f \in Files, pod[f] \in Results, pod[f].by = command
        PROVE  \E n \in 1..Len(RunsOf(opts)) : File(RunsOf(opts)[n]) = f
    <2>1. Measured(f, opts, todo)
      BY <1>5 DEF IInv, Underway
    <2>2. PICK j \in 1..Len(plan) : IsRun(opts, j) /\ File(plan[j]) = f
      BY <1>2, <2>1 DEF Measured
    <2>3. j - Offset(opts) \in 1..Len(RunsOf(opts)) /\ plan[j] = RunsOf(opts)[j - Offset(opts)]
      BY <1>1, <2>2, PlanShape
    <2> QED BY <2>2, <2>3
  <1> QED BY <1>4, <1>5

(* A directory with all results of a call reports them, and nothing else   *)
(* beside them.                                                            *)
LEMMA ReportsThem ==
  ASSUME NEW dir \in [Files -> Entry], NEW last, Filed(dir, last),
         opts \in Options, provenance \in Commits, command \in Nat,
         \A n \in 1..Len(RunsOf(opts)) :
           dir[File(RunsOf(opts)[n])] = Good(RunsOf(opts)[n], opts, provenance, command)
  PROVE  Reports(dir)
  <1> SUFFICES ASSUME NEW n \in 1..Len(RunsOf(opts))
               PROVE  LET step == RunsOf(opts)[n]
                          sweep == Sweep(dir, step.tag)
                      IN  /\ step.config \in DOMAIN sweep
                          /\ sweep[step.config].ok
                          /\ sweep[step.config].by = command
                          /\ sweep[step.config].sha = provenance
                          /\ ~Warned(sweep)
    BY DEF Reports
  <1> DEFINE step == RunsOf(opts)[n]
             sweep == Sweep(dir, step.tag)
  <1>1. step \in RunSteps /\ step.tag \in Tags /\ step.config \in Configs
    BY RunsFacts DEF RunSteps
  <1>2. /\ DOMAIN sweep = {c \in Configs : dir[<<c, step.tag>>] \in Results}
        /\ \A c \in DOMAIN sweep : sweep[c] = dir[<<c, step.tag>>]
    <2> HIDE DEF step
    <2> QED BY <1>1, SweepIs
  <1>3. /\ dir[<<step.config, step.tag>>] = Good(step, opts, provenance, command)
        /\ <<step.config, step.tag>> = File(step)
    BY DEF File
  <1>4. /\ Good(step, opts, provenance, command) \in Results
        /\ Good(step, opts, provenance, command).by = command
        /\ Good(step, opts, provenance, command).sha = provenance
    BY <1>1, GoodResult
  <1>5. step.config \in DOMAIN sweep
    <2> HIDE DEF step, sweep
    <2> QED BY <1>1, <1>2, <1>3, <1>4
  <1>6. sweep[step.config] = Good(step, opts, provenance, command)
    BY <1>2, <1>3, <1>5
  <1>7. \A c \in DOMAIN sweep : sweep[c].sha = provenance
    <2> TAKE c \in DOMAIN sweep
    <2> DEFINE f == <<c, step.tag>>
    <2>1. c \in Configs /\ dir[f] \in Results /\ f \in Files
      BY <1>1, <1>2 DEF Files
    <2>2. f[1] = c /\ f[2] = step.tag
      OBVIOUS
    <2>3. c = "baseline" => step.tag \in MainTags
      BY <2>1, <2>2 DEF Filed
    <2>4. PICK m \in 1..Len(RunsOf(opts)) : File(RunsOf(opts)[m]) = <<c, step.tag>>
      BY <2>1, <2>3, RunsFacts
    <2>5. dir[f] = Good(RunsOf(opts)[m], opts, provenance, command)
      BY <2>4
    <2>6. RunsOf(opts)[m] \in RunSteps
      BY RunsFacts
    <2> DEFINE other == RunsOf(opts)[m]
    <2>7. Good(other, opts, provenance, command).sha = provenance
      <3>1. other \in RunSteps
        BY <2>6
      <3> HIDE DEF other
      <3> QED BY <3>1, GoodResult
    <2> QED BY <1>2, <2>5, <2>7
  <1>8. ~Warned(sweep)
    <2> HIDE DEF sweep, step
    <2>1. {sweep[c].sha : c \in DOMAIN sweep} = {provenance}
      BY <1>5, <1>7
    <2>2. Cardinality({provenance}) = 1
      BY FS_Singleton
    <2>3. Warned(sweep) <=> Cardinality({provenance}) > 1
      BY <2>1 DEF Warned
    <2> QED BY <2>2, <2>3
  <1>9. sweep[step.config].ok
    BY <1>6, GoodIsOk
  <1> HIDE DEF step, sweep
  <1>10. sweep[step.config].by = command /\ sweep[step.config].sha = provenance
    BY <1>4, <1>6
  <1> QED BY <1>5, <1>8, <1>9, <1>10 DEF step, sweep

(* The results of a call, one for each of its measurements.                *)
LEMMA DoneCount ==
  ASSUME IInv, phase = "done"
  PROVE  Cardinality({r \in LoadRuns(pod) : r.by = command}) = Len(RunsOf(opts))
  <1> DEFINE L == Len(RunsOf(opts))
             all == {r \in LoadRuns(pod) : r.by = command}
             of(n) == Good(RunsOf(opts)[n], opts, provenance, command)
             F == [n \in 1..L |-> of(n)]
  <1>1. /\ opts \in Options /\ provenance \in Commits /\ command \in Nat /\ L \in Nat
        /\ pod \in [Files -> Entry]
    BY RunsFacts DEF IInv, TypeOK
  <1>2. ASSUME NEW n \in 1..L
        PROVE  of(n) \in all
    <2>1. RunsOf(opts)[n] \in RunSteps
      BY <1>1, RunsFacts
    <2> DEFINE step == RunsOf(opts)[n]
    <2>2. step \in RunSteps /\ pod[File(step)] = of(n)
      BY <2>1, DoneFiles
    <2>3. of(n) \in Results /\ of(n).by = command
      <3>1. of(n) = Good(step, opts, provenance, command)
        OBVIOUS
      <3> HIDE DEF step, of
      <3> QED BY <1>1, <2>2, <3>1, GoodResult
    <2> HIDE DEF step, of
    <2>4. File(step) \in Files
      BY <2>2, FileTyping
    <2>5. of(n) \in LoadRuns(pod)
      BY <2>2, <2>3, <2>4, SuiteAssumption DEF LoadRuns
    <2> QED BY <2>3, <2>5
  <1>3. ASSUME NEW n \in 1..L, NEW m \in 1..L, of(n) = of(m)
        PROVE  n = m
    <2> DEFINE a == RunsOf(opts)[n]
               b == RunsOf(opts)[m]
    <2>1. a \in RunSteps /\ b \in RunSteps
      BY <1>1, RunsFacts
    <2>2. a.config = b.config /\ a.tag = b.tag
      <3>1. Good(a, opts, provenance, command) = Good(b, opts, provenance, command)
        BY <1>3
      <3> HIDE DEF a, b
      <3> QED BY <1>1, <2>1, <3>1, GoodResult
    <2>3. File(a) = File(b)
      BY <2>2 DEF File
    <2> QED BY <1>1, <2>3, RunsFacts
  <1>4. ASSUME NEW r \in all
        PROVE  \E n \in 1..L : of(n) = r
    <2>1. PICK f \in Files : pod[f] \notin {NoFile, Truncated} /\ r = pod[f] /\ r.by = command
      BY DEF LoadRuns
    <2>2. pod[f] \in Results
      BY <1>1, <2>1 DEF Entry
    <2>3. PICK n \in 1..L : File(RunsOf(opts)[n]) = f
      BY <2>1, <2>2, DoneFiles
    <2>4. of(n) = r
      BY <2>1, <2>3, DoneFiles
    <2> QED BY <2>4
  <1> HIDE DEF all, of, L
  <1>5. F \in [1..L -> all]
    BY <1>2
  <1>6. F \in Bijection(1..L, all)
    BY <1>2, <1>3, <1>4, <1>5 DEF Bijection, Injection, Surjection, IsInjective
  <1>7. IsFiniteSet(1..L) /\ Cardinality(1..L) = L
    BY <1>1, FS_Interval
  <1>8. ExistsBijection(1..L, all)
    BY <1>6 DEF ExistsBijection
  <1>9. Cardinality(all) = L
    BY <1>7, <1>8, FS_Bijection
  <1> QED BY <1>9 DEF all, L

LEMMA PulledReports ==
  ASSUME IInv, phase = "done", laptop = Copied(pod, laptop)
  PROVE  Reports(laptop)
  <1>1. /\ opts \in Options /\ provenance \in Commits /\ command \in Nat
        /\ pod \in [Files -> Entry] /\ laptop \in [Files -> Entry] /\ Filed(laptop, command)
    BY DEF IInv, TypeOK
  <1>2. ASSUME NEW n \in 1..Len(RunsOf(opts))
        PROVE  laptop[File(RunsOf(opts)[n])] = Good(RunsOf(opts)[n], opts, provenance, command)
    <2> DEFINE step == RunsOf(opts)[n]
    <2>1. step \in RunSteps
      BY <1>1, RunsFacts
    <2>2. pod[File(step)] = Good(step, opts, provenance, command)
      BY DoneFiles
    <2> HIDE DEF step
    <2>3. pod[File(step)] \in Results /\ File(step) \in Files
      BY <1>1, <2>1, <2>2, GoodResult, FileTyping
    <2>4. pod[File(step)] # NoFile
      BY <2>3, SuiteAssumption
    <2>5. laptop[File(step)] = pod[File(step)]
      <3>1. Copied(pod, laptop)[File(step)] = pod[File(step)]
        BY <2>3, <2>4 DEF Copied
      <3> QED BY <3>1
    <2> QED BY <2>2, <2>5 DEF step
  <1> QED BY <1>1, <1>2, ReportsThem

(* Campaign (reproduce_all.sh, analyse.py): after DONE every measurement   *)
(* of the call is reported, successful, of the recorded commit and paired  *)
(* with nothing else, on the pod and on a laptop that pulled results/; for *)
(* any number of calls, pods and checkouts, and every set of options in    *)
(* which no tag is another one with -r<i> or -exp-a appended.              *)
THEOREM Reported == Spec => []DoneMeansReported
  <1>1. IInv => DoneMeansReported
    <2> SUFFICES ASSUME IInv, phase = "done"
                 PROVE  /\ Cardinality({r \in LoadRuns(pod) : r.by = command}) = Len(RunsOf(opts))
                        /\ Reports(pod)
                        /\ laptop = Copied(pod, laptop) => Reports(laptop)
      BY DEF DoneMeansReported
    <2>1. Reports(pod)
      <3>1. /\ opts \in Options /\ provenance \in Commits /\ command \in Nat
            /\ pod \in [Files -> Entry] /\ Filed(pod, command)
        BY DEF IInv, TypeOK
      <3> QED BY <3>1, DoneFiles, ReportsThem
    <2> QED BY <2>1, DoneCount, PulledReports
  <1> QED BY <1>1, Inductive, PTL

(* Campaign (reproduce_all.sh, analyse.py): on a pod where nothing failed  *)
(* or was run by hand, a comparison never pairs runs of two calls, as long *)
(* as no tag is another one with -r<i> or -exp-a appended.                 *)
THEOREM Whole == Spec => []SweepsAreWhole
  <1>1. IInv => SweepsAreWhole
    <2> SUFFICES ASSUME IInv, whole, phase # "running", NEW tag \in Tags,
                        NEW c \in DOMAIN Sweep(pod, tag), NEW d \in DOMAIN Sweep(pod, tag)
                 PROVE  Sweep(pod, tag)[c].by = Sweep(pod, tag)[d].by
      BY DEF SweepsAreWhole
    <2>1. pod \in [Files -> Entry] /\ Filed(pod, command)
      BY DEF IInv, TypeOK
    <2>2. /\ c \in Configs /\ pod[<<c, tag>>] \in Results
          /\ d \in Configs /\ pod[<<d, tag>>] \in Results
          /\ Sweep(pod, tag)[c] = pod[<<c, tag>>] /\ Sweep(pod, tag)[d] = pod[<<d, tag>>]
      BY <2>1, SweepIs
    <2> DEFINE f == <<c, tag>>
               g == <<d, tag>>
    <2>3. f \in Files /\ g \in Files /\ f[2] = g[2] /\ pod[f] \in Results /\ pod[g] \in Results
      BY <2>2 DEF Files
    <2>4. pod[f].by = pod[g].by
      <3> HIDE DEF f, g
      <3> QED BY <2>3 DEF IInv, Together
    <2> QED BY <2>2, <2>4
  <1> QED BY <1>1, Inductive, PTL

(* The capacity that the result of a run after DONE has.                   *)
LEMMA DoneCapacity ==
  ASSUME IInv, phase = "done", NEW n \in 1..5 + 2 * opts.repeats,
         NEW step, step = RunAt(opts, n), step.config # "baseline"
  PROVE  Sweep(pod, step.tag)[step.config].capacity = PoolOf(step.config, step.sizing, opts)
  <1>1. /\ opts \in Options /\ provenance \in Commits /\ command \in Nat
        /\ pod \in [Files -> Entry] /\ Filed(pod, command)
    BY DEF IInv, TypeOK
  <1>2. n \in 1..Len(RunsOf(opts)) /\ RunsOf(opts)[n] = step
    BY <1>1, RunsShape
  <1>3. step \in RunSteps /\ step.tag \in Tags /\ step.config \in Configs
    BY <1>1, RunAtTyping DEF RunSteps
  <1>4. pod[File(step)] = Good(step, opts, provenance, command) /\ File(step) = <<step.config, step.tag>>
    BY <1>2, DoneFiles DEF File
  <1>5. Good(step, opts, provenance, command) \in Results
    BY <1>1, <1>3, GoodResult
  <1>6. Sweep(pod, step.tag)[step.config] = Good(step, opts, provenance, command)
    <2> DEFINE c == step.config
    <2>1. c \in {d \in Configs : pod[<<d, step.tag>>] \in Results}
      BY <1>3, <1>4, <1>5
    <2> HIDE DEF c
    <2>2. Sweep(pod, step.tag)[c] = pod[<<c, step.tag>>]
      BY <1>1, <1>3, <2>1, SweepIs
    <2> QED BY <1>4, <2>2 DEF c
  <1>7. Good(step, opts, provenance, command).capacity = PoolOf(step.config, step.sizing, opts)
    BY DEF Good, Result
  <1> QED BY <1>6, <1>7

(* Campaign (reproduce_all.sh): Experiment A always compares equal         *)
(* capacities, that of BF16 in Experiment B, where INT8 had more; for      *)
(* every budget of at least two BF16 tokens and every device pool.         *)
THEOREM EqualCapacities == Spec => []EqualSweepIsEqual
  <1>1. IInv => EqualSweepIsEqual
    <2> SUFFICES ASSUME IInv, phase = "done"
                 PROVE  LET a == Sweep(pod, EqualTag(opts))
                            b == Sweep(pod, opts.tag)
                        IN  /\ a["bf16"].capacity = a["int8"].capacity
                            /\ a["bf16"].capacity = b["bf16"].capacity
                            /\ b["bf16"].capacity < b["int8"].capacity
      BY DEF EqualSweepIsEqual
    <2> DEFINE k == 2 * opts.repeats
               a == Sweep(pod, EqualTag(opts))
               b == Sweep(pod, opts.tag)
    <2>1. opts \in Options
      BY DEF IInv, TypeOK
    <2>2. opts.repeats \in 0..3
      BY <2>1, OptionTyping
    <2>3. RunAt(opts, 2) = Run("bf16", opts.tag, "fixed-size")
      BY DEF RunAt
    <2>4. RunAt(opts, 3) = Run("int8", opts.tag, "fixed-size")
      BY DEF RunAt
    <2>5. RunAt(opts, 4 + k) = Run("bf16", EqualTag(opts), "equal-tokens")
      BY <2>2 DEF RunAt
    <2>6. RunAt(opts, 5 + k) = Run("int8", EqualTag(opts), "equal-tokens")
      BY <2>2 DEF RunAt
    <2>7. /\ 2 \in 1..5 + 2 * opts.repeats /\ 3 \in 1..5 + 2 * opts.repeats
          /\ 4 + k \in 1..5 + 2 * opts.repeats /\ 5 + k \in 1..5 + 2 * opts.repeats
      BY <2>2
    <2>8. \A n \in 1..5 + 2 * opts.repeats : \A step :
            step = RunAt(opts, n) /\ step.config # "baseline"
              => Sweep(pod, step.tag)[step.config].capacity = PoolOf(step.config, step.sizing, opts)
      BY DoneCapacity
    <2>9. b["bf16"].capacity = PoolOf("bf16", "fixed-size", opts)
      BY <2>3, <2>7, <2>8 DEF Run
    <2>10. b["int8"].capacity = PoolOf("int8", "fixed-size", opts)
      BY <2>4, <2>7, <2>8 DEF Run
    <2>11. a["bf16"].capacity = PoolOf("bf16", "equal-tokens", opts)
      BY <2>5, <2>7, <2>8 DEF Run
    <2>12. a["int8"].capacity = PoolOf("int8", "equal-tokens", opts)
      BY <2>6, <2>7, <2>8 DEF Run
    <2>13. /\ PoolOf("bf16", "equal-tokens", opts) = Target(opts)
           /\ PoolOf("int8", "equal-tokens", opts) = Target(opts)
      BY <2>1, EqualTokensHonoured DEF Formats
    <2> QED BY <2>1, <2>9, <2>10, <2>11, <2>12, <2>13, TargetIsBf16Pool, FixedPools
  <1> QED BY <1>1, Inductive, PTL

(* Preparation (main, workload_budget): for every budget, the verdict      *)
(* printed before a run is the one that is true of the pools that its      *)
(* arguments build, except when BF16's pool holds the prefixes to the      *)
(* token: there the program says that they exceed it.  Runs started by     *)
(* hand with --sizing ratio are left out: the verdict is not about them.   *)
THEOREM TrueVerdict ==
  ASSUME \A step \in Reruns : step.sizing # "ratio"
  PROVE  Spec => []VerdictIsOfThePools
  <1> DEFINE V == \A f \in Files : pod[f] \in Results => VerdictHolds(pod[f])
  <1>1. Init => V
    BY PublishedIs DEF Init
  <1>2. ASSUME NEW step \in RunSteps, step.sizing # "ratio", NEW by \in Nat, IInv, V,
               NEW out \in Outcomes(step, opts, pod[File(step)], by),
               pod' = [pod EXCEPT ![File(step)] = out.file]
        PROVE  V'
    <2>1. /\ opts \in Options /\ commit \in Commits /\ pod \in [Files -> Entry]
          /\ File(step) \in Files
      BY <1>2, FileTyping DEF IInv, TypeOK
    <2>2. /\ out.file \in Entry
          /\ \/ out.file = pod[File(step)]
             \/ out.file = Truncated
             \/ \E ok \in BOOLEAN : out.file = Result(step, ok, opts, commit, by)
      BY <2>1, OutcomesAre
    <2>3. out.file \in Results => VerdictHolds(out.file)
      <3>1. CASE out.file = pod[File(step)]
        BY <1>2, <2>1, <3>1
      <3>2. CASE out.file = Truncated
        BY <3>2, SuiteAssumption
      <3>3. ASSUME NEW ok \in BOOLEAN, out.file = Result(step, ok, opts, commit, by)
            PROVE  VerdictHolds(out.file)
        BY <1>2, <2>1, <3>3, ResultVerdict
      <3> QED BY <2>2, <3>1, <3>2, <3>3
    <2>4. \A f \in Files : pod'[f] = pod[f] \/ pod'[f] = out.file
      BY <1>2, <2>1
    <2>5. \A f \in Files : pod'[f] \in Results => VerdictHolds(pod'[f])
      BY <1>2, <2>3, <2>4
    <2> QED BY <2>5 DEF VerdictHolds
  <1>3. ASSUME IInv, V, [Next]_vars
        PROVE  V'
    <2>1. CASE RunStep
      <3> DEFINE step == Head(todo)
      <3>1. phase = "running" /\ todo # <<>> /\ step.kind = "run" /\ opts \in Options /\ command \in Nat
        BY <1>3, <2>1 DEF RunStep, IInv, TypeOK
      <3>2. PICK out \in Outcomes(step, opts, pod[File(step)], command) :
              pod' = [pod EXCEPT ![File(step)] = out.file]
        BY <2>1 DEF RunStep
      <3>3. step \in RunSteps /\ step.sizing # "ratio"
        <4> DEFINE j == Past(Plan(opts), todo) + 1
        <4>1. j \in 1..Len(Plan(opts)) /\ step = Plan(opts)[j] /\ IsRun(opts, j)
          BY <1>3, <3>1, HeadOfPlan
        <4> HIDE DEF j, step
        <4> QED BY <3>1, <4>1, PlanFacts
      <3> HIDE DEF step
      <3> QED BY <1>2, <1>3, <3>1, <3>2, <3>3
    <2>2. ASSUME NEW step \in Reruns, Rerun(step)
          PROVE  V'
      <3> DEFINE next == command + 1
      <3>1. PICK out \in Outcomes(step, opts, pod[File(step)], next) :
              pod' = [pod EXCEPT ![File(step)] = out.file]
        BY <2>2 DEF Rerun
      <3>2. next \in Nat /\ step \in RunSteps /\ step.sizing # "ratio"
        BY <1>3, SuiteAssumption DEF IInv, TypeOK
      <3> HIDE DEF next
      <3> QED BY <1>2, <1>3, <3>1, <3>2
    <2>3. CASE NewPod
      BY <2>3, PublishedIs DEF NewPod
    <2>4. CASE UNCHANGED pod
      BY <1>3, <2>4
    <2>5. \/ RunStep \/ (\E step \in Reruns : Rerun(step)) \/ NewPod \/ UNCHANGED pod
      BY <1>3 DEF Next, vars, Invoke, CheckStep, Finish, Checkout, Pull
    <2> QED BY <2>1, <2>2, <2>3, <2>4, <2>5
  <1>4. IInv /\ V => VerdictIsOfThePools
    <2> SUFFICES ASSUME IInv, V, NEW r \in LoadRuns(pod)
                 PROVE  VerdictHolds(r)
      BY DEF VerdictIsOfThePools, VerdictHolds
    <2>1. PICK f \in Files : pod[f] \notin {NoFile, Truncated} /\ r = pod[f]
      BY DEF LoadRuns
    <2>2. pod[f] \in Results
      BY <2>1 DEF IInv, TypeOK, Entry
    <2> QED BY <2>1, <2>2
  <1> HIDE DEF V
  <1> QED BY <1>1, <1>3, <1>4, Inductive, PTL DEF Spec
================================================================================
