# HiQCache: specifications of the codec and of the measurement harness

HiQCache stores the L2 tier of SGLang's hierarchical KV cache (HiCache) as INT8 records instead of BF16
rows.  The repository holds the reference codec, and the scripts that launch SGLang servers, put load on them,
and turn their counters into the published figures.  The fork of SGLang that runs the codec on a GPU lives in
another repository.

Two things can go wrong here that tests hardly reach.  A figure can be about something else than it says: another
server's counters, traffic outside the benchmark, a check that an exception skipped, another call's file, a stale
reference.  And arithmetic at a boundary can lose what it must not lose.  The specifications are about these two.

Contents: [parts](#1-the-parts-of-the-system), [modules](#2-modules), [runs](#3-runs-bounds-and-what-they-show),
[fairness](#4-fairness), [proofs](#5-proofs), [where the code disagrees with its text](#6-where-the-code-disagrees-with-its-text),
[what is not modelled](#7-what-is-not-modelled), [plan](#8-plan).

## 1. The parts of the system

| part | state it keeps | operations | what makes it correct |
| --- | --- | --- | --- |
| `scripts/run_experiment.py` | the server process, two snapshots of `/metrics`, `result`, files in `results/` | launch, wait for `/health`, scrape, flush, benchmark, scrape, terminate, collect the codec timing, write | an `ok` result is about its own server, its own traffic, a pool of the intended size and width; the next run begins with the port free |
| `scripts/smoke_test.py` | a list of `Step`s, two generations, a scrape in between | the seven checks, teardown, verdict | PASS means that all checks were made and saw what they are named for |
| `scripts/quality_compare.py` | per configuration: filler bookkeeping, restore counter, generations | `run_config` twice or three times, `compare` | what is compared was produced by two different pools, and from L2; the scores say what they are named |
| `scripts/replay_trace.py` | one stream per request in a pool of threads, two scrapes, a summary | launch, flush, scrape, send, read, join, summarize, teardown | the summary is consistent with the server's counters and never above the oracle |
| `scripts/export_trace.py`, `scripts/oracle.py` | the trace, a trie, running totals, per-group prefixes | group the requests, walk and insert, gaps, capacity sweep | the hits, the gaps and the fits are what their names say for every trace |
| `src/hiqcache/codec.py`, `src/hiqcache/layout.py` | none (a row in L1 or its record in L2) | scales, quantise, pack, unpack, restore | a record returns what was packed; the error stays in `verified_error_bound`, over any number of round trips |
| `scripts/capacity_table.py`, `capacity_budget`, `workload_budget`, `build_configs` | none | bytes to tokens and back | the proposed bytes or ratio give the pool they are proposed for; the verdict on a workload is true of the pools |
| `scripts/reproduce_all.sh`, `scripts/analyse.py` | `results/` on a pod and its copies | smoke tests, runs and comparison in order, again with other options; read and group | what DONE promises is what is found and compared; a comparison does not mix calls |
| `scripts/conformance.py` | the vector file, the manifests of CPU and CUDA | generate, expect, compare | PASS means that this device makes the reference's bytes of this code's vectors |
| `scripts/preflight.py` | none | yes or no checks | a row is called eligible exactly if the copy kernel takes it |
| `scripts/pod_bootstrap.sh` | two git checkouts on a pod | clone or pull, gates 1 to 4 | the gates pass exactly where CUDA reproduces the commit; running it again is safe |
| `scripts/verify_sglang.sh`, probes, microbenchmark | none | installation, diagnostics, timing | not modelled |

**How they interact.**  A script starts `python -m sglang.launch_server` as a process group and talks to it over HTTP
(`/health`, `/metrics`, `/flush_cache`, `/generate`) and by signals.  All scripts use the same port, one after the
other, so what one leaves behind (a process, the port, a file) is what the next one finds.  `run_experiment.py`
also runs the benchmark as a child process, and reads a file that the INT8 pool writes while its workers tear down.
`export_trace.py` writes what `oracle.py` and `replay_trace.py` read; the last two are compared with each other.
Between machines there are files only: git carries code, vectors and the CPU manifest from a laptop to a pod, where
`pod_bootstrap.sh` runs the gates; `rsync` carries `results/` back, where `analyse.py` reads it.

**What is hard.**  The server may die at any moment, before or after it answered; `/health` does not say whose it
is; SIGTERM may be ignored for longer than the script waits; counters are totals of the process and vanish with it;
exceptions and Ctrl-C leave by different ways (`except Exception` records the first, only `finally` sees the
second); threads overtake each other and a client gives up on a request that the server goes on to serve.  Scripts are
called again after they failed or were killed, and find files of earlier calls, of the published results and of another
commit, which carry no date that anything compares.

## 2. Modules

```
ServerGroup ---- RunExperiment ---- MeasurementSession  (refinement, INSTANCE)
    |                `-- RunExperimentProofs
    |---- SmokeTest ---- SmokeTestProofs
    |---- QualityCompare ---- QualityCompareProofs
    `---- ReplayTrace ---- ReplayTraceProofs
Trace ---- Oracle ---- OracleProofs
  `------- ReplayTrace
AgreementMetrics ---- QualityCompareProofs
RecordLayout ---- Codec ---- CodecProofs
    |---- Sizing ---- Suite ---- SuiteProofs
    `---- Preflight ---- Handoff ---- HandoffProofs
```

* **ServerGroup**: the process group and the port.  `leader`, `workers`, `sig`, `port`, `pool` and `backed` are what
  `poll()`, `wait()`, `killpg()` and a scrape can tell.  `Popen` and `Killpg` are what scripts do; `Ready`,
  `LeaderExits` and `WorkersExit` are the server's own and may happen whenever the operating system allows: the
  leader may die while it loads, while it serves, and after any signal, the workers may outlive it.
* **RunExperiment**: `main()` of `run_experiment.py`, `RunCount` times.  `pc` is the statement `main()` is at,
  `res` its `result`, `files` and `timing` what is on disk.  `wait_for_server` is `PollServer`, `GetHealth`,
  `StartupDeadline`; the body is `ScrapeBefore` to `ScrapeAfter`; `_terminate` is `TerminatePoll` to `WaitKill`;
  `Fail` is the `except Exception`, `Interrupt` is Ctrl-C, anywhere from `Popen` on.  It runs `finally` only if it hits the
  try block: before it, while a `git` child is waited for (`launched`), and after it `main()` just ends.  `traffic` and
  `left`, the runs that such a Ctrl-C ended before their server had exited, are history variables.
* **MeasurementSession**: what the runs promise to their reader, without servers or signals: an ok report is about the
  run's own server or about one of `abandonedServers`.  `ImplementsSession` is the refinement.
* **SmokeTest**: the steps are a function from names to `absent`, `unset`, `pass`, `fail`.  That a `Step` is created
  before the work it judges, or only after it, is kept, since the verdict depends on it.
* **QualityCompare**: `run_config` and what `main()` does between its calls.  The filler's window, its early stop and
  its failure are integers as in the code; which prompts were restored is the server's choice.  A filler request that the client
  gives up may still be served, and load something back, at any time until the server goes (`LateFiller`).
* **AgreementMetrics**: `compare()`, on token lists; a logprob is the position it belongs to.  The two agreements are
  the ratios that are reported, of which 0 of 0 is 0.
* **Trace**: the pure part of `export_trace.py` and `oracle.py`.  A trie is the set of paths from its root.
* **Oracle**: the two loops of `oracle.py` one iteration at a time, then the capacity model.
* **ReplayTrace**: `main()`, a pool of threads and `one_request` on a stream of chunks, beside a server with a prefix
  cache that evicts, prefills and inserts as it likes, keeps its answers with the prompts (`Keeps`), and goes on serving requests
  whose client has gone.  A generated token is any of `Vocabulary`.
* **RecordLayout**, **Codec**: BF16 and INT8 in exact integer arithmetic.  A BF16 number is a multiple of 2^-127, so
  `AMAX_FLOOR` (2^-112) is 2^15 of them; scales are stored as the 16-bit pattern they have in a record.
  `MaxExponent` is where the exponents end: 9 in the run, since TLC's integers have 32 bits, and any up to 247 in the proofs.
* **Sizing**: the arithmetic of `capacity_table.py`, `capacity_budget`, `workload_budget` and of the sizing arguments in
  `build_configs`, on exact integers: a budget is a number of bytes, and a ratio the number of 1/`Scale` units that its
  printed digits stand for (twelve decimals).  The float error of the quotient before it is printed is abstracted.
  `HicacheSize` is what is left of a budget in `--hicache-size`, printed with `:g` and read as an integer of gigabytes.
* **Suite**: a campaign.  `todo` is what `reproduce_all.sh` still has to start, `pod` and `laptop` are the two
  `results/` directories as functions from (configuration, tag) to a result, `NoFile` or `Truncated`.  A run is one
  step with the outcomes that RunExperiment explains: an ok result, a failed one, none, or half a file.  A tag
  is the sequence of the words between its hyphens, so that `-r1` and `-exp-a` are appended as the script appends them.  `Rerun`,
  `Checkout`, `NewPod` and `Pull` are what an operator does between calls.  `LoadRuns` and `Sweep` are `analyse.py`.
* **Preflight**: the eligibility rules of the copy kernels and every fatal check.
* **Handoff**: `laptop`, `head` (what is pushed), `base` and `pod` are working copies and commits: the code's
  version, the vector file, and the manifests of CPU and CUDA.  A tensor is its content and a digest says
  which codec made it of which content, and whether CUDA deviated there.  `Sync` and the three gates are
  `pod_bootstrap.sh`; `Interrupt` kills it and may leave a broken file; `Damage` and `Edit` happen on the laptop.  The
  gates call `conformance.py` as the laptop does (`Written`, `Comparison`).

The MC modules give the constants their values and say in their header what the values are for.

## 3. Runs, bounds, and what they show

| run | asks | bounds |
| --- | --- | --- |
| `run_measure` | does an `ok` result say the truth about traffic, capacity and width? | one run, pools of both widths, of the target capacity and one beside it on either side, or without metrics; 3 backed-up tokens; Ctrl-C anywhere from `Popen` on |
| `run_sequence` | what do two runs do to each other; is each reported; do they implement MeasurementSession? | two runs, two tags, one pool; Ctrl-C likewise |
| `run_same_tag` | whose timing file is read when a tag is used again? (violated, section 6) | two runs, one tag |
| `smoke_test` | is a PASS earned, and is there always a verdict? | pools of right and wrong width and size, 2 backed-up tokens, two texts or none |
| `smoke_abort` | is an aborted test ever a PASS? (violated) | as above, no Ctrl-C |
| `quality` | whose generations are reported, were they restored, does every configuration end? | two configurations, two prompts that overflow L1 (8 tokens) by themselves, or 2 filler requests of 9 tokens where their size was not reported; an L2 of 20 |
| `agreement` | do the scores say what they are named? | every pair of lists of two generations of up to two tokens, logprobs complete, absent, shifted |
| `codec` | are records lossless, errors within the bound, round trips stable? | every absmax of one binade with every smaller BF16 neighbour; headers 0 to 2; blocks that do not fit |
| `oracle` | are hits, gaps, prefixes and fits what they are named? | every 3 requests of up to 3 tokens, every 4 of up to 2, over two tokens; 7 pool sizes |
| `replay` | is the summary consistent with the counters and the oracle, is teardown quiet, does it end? | 2 traces of 3 requests and one of 2, whose second prompt goes on with an answer to the first; 2 threads, 2 tokens per answer |
| `suite` | is what DONE promises what `analyse.py` finds, do sweeps mix calls, is the verdict true of the pools? | 2 measuring commands after the published results, 4 options: two tags that are apart, up to 2 repeats, four budgets; two commits; `Scale` is 10^6, `Gigabyte` 10^5 |
| `handoff` | what do the gates and a PASS prove, do they fail only for a reason, is a re-run safe? | 3 sets of vectors, 2 codecs, 2 forks, CUDA with or without a deviation, 2 edits or damages, 1 push |

**Why these bounds are enough.**  A run only sees its predecessor's leftovers, and `_terminate` treats every run
alike, so the third of three runs meets nothing that the second of two does not; section 5 proves it for any
number of runs.  Counters are only compared with zero or with each other,
two or three tokens show a difference of both signs.  Three requests and two threads are the fewest with one request queued
behind two in flight, of which either may finish first.  A `codec` head scaled by a power of two has its scale and
its restoration scaled by the same, so one binade stands for every one above the floor (section 5 proves it for all); below the floor there are
samples.  Two elements per head suffice because an element meets the others only through their maximum.

In `suite` the published results are the files of a first command, so two more give three generations of files;
four budgets put the workload (6 tokens) below both capacities (7 and 13), at the smaller (6 and 10), between them (5 and 9) and above
both (3 and 5), so all verdicts are printed.  The tags are `b` and `b-r3`; `b` makes `b-r1` and `b-r2` of itself.
`Scale` is 10^6 in the run since TLC's integers have 32 bits; the theorem has no such limit.  In `handoff` one push
gives two commits, enough for a pod to be behind, and two edits give a change of the code and the damage of a file, on either
side of it.  In `quality` one answered filler request is enough to evict L1, so of the two at most one may fail: with an answer, without one, and
with one that comes late.

`CHECK_DEADLOCK FALSE` is in every configuration but those of `suite` and `handoff`: the programs end, and a script that has
written its report is to stop.  The operators of the last two never do.

Type invariants are checked (and proved) for the two longest scripts, RunExperiment and SmokeTest, where they say
which exceptions can leave the try block.  In the other modules the range of a variable is stated where it is declared.

## 4. Fairness

Safety properties are checked without any.  For the four liveness properties:

* **RunExperiment**: weak fairness of `MainStep` (the interpreter goes on), strong fairness of `StartupDeadline`: the loop
  of `wait_for_server` visits its deadline check again and again and the clock passes the deadline however it is
  interleaved with polls.  There is none on the benchmark, `subprocess.run` has no timeout there
  (`run_experiment.py:668`), and `LaunchedRunIsReported` makes an exception of a benchmark that never returns.  None on
  the server: it may hang for ever, loading, serving or dying.
* **SmokeTest**, **QualityCompare**: weak fairness of `MainStep \/ Abort` and `MainStep \/ Raise`: every request has a
  timeout and startup a deadline, so where no step of `main()` is possible, an exception is.
* **ReplayTrace**: weak fairness of `MainStep`, of `GiveUp` (every request has `request_timeout`), and of the death of a
  process that got SIGKILL.

## 5. Proofs

TLAPS checks these for every value of the constants that the modules' assumptions admit (the theorem modules
list the lemmas).

| theorem | says |
| --- | --- |
| `RunExperimentProofs!Typing`, `SmokeTestProofs!Typing` | `TypeOK` of the two scripts.  It includes that an exception in the try block goes nowhere but to `finally`. |
| `RunExperimentProofs!OwnServer` | `[]OkMeasuresOwnServer` for any number of runs and any pools, if no foreign server has the port at the start; Ctrl-C may hit anywhere, and servers that one outside the try block left behind are the exception |
| `RunExperimentProofs!Refinement` | under the same assumption the runs implement MeasurementSession |
| `RunExperimentProofs!CleanLaunch` | `LaunchAfterTeardown` for any number of runs, wherever Ctrl-C hits |
| `RunExperimentProofs!OwnTraffic` | `DeltaIsBenchTraffic` for any traffic, without a foreign server and as long as no Ctrl-C has left one behind (`left = {}`) |
| `RunExperimentProofs!TargetCapacity` | `EqualTokensHonoured` for any target and any pools, likewise |
| `RunExperimentProofs!EncodedPool` | `PassMeansEncoded` for any traffic, likewise, for widths that the check's tolerance tells apart |
| `RunExperimentProofs!OwnTiming` | `[]TimingIsOwn` for any number of runs and whichever servers answer, if no two INT8 runs have one tag |
| `SmokeTestProofs!EarnedPass` | `[]PassIsEarned` for any pools, widths and texts |
| `QualityCompareProofs!OwnGenerations`, `RestoredGenerations` | `[]ReportsOwnServer` and `[]ReportsARestore` for any prompts, pools and filler, with two configurations or three; the second excepts configurations in which a filler request failed |
| `QualityCompareProofs!VerdictsCoincide`, `SameToken` | `[]PerfectScoresCoincide` and `[]DeltasCompareTheSameToken` for any number of prompts and generations of any lengths, none included, of token ids and positions in Nat |
| `ReplayTraceProofs!QuietTeardown` | `[]NoRequestDuringTeardown` for every trace and any number of threads |
| `ReplayTraceProofs!IdealBound` | `[]OracleIsUpperBound`, likewise, whatever the cache evicts and the model answers: hits beyond the oracle are continuations of earlier prompts |
| `ReplayTraceProofs!Counters`, `CompleteGaps`, `FailuresReported` | `[]CountersCoverTheRequests`, `[]GapsCoverTheAnswer` and `[]FailedRequestsAreReported`, likewise |
| `OracleProofs!LongestPrefix` | `[]HitIsLongestPrefix` for every trace of any length |
| `OracleProofs!SharedPrefix`, `GapGrowth` | `[]SharedPrefixIsCommon` and `[]GapIsGrowth`, likewise |
| `OracleProofs!BestCase` | `[]FitIsBestCase` for every trace and any pool sizes |
| `CodecProofs!PackUnpack` | unpacking a packed record gives the payload and the scales back, for every constructible layout, every accepted geometry, all values |
| `CodecProofs!SlicesDisjoint` | payload and scale slices of all heads lie behind the header, inside the row, pairwise disjoint |
| `CodecProofs!Lossless`, `ErrorBound`, `FullScale`, `Idempotent` | `[]RecordIsLossless`, `[]WithinVerifiedBound`, `[]FullScaleIsReached` and `NoDrift` for every layout, geometry and row of BF16 numbers, and any number of round trips |
| `SuiteProofs!EqualTokensExact` | the ratio printed for a target gives at least the target and less than a page more, for every target, page size and device pool below 10^12 tokens |
| `SuiteProofs!BudgetIsExceededByAPage` | a pool sized in bytes exceeds its budget, by at most one page |
| `SuiteProofs!EqualTokensHonoured` | in equal-tokens runs both formats get exactly the target, for every budget and device pool |
| `SuiteProofs!Reported`, `Whole` | `[]DoneMeansReported` and `[]SweepsAreWhole` for any options whose tags are apart (`TagsApart`), and any number of calls, pods, checkouts and runs by hand |
| `SuiteProofs!EqualCapacities` | `[]EqualSweepIsEqual` for any budget and device pool |
| `SuiteProofs!TrueVerdict` | `[]VerdictIsOfThePools` for any workload, if nobody runs with `--sizing ratio` by hand; at the edge, where BF16 holds the prefixes to the token, it says that the program prints DISCRIMINATING although both pools hold them (both in section 6) |
| `HandoffProofs!AlignedRows` | for every row size: eligible on CUDA exactly if aligned, aligned implies eligible on ROCm |
| `HandoffProofs!GatesReproduce`, `PassReproduces` | `[]GatesMeanReproduced` and `[]PassMeansReproduced` for any vectors, codecs, forks, hardware, and any number of edits, pushes and pods |
| `HandoffProofs!NoAlarm`, `GateThree`, `Rerun` | `[]NoFalseAlarm`, `GateThreeIsConclusive` and `RerunPasses`, likewise |

**OwnServer.**  `OkMeasuresOwnServer` speaks of files, and is not inductive.  `OthersQuiet` adds what matters while a run is
going on: every other server was signalled, has exited, or has not been launched, so none of them answers, or it is in `left`.  It is
preserved by `TerminatePoll` and the signals because `main()` leaves the teardown only after the leader exited or the
group was signalled, or by a Ctrl-C, which is what puts a server into `left`.  So does a Ctrl-C between `Popen` and
`try`.  `ResultOwn` carries it into the snapshots of
`res`, `FilesInOrder` says that nothing is written for runs to come.  That a signalled group answers no more is
ServerGroup's `Answers`: SGLang drains on SIGTERM.

**Refinement.**  The status of a run follows from `run`, `pc` and its file, and `abandonedServers` is `left`.  Of all actions only `Launch`, `Refuse`,
`Interrupt`, `WriteResult`, the end of the teardown and `NextRun` can move it; the rest are shown to stutter
by one lemma (`SessionUnmoved`).  `WriteResult` needs `OkMeasuresOwnServer'` to be the `Report` of an own server.

**CleanLaunch.**  `TornDown`: the leader of every run that is over has exited, was warned about, or is in `left`, and nothing is
launched ahead of its run.  Independent of whose server answers, so it does not need the free port.

**OwnTraffic, TargetCapacity.**  On top of OwnServer's invariant, `TrafficCounted`: between the two scrapes the counter of
the run's server, while it lives, is the first snapshot plus the history variable; and `CapacityKept`: the pool of a
server that was ready once does not change (`SettledStays`), so what `ScrapeBefore` accepted is what the result is about.
Where a Ctrl-C has left a server behind, these figures may be the other server's, and nothing is claimed.

**EncodedPool.**  `WidthKept`: the bytes of the first snapshot are its tokens times the width of this run's pool, so the quotient
that `check_bytes_per_token` takes is that width.  The 2% tolerance would let a pool of a
nearby width pass, so `WidthsApart` is a hypothesis: of the widths a pool may have, only the encoded one is that close.
1 152 and 2 304 bytes are a factor of two apart.

**OwnTiming.**  `TimingKept`: a timing file, if there is one, is that of the only INT8 run with its stem.  Nothing is said about
servers, since a file's name decides.  Without `TagsDistinct` it is false (`run_same_tag`).

**OwnGenerations, RestoredGenerations.**  `Alone`: the group of an earlier configuration has exited or was signalled, that of
a later one does not exist, so whoever answers is the current one.  `Finally` signals the group, and a Ctrl-C that prevents it also ends
`main()`: no configuration follows.  `Collected`: the generations so far are by that server, and if its restore counter is above the scrape
before the resend, one of them was restored or a filler request had been given up (`gaveUp`).  Without such a request nothing is `late`,
and the generations are all that can move the counter.

**VerdictsCoincide, SameToken.**  Two lists have at most as many matches as the longer one has tokens, and as many only if
they are equal (`MatchesScore`); so `Tallied`, which says of the prompts so far what the property says of all of them, is
inductive.  Where `token_total` is 0 the sequences are all equal and the token agreement is 0 all the same; hence the condition in the property.  `common` counts positions while a delta names one: the common positions are closed downwards, so there are k of them
only if the k-th is one (`CommonIsPrefix`), which `WithinAgreement` records for each delta.  The names of AgreementMetrics are
apart from QualityCompare's, so one proof module extends both.

**QuietTeardown.**  `OpenInPool`: requests are in flight only while `main()` is in the with block.  Ctrl-C is the step
that matters: it cancels what is queued but stays in the block until the open ones are done.

**IdealBound.**  Every token of a trace is a hit of the oracle or a node of its trie, so the bound says: the served
requests miss at least as many tokens as the served prompts have nodes.  `Bounded` is the inductive form: what the cache holds, with the prompts of
failed requests, is no more than what the answered and the failed requests missed.  A prefill that two threads make of one prompt at once is counted
twice and cached once, and an eviction only makes the cache smaller.
The cache also holds answers, beneath whole prompts.  A row can hit one only where its own prompt goes on from another's: `Continuations` are
these nodes of the trie.  `Bounded` counts the nodes that are not beneath a whole row (`Within`), and the property adds the
number of those that are; a second row through the same node is the oracle's hit as well.  Prompts are assumed not to be empty, as the benchmark's are.

**Counters, CompleteGaps, FailuresReported.**  `Following` says how far client and server are with each request, and `RowsOK`
that the gaps of a row are what its stream has brought so far.  On top of it, `Accounting`: `Unsent` and `Phases` relate the futures
to `pc`, `Covered` says that the counter is the tokens of all prompts that the server has prefilled since the first scrape,
`Reported` that the summary is about the rows, and `Blamed` what an exception in the summary can be due to.

**EarnedPass.**  `Order` says which steps exist at which `pc`, `Chain` that the next step
exists once one is recorded, `Witness` what a recorded pass saw, `Judged` that the verdict follows from the steps.  A PASS after the capacity
check therefore has all seven: an abort leaves a step `unset`.  The one exception, an abort before that check, is
`smoke_abort`.

**LongestPrefix.**  `TrieIsPrefixes` (the trie is the set of prefixes of what was walked) and `Walked` (each hit is the
walk of the trie before it).  The walk ends at the longest common prefix with some earlier request because the trie holds
nothing else.

**GapGrowth.**  A request adds as many nodes to the trie as it does not hit: those of its prefixes that are longer than the hit.  With that
`Distance` and `Distances` follow `u` and `last_index` through the second loop.

**SharedPrefix.**  `Grouped` and `PerGroupOf`: a group is the set of its requests, and the loop over its other members leaves the longest
prefix common to all so far.  Every member but the first finds it in the trie that the members before it have left.

**BestCase.**  An exchange argument: if smallest-first stops at a set of groups, any other set that fits has as many groups outside it
at most as it leaves out, since each of those it leaves out is no larger than each of those beyond.  Monotonicity in the pool follows.
`SetToSortSeq` is opaque to the provers, so the order is an operator of Oracle (`InOrder`) that is only known to be one.

**Sums.**  ReplayTrace and Oracle add over finite sets, and the library's induction over finite sets takes an operator as a parameter.  The lemmas
about `SumX` take a smallest set that is a counterexample instead: strict inclusion of finite sets is well-founded
(`FS_StrictSubsetOrderingWellFounded`, `WFMin`).  They are in both proof modules, each of which stands on its own.

**Lossless, ErrorBound, FullScale, Idempotent.**  The invariant is short: a row is the first row or its one round trip
(`Stable`), and its record is that of the row (`Stored`).  It is inductive because a second round trip changes nothing, and that is
arithmetic.  Half to even is off by half at most, and an integer less than half away is the one that is rounded to
(`HalfOff`, `Nearest`); the same holds of BF16, half a ulp being a 256th of the number.  An absmax is 128 a p for a
significand a and a power of two p; its scale is (a + 1) p or (a + 2) p (`PeakScale`), so 127 scales are rounded back to it
(`PeakRestored`), except for a = 255, which becomes the next power of two and shares its scale.  All other elements go
back to the integer they came from (`ElementRestored`), since a scale is at least 129 units and the rounding of BF16 moves
none by half a scale.  Powers of two are a recursive function: that there is one is shown on the smallest exponent without it (`Pow2Is`).
Assumed: the elements are BF16 numbers of exponents below `MaxExponent`, which is at most BF16's 247.  The last exponent is
left to the carry of 255, since an absmax of significand 255 with that exponent would be restored as infinity.

**EqualTokensExact.**  `IsEqualTokensRatio` says that the ratio is within half a unit of (target - 1/2) / device.
Multiplied by a device pool smaller than `Scale` the error is less than half a token, so the product lies strictly
between target - 1 and target; `HostKVCache` truncates it and adds its page.  The theorem takes the ratio as a number
that satisfies the predicate, which is what `f"{...:.12f}"` prints if the float quotient is close enough.

**Reported, Whole, EqualCapacities, TrueVerdict.**  One inductive invariant serves the four.  `Filed`: a result is in the file named after its run.  `Underway`:
of the plan, everything before `todo` is on the pod as it should be, and nothing else there is of this call; it rests on a lemma that a plan
has no two runs of one file.  `Together`: where nothing failed, a sweep mixes two calls only while the later one is measuring it.  Three assumptions are needed.  A budget
is a whole number of gigabytes with room for two BF16 tokens, since `--hicache-size` takes nothing else.  A baseline run repeated by hand goes to the tag
of a main sweep, the only one for which the scripts and the runbook measure a baseline.  And tags are apart (`TagsApart`): no tag is what the script appends
to another; otherwise two calls share files, and both properties fail (section 6).  The verdict printed and the one true of the pools agree by
arithmetic except where BF16 holds the prefixes to the token, and the property says what is printed there.

**GatesReproduce, PassReproduces.**  `OkIsEqual`: two manifests that `compare()` passes are equal, since it compares the
sets of names, then inputs, then outputs.  `WrittenIs`: after generating, the vector file is current whatever it was, so the
manifest is that of fresh vectors.  The invariant `OnPod` says that the pod's code and reference are those of its commit, and what each gate
has found: `git pull` is the step that matters, as it replaces only files that the new commit changed; code and
reference are equal to the old commit's before it, so they are equal to the new one's after it.

**NoAlarm, GateThree, Rerun.**  On top of `OnPod`, `Found` keeps what gates 1 and 2 saw until gate 3 reads it, so that a missing or
broken reference cannot get there; `History` relates `gated` (the last commit and fork that passed) to what is pushed and to the pod.  That vectors are finitely many, and some, is assumed.

**Only model-checked**: liveness (`LaunchedRunIsReported` and the end of the other scripts), as TLAPS proves nothing about
ENABLED, which fairness is made of.

## 6. Where the code disagrees with its text

Two runs are expected to be violated; each checks a sentence of the repository that the code does not keep.

* `run_same_tag`: `run_experiment.py:733-734` explains a missing timing file by a killed pool.  A tag used a second time
  reads the first run's file instead, since nothing removes it.
* `smoke_abort`: `smoke_test.py:533-536` says that an exception may not end in a PASS.  If the scrape between the boot
  step and the capacity step raises, it does: there is one step, and it succeeded.

Smaller observations, not checked by a run of their own:

* `quality_compare.py:223` says that an empty capture must not read as a perfect match.  For a single prompt beside others
  it does (`:296`); only an empty total is caught.  Of nothing captured at all the token agreement is 0 and the sequence agreement 1
  (`:337-338`), which is why `main()` looks at `tokens_compared` first.
* `codec.py:45-47` says that a head below the floor is restored as zeros.  One just below it is restored almost exactly (255
  units come back as 258).
* `workload_budget` provides for "no fixed host budget, cannot predict" (`run_experiment.py:288-289`), but `--host-size` has a
  default: with `--sizing ratio` the verdict printed is about that budget and not about the pool.  `VerdictIsOfThePools` is
  checked, and proved, for the sizings that `reproduce_all.sh` and the runbook use.
* `workload_budget` prints DISCRIMINATING also for prefixes of exactly the BF16 capacity, with the sentence that they "exceed the BF16 L2"
  and "BF16 must evict" (`run_experiment.py:301-305`), while that pool holds them.  `VerdictIsOfThePools` states this case, which
  `suite` reaches with the budget of 800000 bytes.
* `reproduce_all.sh:80` and `:102` append `-r1` and `-exp-a` to `TAG`.  After `TAG=exp-b`, a call with `TAG=exp-b-r1` measures into the files of
  the first repeat: a finished call's sweep is mixed with another's.  Without `TagsApart` and with these two tags TLC finds
  `DoneMeansReported` and `SweepsAreWhole` violated.
* Ctrl-C between `Popen` (`run_experiment.py:604`) and `try` (`:627`), while `_git_sha` waits for `git`, ends `main()` with the detached
  server running and nothing said, and so does one in the teardown.  The next run's `/health` may be answered by it; `OkMeasuresOwnServer` and
  `LaunchAfterTeardown` except such runs (`left`) by name.
* `quality_compare.py:714-716` says of the generations that they come from L2.  A filler request that timed out (`:477-478`) may be served
  after the scrape of `:534`, and its load-back alone passes the check of `:561`.  `ReportsARestore` excepts configurations in which one failed.
* `oracle.py:343` calls its figure an upper bound and omits the completions, as it says.  SGLang caches those too, so a row that goes on from an earlier
  prompt and its answer hits more than the oracle has; `OracleIsUpperBound` adds exactly those positions.
* `pod_bootstrap.sh:4` calls itself idempotent and safe to re-run.  `RerunPasses` shows it for a commit that passed.  When the
  pod's CUDA manifest was copied back and pushed and the pod has another one by then, or a repaired vector file is pushed,
  `git pull --ff-only` refuses (`CanPull`).  `HICACHE_REF` has to be a branch: on a tag the pull fails.
* `test_committed_cpu_manifest_matches_a_fresh_cpu_run` compares inputs only, so a reference of an older codec passes gate 1 and is found
  by gate 3; `test_committed_vector_file_is_stable` repairs the file it tests and cannot fail on a stale one.
* A FAIL of `conformance.py` blames the codec also when inputs or sets of vectors differ; `--json` and `--expect` with
  one name compare a manifest with itself; another layout or a violated bound only adds a message (`conformance.py:332`).
* `page_size % 1 == 0` in `tma_eligible` is always true, and `default_unroll` never changes what is eligible on CUDA
  (`AlignedRows`).
* `rsync` from a new pod puts the published results over newer ones on the laptop; one tag with another `HOST_SIZE` pairs
  results of both in `analyse.py`, which only compares the SGLang commits.
* With `ForeignServer = TRUE`, `OkMeasuresOwnServer` fails: `/health` answers for whoever owns the port.
* `_terminate` does not signal the group of a leader that died by itself; its workers may outlive it.
* `quality_compare.py` and `replay_trace.py` do not wait after SIGKILL, against which `run_experiment.py:759-762`
  argues.  `ReportsOwnServer` holds all the same: a launch that finds the port taken fails.
* One restored prompt admits all of them in `quality_compare.py`; `skip_filler` counts a shared preamble once per prompt;
  a logprob that is missing in the middle shifts those behind it.
* The clamp to 127 that `docs/design.md:97-99` calls mathematically required never changes a value: the quotient of
  the absmax is at most 127.496 and is rounded to 127 first (`FullScaleIsReached`).  `docs/hicache-internals.md:459` and
  `:698` expect loss to accumulate over repeated cycles; `NoDrift` shows that a row is stable after the first.
* `oracle.py:403` and `docs/theory.md:110` call `(P-1)/P x prefix share` the best possible hit rate.  It is what a group
  reaches at least (second part of `SharedPrefixIsCommon`): two of three requests may share more than all three do.
* The docstring of `fit_groups` promises a largest-first count that its caller does not compute; the
  largest-first figure is for as many prefixes as fit smallest-first, and may exceed the pool.
* An error that the server streams with status 200 counts as a success in `replay_trace.py`, and a group of nothing
  else raises in the summary (`FailedRequestsAreReported` is exactly up to that case).
* `replay_trace.py:378-379` provide for a result without a summary, which does not get there: what prevents the
  summary also leaves `main()`.

## 7. What is not modelled

* SGLang, its prefix cache and the fork's GPU pool: other repositories.  Their interface is external in ServerGroup and
  ReplayTrace, and does everything the scripts must cope with.
* The generator of the conformance vectors (int64 bit arithmetic, a content here) and the matching of source text inside
  `check_fork_source` (one of five states); checks of `preflight.py` that only warn.
* The tables `analyse.py` and `capacity_table.py` print, and the regular expressions over the benchmark's report.
* Gate 4 of `pod_bootstrap.sh`: the script only prints the command; SmokeTest has it.
* Percentiles, rates, tables, wording, argument parsing; the tokenizer and the workload generator.
* `microbench_codec.py`, the probes, the installation of packages, `verify_sglang.sh`: timing and I/O without logic of their own.
* NaN, infinities and strided tensors in the codec; float32 is modelled where it decides a rounding.
* Ctrl-C between `Popen` and `try` in `smoke_test.py`, `quality_compare.py` and `replay_trace.py`: there is an assignment or a dictionary between
  the two there and no child process, and nothing is measured afterwards in that process.
* Budgets that are no whole number of gigabytes: `--hicache-size` is an integer of SGLang's, which refuses the printed fraction.
* A second Ctrl-C while `replay_trace.py` joins its threads.

## 8. Plan

1. Done: all modules of section 2, with their runs; the theorems of section 5.
2. Model next, if anything: the serving figures that `analyse.py` derives from the benchmark's report.
