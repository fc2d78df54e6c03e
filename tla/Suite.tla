--------------------------------- MODULE Suite ---------------------------------
(***************************************************************************)
(* A measurement campaign: scripts/reproduce_all.sh starts run_experiment  *)
(* once per configuration and tag on a pod, every run leaves one file in   *)
(* results/, the operator copies the directory to a laptop, and            *)
(* scripts/analyse.py compares what it finds there, sweep by sweep.  A run *)
(* itself is one step here (module RunExperiment has its inside); what     *)
(* matters is which files of which command lie beside each other.          *)
(***************************************************************************)
EXTENDS Sizing, Sequences, FiniteSets

CONSTANTS
  NoFile, Truncated,   \* a file that is not there; one whose writer was killed
  Words,               \* what stands between the hyphens of a tag
  Options,             \* how reproduce_all.sh may be called
  Reruns,              \* single runs the runbook repeats by hand
  Commits,             \* what the SGLang checkout of the pod may be at
  Device,              \* --max-total-tokens
  PrefixTokens,        \* --num-groups * --gsp-prefix-len
  MaxCommands          \* bound: commands that measure, over all pods

Configs == {"baseline", "bf16", "int8"}
(* A tag is the sequence of the words between its hyphens: exp-b-r1 is     *)
(* <<"exp", "b", "r1">>, and appending -r1 to a tag appends a word.        *)
RepeatSuffix == <<"r1", "r2", "r3">>
EqualSuffix == <<"exp", "a">>
Suffixes == {<<>>, EqualSuffix} \cup {<<RepeatSuffix[i]>> : i \in 1..3}
Option == [tag : Seq(Words), repeats : 0..3, skip_smoke : BOOLEAN, host_bytes : Nat]
MainTags == {o.tag : o \in Options}
Tags == {tag \o s : tag \in MainTags, s \in Suffixes}
Files == Configs \X Tags   \* results/exp_<config>_<tag>.json
RunSteps == [kind : {"run"}, config : Configs, tag : Tags, sizing : Sizings]
Verdicts == {"none", "TOO SMALL", "TOO LARGE", "DISCRIMINATING"}
Results == [config : Configs, tag : Tags, ok : BOOLEAN, sha : Commits, by : Nat,
            capacity : Nat, verdict : Verdicts, pools : [Formats -> Nat]]

(* The budget is a whole number of gigabytes (below a million), since       *)
(* SGLang takes no other --hicache-size; it holds more than a BF16 token.   *)
(* The runs repeated by hand have the tags of the script's own, where the   *)
(* baseline is measured in the main sweep only.                             *)
ASSUME SuiteAssumption ==
  /\ {"exp", "a", "r1", "r2", "r3"} \subseteq Words
  /\ Options # {} /\ Options \subseteq Option
  /\ \A o \in Options : /\ 2 * BASELINE_PER_TOKEN <= o.host_bytes
                        /\ o.host_bytes = (o.host_bytes \div Gigabyte) * Gigabyte
  /\ Reruns \subseteq RunSteps
  /\ \A step \in Reruns : step.config = "baseline" => step.tag \in MainTags
  /\ Commits # {}
  /\ NoFile \notin Results /\ Truncated \notin Results
  /\ Device \in Nat \ {0} /\ Device < Scale
  /\ PrefixTokens \in Nat
  /\ MaxCommands \in Nat

(* No tag is what the script makes of another one for its repeats and for   *)
(* Experiment A: a call with --tag exp-b-r1 would write into the files that *)
(* a call with --tag exp-b has for its first repeat.                        *)
ASSUME TagsApart ==
  \A o, p \in Options :
    /\ p.tag # o.tag \o EqualSuffix
    /\ \A i \in 1..o.repeats : p.tag # o.tag \o <<RepeatSuffix[i]>>

VARIABLES
  pod,        \* [Files -> result, NoFile or Truncated]: results/ on the pod
  laptop,     \* the same for ./pod-results/
  phase,      \* of reproduce_all.sh: "idle", "running", "done", "aborted"
  opts,       \* its options, or those of the command before
  todo,       \* the steps it still has to take
  commit,     \* what the SGLang checkout is at
  provenance, \* the commit in results/provenance.txt
  command,    \* history: number of the latest command that measured
  whole       \* history: no command of this pod failed or ran a single piece

vars == <<pod, laptop, phase, opts, todo, commit, provenance, command, whole>>

Run(config, tag, sizing) == [kind |-> "run", config |-> config, tag |-> tag, sizing |-> sizing]
Check(kind, config) == [kind |-> kind, config |-> config]

\* MUTANT: the repeats are filed under the tag of the main sweep.
RepeatTagMain(o, i) == o.tag

RepeatTag(o, i) == o.tag \o <<RepeatSuffix[i]>>
EqualTag(o) == o.tag \o EqualSuffix

(* bf16 and int8 alternate.                                                *)
Repeats(o) ==
  [n \in 1..2 * o.repeats |->
     Run(IF n % 2 = 1 THEN "bf16" ELSE "int8", RepeatTag(o, (n + 1) \div 2), "fixed-size")]

(* The measurements among the steps: Experiment B, its repeats (none is    *)
(* --skip-repeats) and Experiment A.                                       *)
RunsOf(o) ==
  <<Run("baseline", o.tag, "fixed-size"),
    Run("bf16", o.tag, "fixed-size"),
    Run("int8", o.tag, "fixed-size")>>
  \o Repeats(o)
  \o <<Run("bf16", EqualTag(o), "equal-tokens"),
       Run("int8", EqualTag(o), "equal-tokens")>>

SmokeTests(o) ==
  IF o.skip_smoke THEN <<>> ELSE <<Check("smoke", "int8"), Check("smoke", "bf16")>>

(* The steps of reproduce_all.sh.                                          *)
Plan(o) == SmokeTests(o) \o RunsOf(o) \o <<Check("quality", "int8")>>

\* MUTANT: the larger of the two capacities.
TargetOfInt8(o) == CapacityBudget(o.host_bytes, LAYER_NUM)["int8"]

(* BF16_TOKENS, the target of Experiment A.                                *)
Target(o) == CapacityBudget(o.host_bytes, LAYER_NUM)["bf16"]

(* The capacity the server reports for a run of step; --host-ratio is 2.   *)
PoolOf(format, sizing, o) ==
  BuiltPool(format, sizing, o.host_bytes, Device,
            IF sizing = "ratio" THEN 2 * Scale ELSE EqualTokensRatio(Target(o), Device), 1)

(* What run_experiment prints before the launch, from the fixed budget     *)
(* unless the sizing is equal-tokens.                                      *)
Verdict(step, o) ==
  IF step.sizing = "equal-tokens" THEN "none"
  ELSE WorkloadVerdict(PrefixTokens, CapacityBudget(o.host_bytes, LAYER_NUM))

Result(step, ok, o, sha, by) ==
  [config |-> step.config, tag |-> step.tag, ok |-> ok, sha |-> sha, by |-> by,
   capacity |-> IF step.config = "baseline" THEN 0 ELSE PoolOf(step.config, step.sizing, o),
   verdict |-> Verdict(step, o),
   pools |-> [f \in Formats |-> PoolOf(f, step.sizing, o)]]

File(step) == <<step.config, step.tag>>

(* A fresh clone has the published results of the default tag: command 0.  *)
Published ==
  LET o == CHOOSE o \in Options : \A p \in Options : p.repeats <= o.repeats
      first == CHOOSE c \in Commits : TRUE
  IN  [f \in Files |->
         IF \E n \in 1..Len(RunsOf(o)) : File(RunsOf(o)[n]) = f
         THEN LET n == CHOOSE n \in 1..Len(RunsOf(o)) : File(RunsOf(o)[n]) = f
              IN  Result(RunsOf(o)[n], TRUE, o, first, 0)
         ELSE NoFile]

Init ==
  /\ pod = Published
  /\ laptop = [f \in Files |-> NoFile]
  /\ phase = "idle"
  /\ opts \in Options
  /\ todo = <<>>
  /\ commit \in Commits
  /\ provenance = CHOOSE c \in Commits : TRUE
  /\ command = 0
  /\ whole = TRUE

-----------------------------------------------------------------------------
(* reproduce_all.sh                                                        *)

Invoke(o) ==
  /\ phase # "running"
  /\ command < MaxCommands
  /\ phase' = "running"
  /\ opts' = o
  /\ todo' = Plan(o)
  /\ provenance' = commit
  /\ command' = command + 1
  /\ UNCHANGED <<pod, laptop, commit, whole>>

\* MUTANT: without set -e a step that failed does not end the script.
AdvanceRegardless(exit) == todo' = Tail(todo) /\ UNCHANGED <<phase, whole>>

(* set -e: a step that exits with another code than 0 ends the script.     *)
Advance(exit) ==
  IF exit = 0
  THEN todo' = Tail(todo) /\ UNCHANGED <<phase, whole>>
  ELSE /\ phase' = "aborted"
       /\ todo' = <<>>
       /\ whole' = FALSE

(* smoke_test.py or quality_compare.py: either may fail.                   *)
CheckStep ==
  /\ phase = "running" /\ todo # <<>>
  /\ Head(todo).kind # "run"
  /\ \E exit \in {0, 1} : Advance(exit)
  /\ UNCHANGED <<pod, laptop, opts, commit, provenance, command>>

(* run_experiment's gauge check under equal-tokens sizing.                 *)
CapacityHonoured(step, o) ==
  step.sizing = "equal-tokens" => PoolOf(step.config, step.sizing, o) = Target(o)

(* What one run may leave behind, and its exit code: a result that is ok,  *)
(* one that is not, an old file untouched because main() returned 2 or was *)
(* interrupted, or half a file because it was killed while writing.        *)
Outcomes(step, o, old, by) ==
  {[file |-> Result(step, FALSE, o, commit, by), exit |-> 1],
   [file |-> old, exit |-> 2],
   [file |-> Truncated, exit |-> 137]}
  \cup (IF CapacityHonoured(step, o)
        THEN {[file |-> Result(step, TRUE, o, commit, by), exit |-> 0]} ELSE {})

RunStep ==
  /\ phase = "running" /\ todo # <<>>
  /\ Head(todo).kind = "run"
  /\ \E out \in Outcomes(Head(todo), opts, pod[File(Head(todo))], command) :
       /\ pod' = [pod EXCEPT ![File(Head(todo))] = out.file]
       /\ Advance(out.exit)
  /\ UNCHANGED <<laptop, opts, commit, provenance, command>>

(* "DONE -- pull results/ before terminating the pod"                      *)
Finish ==
  /\ phase = "running" /\ todo = <<>>
  /\ phase' = "done"
  /\ UNCHANGED <<pod, laptop, opts, todo, commit, provenance, command, whole>>

-----------------------------------------------------------------------------
(* The operator                                                            *)

(* run_experiment.py alone, as the runbook's manual equivalents.           *)
Rerun(step) ==
  /\ phase # "running"
  /\ command < MaxCommands
  /\ command' = command + 1
  /\ \E out \in Outcomes(step, opts, pod[File(step)], command + 1) :
       pod' = [pod EXCEPT ![File(step)] = out.file]
  /\ phase' = "idle"
  /\ whole' = FALSE
  /\ UNCHANGED <<laptop, opts, todo, commit, provenance>>

Checkout(c) ==
  /\ phase # "running"
  /\ c # commit
  /\ commit' = c
  /\ UNCHANGED <<pod, laptop, phase, opts, todo, provenance, command, whole>>

(* The pod is terminated and another one rented.                           *)
NewPod ==
  /\ phase # "idle" /\ command < MaxCommands
  /\ pod' = Published
  /\ phase' = "idle"
  /\ todo' = <<>>
  /\ provenance' = CHOOSE c \in Commits : TRUE
  /\ whole' = TRUE
  /\ UNCHANGED <<laptop, opts, commit, command>>

(* rsync without --delete.                                                 *)
Copied(from, to) == [f \in Files |-> IF from[f] = NoFile THEN to[f] ELSE from[f]]

Pull ==
  /\ laptop' = Copied(pod, laptop)
  /\ UNCHANGED <<pod, phase, opts, todo, commit, provenance, command, whole>>

Next ==
  \/ \E o \in Options : Invoke(o)
  \/ CheckStep
  \/ RunStep
  \/ Finish
  \/ \E step \in Reruns : Rerun(step)
  \/ \E c \in Commits : Checkout(c)
  \/ NewPod
  \/ Pull

Spec == Init /\ [][Next]_vars

-----------------------------------------------------------------------------
(* analyse.py                                                              *)

(* load_runs: unreadable files are skipped, failed runs are not.           *)
LoadRuns(dir) == {dir[f] : f \in {g \in Files : dir[g] \notin {NoFile, Truncated}}}

(* group: the runs of one tag, by configuration.                           *)
Sweep(dir, tag) ==
  LET runs == {r \in LoadRuns(dir) : r.tag = tag}
  IN  [c \in {r.config : r \in runs} |-> CHOOSE r \in runs : r.config = c]

(* print_comparison: "configs ran on different SGLang SHAs".               *)
Warned(sweep) == Cardinality({sweep[c].sha : c \in DOMAIN sweep}) > 1

-----------------------------------------------------------------------------
(* Properties                                                              *)

(* Is every step of the finished script reported by a comparison in dir    *)
(* that holds its own, successful result?                                  *)
Reports(dir) ==
  \A n \in 1..Len(RunsOf(opts)) :
    LET step == RunsOf(opts)[n]
        sweep == Sweep(dir, step.tag)
    IN  /\ step.config \in DOMAIN sweep
        /\ sweep[step.config].ok
        /\ sweep[step.config].by = command
        /\ sweep[step.config].sha = provenance
        /\ ~Warned(sweep)

(* When reproduce_all.sh has printed DONE, analyse.py finds on the pod, and *)
(* on the laptop once results/ is copied, for each of its runs the result   *)
(* of that run: of this call, successful, of the commit in provenance.txt;  *)
(* and no run has overwritten another: there are as many as it made.        *)
DoneMeansReported ==
  phase = "done" =>
    /\ Cardinality({r \in LoadRuns(pod) : r.by = command}) = Len(RunsOf(opts))
    /\ Reports(pod)
    /\ laptop = Copied(pod, laptop) => Reports(laptop)

(* A comparison on the pod pairs runs of two calls only if a call failed on *)
(* it or a single piece was run by hand.  (Between finished calls, whatever *)
(* their options: --skip-repeats leaves whole sweeps behind.)               *)
SweepsAreWhole ==
  whole /\ phase # "running" =>
    \A tag \in Tags : \A c, d \in DOMAIN Sweep(pod, tag) :
      Sweep(pod, tag)[c].by = Sweep(pod, tag)[d].by

(* Experiment A compares equal capacities, namely the one that BF16 had     *)
(* under the byte budget of Experiment B.                                   *)
EqualSweepIsEqual ==
  phase = "done" =>
    LET a == Sweep(pod, EqualTag(opts))
        b == Sweep(pod, opts.tag)
    IN  /\ a["bf16"].capacity = a["int8"].capacity
        /\ a["bf16"].capacity = b["bf16"].capacity
        /\ b["bf16"].capacity < b["int8"].capacity

(* Does the pool of a format hold the reusable prefixes in a run like r?    *)
Holds(r, f) == PrefixTokens <= r.pools[f]

(* BF16's pool holds them to the token.                                     *)
OnTheEdge(r) == PrefixTokens = r.pools["bf16"]

(* The verdict printed before a run is the one that is true of the pools    *)
(* its arguments build: TOO SMALL, "both configs hold everything"; TOO      *)
(* LARGE, "both configs evict"; DISCRIMINATING, the prefixes "exceed the    *)
(* BF16 L2 but fit the INT8 L2".  Only when BF16 holds them to the token    *)
(* does the program say DISCRIMINATING although both hold them.             *)
VerdictIsOfThePools ==
  \A r \in LoadRuns(pod) : r.verdict # "none" =>
    IF OnTheEdge(r)
    THEN r.verdict = "DISCRIMINATING" /\ \A f \in Formats : Holds(r, f)
    ELSE /\ r.verdict = "TOO SMALL" <=> \A f \in Formats : Holds(r, f)
         /\ r.verdict = "TOO LARGE" <=> \A f \in Formats : ~Holds(r, f)
         /\ r.verdict = "DISCRIMINATING" <=> Holds(r, "int8") /\ ~Holds(r, "bf16")
=============================================================================
