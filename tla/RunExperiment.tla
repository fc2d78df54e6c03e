----------------------------- MODULE RunExperiment -----------------------------
(***************************************************************************)
(* scripts/run_experiment.py, run once per configuration on one port, as   *)
(* the loop in its usage text and reproduce_all.sh do.  One run launches a *)
(* server, waits for /health, brackets the benchmark between two scrapes   *)
(* of /metrics, derives figures from the difference, tears the server down *)
(* and writes one result file.  The servers come and go by themselves      *)
(* (ServerGroup); the operator may press Ctrl-C.                           *)
(***************************************************************************)
EXTENDS ServerGroup

CONSTANTS
  NoFile,        \* no result file was written
  RunCount,      \* how many times main() is run
  Config,        \* [Runs -> {"baseline", "bf16", "int8"}]: --config
  Stem,          \* [Runs -> ...]: config name and --tag, which name the files
  EqualTokens,   \* --sizing equal-tokens
  Target,        \* --target-l2-tokens
  EncodedWidth,  \* V1_LAYOUT.bytes_per_token_all_layers(layer_num)
  ForeignServer, \* does a server nobody here started answer on the port?
  Interrupts     \* where Ctrl-C may hit: a subset of InterruptPoints

Runs == 1..RunCount
Foreign == 0   \* the identity of the server nobody here started
Configs == {"baseline", "bf16", "int8"}

\* Between Popen and the try block, inside it, and from finally on.
InterruptPoints == {"launch", "try", "finally"}

Stems == {Stem[r] : r \in Runs}

ASSUME RunAssumption ==
  /\ RunCount \in Nat \ {0}
  /\ Servers = 0..RunCount
  /\ Config \in [Runs -> Configs]
  /\ DOMAIN Stem = Runs
  /\ EqualTokens \in BOOLEAN
  /\ Target \in Nat
  /\ EncodedWidth \in Nat \ {0}
  /\ ForeignServer \in BOOLEAN
  /\ Interrupts \subseteq InterruptPoints
  /\ Pools # {}
  /\ Pools \subseteq [width : Nat, capacity : Nat]

VARIABLES
  run,           \* the run main() is in
  pc,            \* where main() is
  res,           \* main()'s `result`
  files,         \* [Runs -> results/exp_<config>_<tag>.json, or NoFile]
  timing,        \* [Stems -> whose codec_timing_<stem>.json is on disk]
  warned,        \* runs whose teardown printed the survived-SIGKILL warning
  interrupted,   \* runs in which Ctrl-C was pressed
  left,          \* history: runs that Ctrl-C ended before their server had exited
  traffic        \* history: tokens the benchmark of this run made a server back up

harnessVars == <<run, pc, res, files, timing, warned, interrupted, left, traffic>>
vars == <<groupVars, harnessVars>>

None == "none"
NoOne == RunCount + 1   \* no server wrote it, no snapshot was taken from it

NoSnap == [server |-> NoOne, tokens |-> 0, bytes |-> 0, capacity |-> 0]
Snap == [server : 0..NoOne, tokens : Nat, bytes : Nat, capacity : Nat]

NewResult ==
  [ok |-> FALSE, error |-> FALSE, before |-> NoSnap, after |-> NoSnap,
   flushed |-> None, rc |-> None, check |-> None, timing |-> NoOne]

Result ==
  [ok : BOOLEAN, error : BOOLEAN, before : Snap, after : Snap,
   flushed : {None, "yes", "no"}, rc : {None, "zero", "nonzero"},
   check : {None, "pass", "fail"}, timing : 0..NoOne]

\* Inside the try block, in the finally block, and after it.
Waiting == {"poll", "health"}
Measuring == {"before", "flush", "bench", "after"}
Teardown == {"terminate", "sigterm", "waitterm", "sigkill", "waitkill"}
Location == {"idle", "launched", "exited", "collect", "write"} \cup Waiting \cup Measuring \cup Teardown

Init ==
  /\ leader = [g \in Servers |->
                 IF ForeignServer /\ g = Foreign THEN "serving" ELSE "none"]
  /\ workers = [g \in Servers |-> ForeignServer /\ g = Foreign]
  /\ sig = [g \in Servers |-> "none"]
  /\ port = IF ForeignServer THEN Foreign ELSE NoServer
  /\ pool = [g \in Servers |-> CHOOSE p \in Pools : TRUE]
  /\ backed = [g \in Servers |-> 0]
  /\ run = 1
  /\ pc = "idle"
  /\ res = NewResult
  /\ files = [r \in Runs |-> NoFile]
  /\ timing = [s \in Stems |-> NoOne]
  /\ warned = {}
  /\ interrupted = {}
  /\ left = {}
  /\ traffic = 0

GoTo(from, to) == pc = from /\ pc' = to

ASSUME NoFileAssumption == NoFile \notin Result

-----------------------------------------------------------------------------
(* Launching the server and waiting for it.                                *)

(* main() returns 2 before Popen: the SGLang checkout is not there.        *)
Refuse ==
  /\ GoTo("idle", "exited")
  /\ UNCHANGED <<groupVars, run, res, files, timing, warned, interrupted, left, traffic>>

Launch ==
  /\ GoTo("idle", "launched")
  /\ Popen(run)
  /\ UNCHANGED <<run, res, files, timing, warned, interrupted, left, traffic>>

(* The result dictionary, filled with the help of a git child: the server  *)
(* runs already, and the try block that would stop it has not begun.       *)
EnterTry ==
  /\ GoTo("launched", "poll")
  /\ UNCHANGED <<groupVars, run, res, files, timing, warned, interrupted, left, traffic>>

\* MUTANT: the exception leaves main() without going through finally.
FailUncaught ==
  /\ pc' = "raised"
  /\ res' = [res EXCEPT !.error = TRUE]

(* An exception in the try block: it is recorded and finally runs.         *)
Fail ==
  /\ pc' = "terminate"
  /\ res' = [res EXCEPT !.error = TRUE]

\* MUTANT: the loop only gives up on a server that has exited.
StartupNoDeadline ==
  /\ pc = "poll"
  /\ Exited(run)
  /\ Fail
  /\ UNCHANGED <<groupVars, run, files, timing, warned, interrupted, left, traffic>>

(* wait_for_server: the clock passed the deadline.                         *)
StartupDeadline ==
  /\ pc = "poll"
  /\ Fail
  /\ UNCHANGED <<groupVars, run, files, timing, warned, interrupted, left, traffic>>

(* wait_for_server: proc.poll() first.                                     *)
PollServer ==
  /\ pc = "poll"
  /\ IF Exited(run) THEN Fail ELSE pc' = "health" /\ UNCHANGED res
  /\ UNCHANGED <<groupVars, run, files, timing, warned, interrupted, left, traffic>>

(* wait_for_server: then GET /health, which whoever owns the port answers. *)
GetHealth ==
  /\ pc = "health"
  /\ \/ /\ \E g \in Servers : Answers(g)
        /\ pc' = "before"
     \/ pc' = "poll"
  /\ UNCHANGED <<groupVars, run, res, files, timing, warned, interrupted, left, traffic>>

-----------------------------------------------------------------------------
(* Measuring.                                                              *)

SnapOf(g) ==
  [server |-> g, tokens |-> backed[g], bytes |-> backed[g] * pool[g].width,
   capacity |-> pool[g].capacity]

\* MUTANT: the figures are derived from the absolute totals.
NothingSubtracted(g) == [SnapOf(g) EXCEPT !.tokens = 0, !.bytes = 0]

SnapBefore(g) == SnapOf(g)

\* MUTANT: a pool above the target passes.
CapacityShort(g) == EqualTokens /\ pool[g].capacity < Target

CapacityMissed(g) == EqualTokens /\ pool[g].capacity # Target

(* The snapshot before, and the check of the achieved capacity.            *)
ScrapeBefore ==
  /\ pc = "before"
  /\ \/ \E g \in Servers :
          /\ Answers(g)
          /\ res' = [res EXCEPT !.before = SnapBefore(g), !.error = CapacityMissed(g)]
          /\ pc' = IF CapacityMissed(g) THEN "terminate" ELSE "flush"
     \/ Fail
  /\ UNCHANGED <<groupVars, run, files, timing, warned, interrupted, left, traffic>>

(* A flush that fails is noted and tolerated.                              *)
FlushCache ==
  /\ GoTo("flush", "bench")
  /\ \/ /\ \E g \in Servers : Answers(g)
        /\ res' = [res EXCEPT !.flushed = "yes"]
     \/ res' = [res EXCEPT !.flushed = "no"]
  /\ UNCHANGED <<groupVars, run, files, timing, warned, interrupted, left, traffic>>

(* One request of the benchmark makes the server back a token up.          *)
BenchRequest ==
  /\ pc = "bench"
  /\ \E g \in Servers :
       /\ Answers(g)
       /\ backed[g] < MaxBacked
       /\ backed' = [backed EXCEPT ![g] = @ + 1]
  /\ traffic' = traffic + 1
  /\ UNCHANGED <<leader, workers, sig, port, pool>>
  /\ UNCHANGED <<run, pc, res, files, timing, warned, interrupted, left>>

(* subprocess.run returns, with any code; or it cannot start the child.    *)
BenchExits ==
  /\ pc = "bench"
  /\ \/ /\ pc' = "after"
        /\ \E rc \in {"zero", "nonzero"} : res' = [res EXCEPT !.rc = rc]
     \/ Fail
  /\ UNCHANGED <<groupVars, run, files, timing, warned, interrupted, left, traffic>>

\* MUTANT: off by less than the expected width itself.
WithinHundredPercent(distance, expected) == distance < expected

WithinTwoPercent(distance, expected) == 50 * distance < expected

(* The headline check on delta, against the layout's bytes per token.      *)
WidthCheck(before, after) ==
  LET tokens == after.tokens - before.tokens
      bytes == after.bytes - before.bytes
      off == bytes - EncodedWidth * tokens
      distance == IF off < 0 THEN -off ELSE off
  IN  IF Config[run] # "int8" \/ tokens <= 0 \/ bytes = 0 THEN None
      ELSE IF WithinTwoPercent(distance, EncodedWidth * tokens) THEN "pass" ELSE "fail"

ScrapeAfter ==
  /\ pc = "after"
  /\ \/ /\ pc' = "terminate"
        /\ \E g \in Servers :
             /\ Answers(g)
             /\ res' = [res EXCEPT !.after = SnapOf(g),
                                   !.ok = res.rc = "zero",
                                   !.check = WidthCheck(res.before, SnapOf(g))]
     \/ Fail
  /\ UNCHANGED <<groupVars, run, files, timing, warned, interrupted, left, traffic>>

-----------------------------------------------------------------------------
(* _terminate, the timing file, the result file.                           *)

(* What follows finally: an interrupt goes on unwinding.                   *)
AfterFinally == IF run \in interrupted THEN "exited" ELSE "collect"

\* MUTANT: main() is done with the server once the result is complete.
TerminateNothing ==
  /\ GoTo("terminate", AfterFinally)
  /\ UNCHANGED <<groupVars, run, res, files, timing, warned, interrupted, left, traffic>>

(* _terminate returns at once if the leader has already exited.            *)
TerminatePoll ==
  /\ pc = "terminate"
  /\ pc' = IF Exited(run) THEN AfterFinally ELSE "sigterm"
  /\ UNCHANGED <<groupVars, run, res, files, timing, warned, interrupted, left, traffic>>

SendTerm ==
  /\ GoTo("sigterm", "waitterm")
  /\ Killpg(run, "TERM")
  /\ UNCHANGED <<run, res, files, timing, warned, interrupted, left, traffic>>

(* proc.wait(timeout=30), on the leader.                                   *)
WaitTerm ==
  /\ pc = "waitterm"
  /\ pc' = IF Exited(run) THEN AfterFinally ELSE "sigkill"
  /\ UNCHANGED <<groupVars, run, res, files, timing, warned, interrupted, left, traffic>>

\* MUTANT: SIGKILL is sent and not waited for.
SendKillAndReturn ==
  /\ GoTo("sigkill", AfterFinally)
  /\ Killpg(run, "KILL")
  /\ UNCHANGED <<run, res, files, timing, warned, interrupted, left, traffic>>

SendKill ==
  /\ GoTo("sigkill", "waitkill")
  /\ Killpg(run, "KILL")
  /\ UNCHANGED <<run, res, files, timing, warned, interrupted, left, traffic>>

(* proc.wait(timeout=60); a leader that survives is warned about.          *)
WaitKill ==
  /\ GoTo("waitkill", AfterFinally)
  /\ warned' = IF Exited(run) THEN warned ELSE warned \cup {run}
  /\ UNCHANGED <<groupVars, run, res, files, timing, interrupted, left, traffic>>

\* MUTANT: the file name does not carry the tag.
TimingPathNoTag(r) == Stem[1]

TimingPath(r) == Stem[r]

(* An int8 run reads the timing file its pool should have written.         *)
CollectTiming ==
  /\ GoTo("collect", "write")
  /\ res' = IF Config[run] = "int8"
            THEN [res EXCEPT !.timing = timing[TimingPath(run)]]
            ELSE res
  /\ UNCHANGED <<groupVars, run, files, timing, warned, interrupted, left, traffic>>

WriteResult ==
  /\ GoTo("write", "exited")
  /\ files' = [files EXCEPT ![run] = res]
  /\ UNCHANGED <<groupVars, run, res, timing, warned, interrupted, left, traffic>>

\* MUTANT: `result` survives from the run before.
NextRunKeepsResult ==
  /\ GoTo("exited", "idle")
  /\ run < RunCount
  /\ run' = run + 1
  /\ traffic' = 0
  /\ UNCHANGED <<groupVars, res, files, timing, warned, interrupted, left>>

NextRun ==
  /\ GoTo("exited", "idle")
  /\ run < RunCount
  /\ run' = run + 1
  /\ res' = NewResult
  /\ traffic' = 0
  /\ UNCHANGED <<groupVars, files, timing, warned, interrupted, left>>

(* KeyboardInterrupt is not an Exception: in the try block finally still   *)
(* runs, but nothing is recorded or written; before it and after it main() *)
(* ends at once, and leaves behind whatever its server is doing.           *)
InterruptTry ==
  /\ "try" \in Interrupts
  /\ pc \in Waiting \cup Measuring
  /\ pc' = "terminate"
  /\ UNCHANGED left

InterruptOutside ==
  /\ \/ "launch" \in Interrupts /\ pc = "launched"
     \/ "finally" \in Interrupts /\ pc \in Teardown \cup {"collect", "write"}
  /\ pc' = "exited"
  /\ left' = IF Exited(run) THEN left ELSE left \cup {run}

Interrupt ==
  /\ InterruptTry \/ InterruptOutside
  /\ interrupted' = interrupted \cup {run}
  /\ UNCHANGED <<groupVars, run, res, files, timing, warned, traffic>>

-----------------------------------------------------------------------------
(* The servers.  The INT8 pool writes its timing file while its workers    *)
(* tear down, unless they are killed.                                      *)

ServerReady(g) == Ready(g) /\ UNCHANGED harnessVars

ServerExits(g) == LeaderExits(g) /\ UNCHANGED harnessVars

PoolTeardown(g) ==
  /\ WorkersExit(g)
  /\ \/ UNCHANGED timing
     \/ /\ g \in Runs
        /\ Config[g] = "int8"
        /\ sig[g] # "KILL"
        /\ timing' = [timing EXCEPT ![TimingPath(g)] = g]
  /\ UNCHANGED <<run, pc, res, files, warned, interrupted, left, traffic>>

ServerStep == \E g \in Servers : ServerReady(g) \/ ServerExits(g) \/ PoolTeardown(g)

\* Everything main() does by itself; the benchmark and Ctrl-C are not its doing.
MainStep ==
  \/ Launch \/ EnterTry \/ PollServer \/ GetHealth
  \/ ScrapeBefore \/ FlushCache \/ ScrapeAfter
  \/ TerminatePoll \/ SendTerm \/ WaitTerm \/ SendKill \/ WaitKill
  \/ CollectTiming \/ WriteResult

Next ==
  \/ MainStep \/ StartupDeadline
  \/ Refuse \/ BenchRequest \/ BenchExits \/ NextRun \/ Interrupt
  \/ ServerStep

Spec == Init /\ [][Next]_vars

(* The interpreter keeps executing main(), and the clock passes the        *)
(* startup deadline however often the loop polls before.  Nothing obliges  *)
(* the benchmark to end: subprocess.run has no timeout there.              *)
FairSpec == Spec /\ WF_vars(MainStep) /\ SF_vars(StartupDeadline)

-----------------------------------------------------------------------------
(* Properties.                                                             *)

TypeOK ==
  /\ GroupTypeOK
  /\ run \in Runs
  /\ pc \in Location
  /\ res \in Result
  /\ files \in [Runs -> Result \cup {NoFile}]
  /\ timing \in [Stems -> 0..NoOne]
  /\ warned \subseteq Runs
  /\ interrupted \subseteq Runs
  /\ left \subseteq Runs
  /\ traffic \in Nat

Written(r) == files[r] # NoFile

\* The servers of earlier runs that Ctrl-C left behind.
LeftBehind(r) == {q \in left : q < r}

(* A result file marked ok brackets its benchmark between two scrapes of   *)
(* the very server that its run launched: neither a leftover of an earlier *)
(* run nor a later server answered on the shared port in between, unless   *)
(* it is one that a Ctrl-C outside the try block left without a teardown.  *)
OkMeasuresOwnServer ==
  \A r \in Runs : Written(r) /\ files[r].ok
                  => {files[r].before.server, files[r].after.server}
                       \subseteq {r} \cup LeftBehind(r)

(* The deltas of an ok run are what its own benchmark caused: startup and  *)
(* warmup traffic, which the process-lifetime counters include, is out.    *)
DeltaIsBenchTraffic ==
  res.ok => res.after.tokens - res.before.tokens = traffic

(* An equal-tokens result marked ok was measured on a pool of exactly the  *)
(* target capacity, whatever the ratio arithmetic came to.                 *)
EqualTokensHonoured ==
  \A r \in Runs : EqualTokens /\ Written(r) /\ files[r].ok
                  => pool[files[r].after.server].capacity = Target

(* The bytes-per-token check of an int8 run passes only if that server's   *)
(* host pool stores records of the encoded width.                          *)
PassMeansEncoded ==
  \A r \in Runs : Written(r) /\ files[r].check = "pass"
                  => pool[r].width = EncodedWidth

(* When a server is launched, the leader of every earlier one has exited,  *)
(* or the operator was told that it survived SIGKILL, or the operator's    *)
(* own Ctrl-C outside the try block kept main() from seeing to it.         *)
LaunchAfterTeardown ==
  [][pc = "idle" /\ pc' = "launched"
       => \A g \in Runs : g < run => ~(leader[g] \in {"loading", "serving"})
                                      \/ g \in warned \cup left]_vars

(* The codec timing an int8 result carries was written by its own server.  *)
TimingIsOwn == \A r \in Runs : Written(r) => files[r].timing \in {r, NoOne}

(* Once launched, a run ends with a result file, whatever the server does; *)
(* only Ctrl-C prevents it, or a benchmark that never returns.             *)
LaunchedRunIsReported ==
  \A r \in Runs :
    run = r /\ pc \notin {"idle", "bench", "exited"}
      ~> run = r /\ (Written(r) \/ pc = "bench" \/ r \in interrupted)

(* main() implements the abstract session.                                 *)
SessionStatus(r) ==
  IF r > run \/ (r = run /\ pc = "idle") THEN "pending"
  ELSE IF r = run /\ pc # "exited" THEN "running"
  ELSE IF ~Written(r) THEN "abandoned"
  ELSE IF files[r].ok THEN "ok" ELSE "failed"

SessionMeasured(r) ==
  IF Written(r) /\ files[r].ok THEN files[r].after.server ELSE 0

Session ==
  INSTANCE MeasurementSession
    WITH status <- [r \in Runs |-> SessionStatus(r)],
         measured <- [r \in Runs |-> SessionMeasured(r)],
         abandonedServers <- left

(* The series of runs keeps the promises of MeasurementSession.            *)
ImplementsSession == Session!Spec
=============================================================================
