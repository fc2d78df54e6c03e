---------------------------- MODULE QualityCompare ----------------------------
(***************************************************************************)
(* scripts/quality_compare.py: main() runs the configurations (bf16, int8, *)
(* and with --repeat-bf16 bf16 again) one after the other on one port.     *)
(* run_config populates the cache, overflows L1 with filler, re-sends the  *)
(* prompts and keeps their generations only if the server loaded something *)
(* back from L2 meanwhile.  Whatever raises ends main() without a report.  *)
(***************************************************************************)
EXTENDS ServerGroup

CONSTANTS
  RunCount,         \* 2, or 3 with --repeat-bf16
  PromptCount,      \* --groups times --prompts-per-group
  PromptTokens,     \* size of a prompt, in tokens
  L1Cap,            \* --max-total-tokens
  Margin,           \* the 256 tokens kept free below the L2 capacity
  FillerRequests,   \* --filler-requests
  FillerTokens,     \* prompt_tokens of one filler request
  ForceFiller,      \* --force-filler
  NoReport          \* run_config(run) has not returned

Runs == 1..RunCount
Prompts == 1..PromptCount

ASSUME QualityAssumption ==
  /\ RunCount \in {2, 3}
  /\ Servers = Runs
  /\ PromptCount \in Nat \ {0} /\ PromptTokens \in Nat
  /\ L1Cap \in Nat /\ Margin \in Nat
  /\ FillerRequests \in Nat /\ FillerTokens \in Nat
  /\ ForceFiller \in BOOLEAN
  /\ Pools # {} /\ Pools \subseteq Nat   \* L2 capacities, in tokens

VARIABLES
  run,           \* the run_config call main() is in
  pc,            \* where it is: Trying, Teardown, "idle", "compare", "done", "raised"
  raising,       \* an exception is unwinding
  size,          \* prefix_tokens: prompt_tokens of the first populate answer
  l2,            \* l2_cap
  sent,          \* sent_tokens
  fillers,       \* filler requests attempted
  before,        \* load_back_tokens_total before the re-send
  gens,          \* [Prompts -> the generation of this run, or Unanswered]
  loaded,        \* [Servers -> load_back_tokens_total]
  late,          \* [Servers -> filler requests given up by the client, not by the server]
  gaveUp,        \* history: runs in which a filler request failed
  reports,       \* [Runs -> what run_config returned, or NoReport]
  verdict        \* what main() printed

callVars == <<size, l2, sent, fillers, before, gens>>
mainVars == <<run, pc, raising, reports, verdict>>
loadVars == <<loaded, late, gaveUp>>
vars == <<groupVars, callVars, mainVars, loadVars>>

(* by: the server that answered; restored: the KV of the re-sent prompt    *)
(* came from L2 and not from L1 or a cold prefill; tokens: some generated  *)
(* token was captured.                                                     *)
Unanswered == [by |-> NoServer, restored |-> FALSE, tokens |-> FALSE]

Trying == {"boot", "populate", "capacity", "filler", "before", "resend", "after"}
Teardown == {"finally", "waitterm", "sigkill"}

Init ==
  /\ leader = [g \in Servers |-> "none"]
  /\ workers = [g \in Servers |-> FALSE]
  /\ sig = [g \in Servers |-> "none"]
  /\ port = NoServer
  /\ pool = [g \in Servers |-> CHOOSE p \in Pools : TRUE]
  /\ backed = [g \in Servers |-> 0]
  /\ run = 1
  /\ pc = "idle"
  /\ raising = FALSE
  /\ size = 0 /\ l2 = 0 /\ sent = 0 /\ fillers = 0 /\ before = 0
  /\ gens = [p \in Prompts |-> Unanswered]
  /\ loaded = [g \in Servers |-> 0]
  /\ late = [g \in Servers |-> 0]
  /\ gaveUp = {}
  /\ reports = [r \in Runs |-> NoReport]
  /\ verdict = "none"

GoTo(from, to) == pc = from /\ pc' = to

(* run_config's locals at the start, and once it is left for finally.      *)
Forget ==
  /\ size' = 0 /\ l2' = 0 /\ sent' = 0 /\ fillers' = 0 /\ before' = 0
  /\ gens' = [p \in Prompts |-> Unanswered]

(* load_back_tokens_total of g may have grown by one restore.              *)
MayLoadBack(g) ==
  \/ UNCHANGED loaded
  \/ loaded' = [loaded EXCEPT ![g] = @ + 1]

-----------------------------------------------------------------------------
(* Starting a configuration.                                               *)

PopenFails ==
  /\ GoTo("idle", "raised")
  /\ UNCHANGED <<groupVars, callVars, run, raising, reports, verdict, loadVars>>

Launch ==
  /\ GoTo("idle", "boot")
  /\ Popen(run)
  /\ UNCHANGED <<callVars, run, raising, reports, verdict, loadVars>>

\* MUTANT: requests and the startup wait have no timeout.
RaiseOnlyWithoutServer ==
  /\ pc \in Trying \ {"filler"}
  /\ Exited(run)
  /\ pc' = "finally"
  /\ raising' = TRUE
  /\ Forget
  /\ UNCHANGED <<groupVars, run, reports, verdict, loadVars>>

(* A request fails or times out, a scrape fails, the startup deadline      *)
(* passes.  The filler loop alone catches what its requests raise.         *)
Raise ==
  /\ pc \in Trying \ {"filler"}
  /\ pc' = "finally"
  /\ raising' = TRUE
  /\ Forget
  /\ UNCHANGED <<groupVars, run, reports, verdict, loadVars>>

(* Ctrl-C: finally runs; a second one cuts the teardown short.             *)
Interrupt ==
  /\ \/ pc \in Trying /\ pc' = "finally"
     \/ pc \in Teardown /\ pc' = "raised"
  /\ raising' = TRUE
  /\ Forget
  /\ UNCHANGED <<groupVars, run, reports, verdict, loadVars>>

(* GET /health is answered by whoever has the port.                        *)
Healthy ==
  /\ GoTo("boot", "populate")
  /\ \E g \in Servers : Answers(g)
  /\ UNCHANGED <<groupVars, callVars, run, raising, reports, verdict, loadVars>>

(* All prompts once, concurrently; the first answer tells their size, or   *)
(* has no prompt_tokens.                                                   *)
Populate ==
  /\ GoTo("populate", "capacity")
  /\ \E g \in Servers : Answers(g) /\ MayLoadBack(g)
  /\ size' \in {0, PromptTokens}
  /\ UNCHANGED <<groupVars, l2, sent, fillers, before, gens>>
  /\ UNCHANGED <<run, raising, reports, verdict, late, gaveUp>>

-----------------------------------------------------------------------------
(* The filler.                                                             *)

SkipFiller == ~ForceFiller /\ size * PromptCount > L1Cap

Larger(a, b) == IF a > b THEN a ELSE b

Low == Larger(0, L1Cap - size)
High == Larger(Low + 1, l2 - size - Margin)

\* 2 * stop_at, so that it stays an integer.
StopReached == 2 * sent >= Low + High

ScrapeCapacity ==
  /\ GoTo("capacity", "filler")
  /\ \E g \in Servers : Answers(g) /\ l2' = pool[g]
  /\ sent' = IF SkipFiller THEN Low ELSE 0
  /\ UNCHANGED <<groupVars, size, fillers, before, gens>>
  /\ UNCHANGED <<run, raising, reports, verdict, loadVars>>

FillerOver == SkipFiller \/ fillers = FillerRequests \/ StopReached

(* One filler request that is answered, with or without prompt_tokens.     *)
FillerAnswered ==
  /\ \E g \in Servers : Answers(g) /\ MayLoadBack(g)
  /\ sent' \in {sent, sent + FillerTokens}
  /\ UNCHANGED <<late, gaveUp>>

(* One that raises, and is passed over: what the client no longer waits    *)
(* for, the server may have accepted and still serve.                      *)
FillerFails ==
  /\ gaveUp' = gaveUp \cup {run}
  /\ \/ UNCHANGED late
     \/ \E g \in Servers : Answers(g) /\ late' = [late EXCEPT ![g] = @ + 1]
  /\ UNCHANGED <<sent, loaded>>

FillerRequest ==
  /\ pc = "filler"
  /\ ~FillerOver
  /\ fillers' = fillers + 1
  /\ FillerAnswered \/ FillerFails
  /\ UNCHANGED <<groupVars, size, l2, before, gens>>
  /\ UNCHANGED mainVars

(* Too little filler raises; otherwise the scrape for the report follows.  *)
FillerDone ==
  /\ pc = "filler"
  /\ FillerOver
  /\ IF sent < Low
     THEN pc' = "finally" /\ raising' = TRUE /\ Forget
     ELSE pc' = "before" /\ UNCHANGED <<raising, callVars>>
  /\ UNCHANGED <<groupVars, run, reports, verdict, loadVars>>

-----------------------------------------------------------------------------
(* The measurement.                                                        *)

\* MUTANT: the process-lifetime total is taken for what this re-send loaded.
LifetimeTotal(g) == 0

SnapshotBefore(g) == loaded[g]

ScrapeBefore ==
  /\ GoTo("before", "resend")
  /\ \E g \in Servers : Answers(g) /\ before' = SnapshotBefore(g)
  /\ UNCHANGED <<groupVars, size, l2, sent, fillers, gens>>
  /\ UNCHANGED <<run, raising, reports, verdict, loadVars>>

(* The pool of threads answers the prompts in any order.                   *)
Resend(p) ==
  /\ pc = "resend"
  /\ gens[p] = Unanswered
  /\ \E g \in Servers, restored, tokens \in BOOLEAN :
       /\ Answers(g)
       /\ gens' = [gens EXCEPT ![p] = [by |-> g, restored |-> restored, tokens |-> tokens]]
       /\ loaded' = IF restored THEN [loaded EXCEPT ![g] = @ + 1] ELSE loaded
  /\ UNCHANGED <<groupVars, size, l2, sent, fillers, before>>
  /\ UNCHANGED <<mainVars, late, gaveUp>>

AllAnswered ==
  /\ GoTo("resend", "after")
  /\ \A p \in Prompts : gens[p] # Unanswered
  /\ UNCHANGED <<groupVars, callVars, run, raising, reports, verdict, loadVars>>

CheckRestores ==
  /\ GoTo("after", "finally")
  /\ \E g \in Servers :
       /\ Answers(g)
       /\ IF loaded[g] - before <= 0
          THEN raising' = TRUE /\ UNCHANGED reports
          ELSE reports' = [reports EXCEPT ![run] = gens] /\ UNCHANGED raising
  /\ Forget
  /\ UNCHANGED <<groupVars, run, verdict, loadVars>>

-----------------------------------------------------------------------------
(* finally, and what main() does next.                                     *)

(* run_config returns, or the exception goes on to end main().             *)
AfterFinally ==
  IF raising THEN pc' = "raised" /\ UNCHANGED run
  ELSE IF run < RunCount THEN pc' = "idle" /\ run' = run + 1
  ELSE pc' = "compare" /\ UNCHANGED run

\* MUTANT: run_config leaves its server running.
FinallyNothing ==
  /\ pc = "finally"
  /\ AfterFinally
  /\ UNCHANGED <<groupVars, callVars, raising, reports, verdict, loadVars>>

Finally ==
  /\ pc = "finally"
  /\ IF Exited(run)
     THEN AfterFinally /\ UNCHANGED groupVars
     ELSE pc' = "waitterm" /\ Killpg(run, "TERM") /\ UNCHANGED run
  /\ UNCHANGED <<callVars, raising, reports, verdict, loadVars>>

(* proc.wait(timeout=30)                                                   *)
WaitTerm ==
  /\ pc = "waitterm"
  /\ IF Exited(run) THEN AfterFinally ELSE pc' = "sigkill" /\ UNCHANGED run
  /\ UNCHANGED <<groupVars, callVars, raising, reports, verdict, loadVars>>

(* SIGKILL is sent and not waited for.                                     *)
SendKill ==
  /\ pc = "sigkill"
  /\ AfterFinally
  /\ Killpg(run, "KILL")
  /\ UNCHANGED <<callVars, raising, reports, verdict, loadVars>>

(* tokens_compared == 0                                                    *)
NothingCompared ==
  \A p \in Prompts : ~reports[1][p].tokens /\ ~reports[2][p].tokens

Compare ==
  /\ GoTo("compare", "done")
  /\ verdict' = IF NothingCompared THEN "INVALID" ELSE "agreement"
  /\ UNCHANGED <<groupVars, callVars, run, raising, reports, loadVars>>

-----------------------------------------------------------------------------
(* A filler request that nobody waits for any more is served.              *)
LateFiller(g) ==
  /\ Answers(g)
  /\ late[g] > 0
  /\ late' = [late EXCEPT ![g] = @ - 1]
  /\ MayLoadBack(g)
  /\ UNCHANGED groupVars

(* A process that is gone has lost its counters and its queue.             *)
ServerStep ==
  /\ \E g \in Servers :
       \/ (Ready(g) \/ WorkersExit(g)) /\ UNCHANGED <<loaded, late>>
       \/ /\ LeaderExits(g)
          /\ loaded' = [loaded EXCEPT ![g] = 0]
          /\ late' = [late EXCEPT ![g] = 0]
       \/ LateFiller(g)
  /\ UNCHANGED <<callVars, mainVars, gaveUp>>

MainStep ==
  \/ Launch \/ Healthy \/ Populate \/ ScrapeCapacity \/ FillerRequest \/ FillerDone
  \/ ScrapeBefore \/ (\E p \in Prompts : Resend(p)) \/ AllAnswered \/ CheckRestores
  \/ Finally \/ WaitTerm \/ SendKill \/ Compare

Next == MainStep \/ PopenFails \/ Raise \/ Interrupt \/ ServerStep

Spec == Init /\ [][Next]_vars

(* Every request has a timeout and the startup wait a deadline.            *)
FairSpec == Spec /\ WF_vars(MainStep \/ Raise)

-----------------------------------------------------------------------------
(* Properties.                                                             *)

(* The generations kept for a configuration were produced by the server    *)
(* that was launched with it, so bf16 is never compared with itself.       *)
ReportsOwnServer ==
  \A r \in Runs : reports[r] # NoReport => \A p \in Prompts : reports[r][p].by = r

(* A configuration is only reported if one of the very generations that    *)
(* will be compared was restored from L2; restores during the populate or  *)
(* the filler do not count.  The exception is a filler request that failed *)
(* and was passed over: served late, it counts among the restores.         *)
ReportsARestore ==
  \A r \in Runs : reports[r] # NoReport /\ r \notin gaveUp
                  => \E p \in Prompts : reports[r][p].restored

(* A launched configuration ends: with the next one, the comparison, or an *)
(* exception.                                                              *)
LaunchedConfigEnds ==
  \A r \in Runs : pc = "boot" /\ run = r ~> run > r \/ pc \in {"compare", "raised"}
=============================================================================
