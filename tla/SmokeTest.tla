------------------------------- MODULE SmokeTest -------------------------------
(***************************************************************************)
(* scripts/smoke_test.py: one server, one sequence of seven named checks   *)
(* (the docstring's six, plus the width of what L2 holds), one verdict.    *)
(* A check is a Step that is appended before the work it judges and        *)
(* recorded after it, so an exception in between leaves it unrecorded.     *)
(***************************************************************************)
EXTENDS ServerGroup

CONSTANTS
  Own,             \* the server that this test launches
  Compressed,      \* --config int8 (otherwise bf16)
  EncodedWidth,    \* V1_LAYOUT.bytes_per_token_all_layers(LAYER_NUM)
  BaselineWidth,   \* expected_baseline
  HostBytes,       \* --host-size, in bytes
  Texts,           \* what a generation may return
  NoText,          \* the empty generation
  Interrupts       \* may Ctrl-C be pressed?

Expected == IF Compressed THEN EncodedWidth ELSE BaselineWidth

ASSUME SmokeAssumption ==
  /\ Servers = {Own}
  /\ Compressed \in BOOLEAN
  /\ EncodedWidth \in Nat \ {0}
  /\ BaselineWidth \in Nat \ {0}
  /\ HostBytes \in Nat
  /\ NoText \in Texts
  /\ Interrupts \in BOOLEAN
  /\ Pools # {}
  /\ Pools \subseteq [width : Nat, capacity : Nat]

VARIABLES
  pc,            \* where main() is
  steps,         \* [StepNames -> StepState]: the list `steps`, in this order
  loaded,        \* load_back_tokens_total of the server
  texts,         \* `text` and `second_text`
  mid,           \* the scrape between the fillers and the second generation
  error,         \* report["error"] is set
  verdict,       \* report["verdict"], once the report is written
  interrupted    \* Ctrl-C was pressed

testVars == <<pc, steps, loaded, texts, mid, error, verdict, interrupted>>
vars == <<groupVars, testVars>>

StepNames == {"boot", "capacity", "populate", "backup", "width", "restore", "same"}
StepState == {"absent", "unset", "pass", "fail"}

Trying == {"boot", "info", "scrape", "populate", "filler", "mid", "resend", "after"}
Raising == Trying \ {"filler"}   \* the filler loop catches what its requests raise
Teardown == {"finally", "waitterm", "sigkill"}
Location == {"idle", "report", "exited"} \cup Trying \cup Teardown

Init ==
  /\ leader = [g \in Servers |-> "none"]
  /\ workers = [g \in Servers |-> FALSE]
  /\ sig = [g \in Servers |-> "none"]
  /\ port = NoServer
  /\ pool = [g \in Servers |-> CHOOSE p \in Pools : TRUE]
  /\ backed = [g \in Servers |-> 0]
  /\ pc = "idle"
  /\ steps = [s \in StepNames |-> "absent"]
  /\ loaded = 0
  /\ texts = [first |-> NoText, second |-> NoText]
  /\ mid = [backed |-> 0, loaded |-> 0]
  /\ error = FALSE
  /\ verdict = "none"
  /\ interrupted = FALSE

GoTo(from, to) == pc = from /\ pc' = to

Outcome(b) == IF b THEN "pass" ELSE "fail"

-----------------------------------------------------------------------------
(* Starting.  An exception before the try block ends main() without a      *)
(* report: the checkout that Popen takes as its directory is not there.    *)

PopenFails ==
  /\ GoTo("idle", "exited")
  /\ UNCHANGED <<groupVars, steps, loaded, texts, mid, error, verdict, interrupted>>

Launch ==
  /\ GoTo("idle", "boot")
  /\ Popen(Own)
  /\ steps' = [steps EXCEPT !["boot"] = "unset"]
  /\ UNCHANGED <<loaded, texts, mid, error, verdict, interrupted>>

\* MUTANT: an exception leaves main() without going through finally.
AbortUncaught ==
  /\ pc \in Raising
  /\ pc' = "raised"
  /\ error' = TRUE
  /\ UNCHANGED <<groupVars, steps, loaded, texts, mid, verdict, interrupted>>

\* MUTANT: requests and the startup wait have no timeout.
AbortOnlyWithoutServer ==
  /\ pc \in Raising
  /\ Exited(Own)
  /\ pc' = "finally"
  /\ error' = TRUE
  /\ UNCHANGED <<groupVars, steps, loaded, texts, mid, verdict, interrupted>>

(* Whatever raises inside the try block, and main() catches: a server that *)
(* is gone, a refused request, a timeout, the startup deadline.            *)
Abort ==
  /\ pc \in Raising
  /\ pc' = "finally"
  /\ error' = TRUE
  /\ UNCHANGED <<groupVars, steps, loaded, texts, mid, verdict, interrupted>>

Healthy ==
  /\ GoTo("boot", "info")
  /\ Answers(Own)
  /\ UNCHANGED <<groupVars, steps, loaded, texts, mid, error, verdict, interrupted>>

GetModelInfo ==
  /\ GoTo("info", "scrape")
  /\ Answers(Own)
  /\ steps' = [steps EXCEPT !["boot"] = "pass"]
  /\ UNCHANGED <<groupVars, loaded, texts, mid, error, verdict, interrupted>>

-----------------------------------------------------------------------------
(* The checks.                                                             *)

Distance(a, b) == IF a < b THEN b - a ELSE a - b

(* abs(measured - expected) / expected < 0.02                              *)
WithinTwoPercent(measured, expected) == 50 * Distance(measured, expected) < expected

RawCapacity == HostBytes \div Expected + 1

(* `capacity` is created and recorded after the scrape, so a scrape that   *)
(* raises leaves no trace of it among the steps.                           *)
CheckCapacity ==
  /\ GoTo("scrape", "populate")
  /\ Answers(Own)
  /\ LET total == pool[Own].capacity
     IN  steps' = [steps EXCEPT
           !["capacity"] = Outcome(total > 0 /\ WithinTwoPercent(total, RawCapacity)),
           !["populate"] = "unset"]
  /\ UNCHANGED <<groupVars, loaded, texts, mid, error, verdict, interrupted>>

Populate ==
  /\ GoTo("populate", "filler")
  /\ Answers(Own)
  /\ \E t \in Texts :
       /\ texts' = [texts EXCEPT !.first = t]
       /\ steps' = [steps EXCEPT !["populate"] = Outcome(t # NoText), !["backup"] = "unset"]
  /\ UNCHANGED <<groupVars, loaded, mid, error, verdict, interrupted>>

(* One answered filler request: it may evict something into L2, or load    *)
(* back the part of the chain that was.  A refused one is forgotten.       *)
FillerRequest ==
  /\ pc = "filler"
  /\ Answers(Own)
  /\ \/ /\ backed[Own] < MaxBacked
        /\ backed' = [backed EXCEPT ![Own] = @ + 1]
        /\ UNCHANGED loaded
     \/ /\ loaded < backed[Own]
        /\ loaded' = loaded + 1
        /\ UNCHANGED backed
  /\ UNCHANGED <<leader, workers, sig, port, pool>>
  /\ UNCHANGED <<pc, steps, texts, mid, error, verdict, interrupted>>

FillersSent ==
  /\ GoTo("filler", "mid")
  /\ UNCHANGED <<groupVars, steps, loaded, texts, mid, error, verdict, interrupted>>

MidScrape(g) == [backed |-> backed[g], loaded |-> loaded]

(* bytes / tokens, which is the pool's size_per_token: there is no such    *)
(* check when nothing was backed up.                                       *)
WidthStep(tokens) ==
  IF tokens = 0 THEN "absent" ELSE Outcome(WithinTwoPercent(pool[Own].width, Expected))

CheckBackup ==
  /\ GoTo("mid", "resend")
  /\ Answers(Own)
  /\ mid' = MidScrape(Own)
  /\ steps' = [steps EXCEPT !["backup"] = Outcome(backed[Own] > 0),
                            !["width"] = WidthStep(backed[Own]),
                            !["restore"] = "unset"]
  /\ UNCHANGED <<groupVars, loaded, texts, error, verdict, interrupted>>

(* The same prompt again.  A prefix that was evicted to L2 is loaded back. *)
Resend ==
  /\ GoTo("resend", "after")
  /\ Answers(Own)
  /\ \E t \in Texts : texts' = [texts EXCEPT !.second = t]
  /\ \/ UNCHANGED loaded
     \/ backed[Own] > 0 /\ loaded' = loaded + 1
  /\ UNCHANGED <<groupVars, steps, mid, error, verdict, interrupted>>

CheckRestore ==
  /\ GoTo("after", "finally")
  /\ Answers(Own)
  /\ steps' = [steps EXCEPT !["restore"] = Outcome(loaded - mid.loaded > 0),
                            !["same"] = Outcome(texts.first = texts.second)]
  /\ UNCHANGED <<groupVars, loaded, texts, mid, error, verdict, interrupted>>

-----------------------------------------------------------------------------
(* finally, and the verdict.                                               *)

AfterFinally == IF interrupted THEN "exited" ELSE "report"

Finally ==
  /\ pc = "finally"
  /\ IF Exited(Own)
     THEN pc' = AfterFinally /\ UNCHANGED groupVars
     ELSE pc' = "waitterm" /\ Killpg(Own, "TERM")
  /\ UNCHANGED <<steps, loaded, texts, mid, error, verdict, interrupted>>

(* proc.wait(timeout=30)                                                   *)
WaitTerm ==
  /\ pc = "waitterm"
  /\ pc' = IF Exited(Own) THEN AfterFinally ELSE "sigkill"
  /\ UNCHANGED <<groupVars, steps, loaded, texts, mid, error, verdict, interrupted>>

(* SIGKILL is sent and not waited for.                                     *)
SendKill ==
  /\ GoTo("sigkill", AfterFinally)
  /\ Killpg(Own, "KILL")
  /\ UNCHANGED <<steps, loaded, texts, mid, error, verdict, interrupted>>

\* MUTANT: the verdict of an earlier version, which only looked for failures.
VerdictOfFailures ==
  IF \A s \in StepNames : steps[s] # "fail" THEN "PASS" ELSE "FAIL"

Verdict ==
  IF \A s \in StepNames : steps[s] \in {"absent", "pass"} THEN "PASS" ELSE "FAIL"

WriteReport ==
  /\ GoTo("report", "exited")
  /\ verdict' = Verdict
  /\ UNCHANGED <<groupVars, steps, loaded, texts, mid, error, interrupted>>

(* KeyboardInterrupt is not an Exception: finally runs, no report follows. *)
Interrupt ==
  /\ Interrupts
  /\ \/ pc \in Trying /\ pc' = "finally"
     \/ pc \in Teardown \cup {"report"} /\ pc' = "exited"
  /\ interrupted' = TRUE
  /\ UNCHANGED <<groupVars, steps, loaded, texts, mid, error, verdict>>

-----------------------------------------------------------------------------
ServerStep ==
  /\ Ready(Own) \/ LeaderExits(Own) \/ WorkersExit(Own)
  /\ UNCHANGED testVars

MainStep ==
  \/ Launch \/ Healthy \/ GetModelInfo \/ CheckCapacity \/ Populate
  \/ FillersSent \/ CheckBackup \/ Resend \/ CheckRestore
  \/ Finally \/ WaitTerm \/ SendKill \/ WriteReport

Next ==
  \/ MainStep \/ PopenFails \/ Abort \/ FillerRequest \/ Interrupt
  \/ ServerStep

Spec == Init /\ [][Next]_vars

(* Every request of the test has a timeout and the startup wait a          *)
(* deadline, so a step that cannot go on aborts.                           *)
FairSpec == Spec /\ WF_vars(MainStep \/ Abort)

-----------------------------------------------------------------------------
(* Properties.                                                             *)

TypeOK ==
  /\ GroupTypeOK
  /\ pc \in Location
  /\ steps \in [StepNames -> StepState]
  /\ loaded \in Nat
  /\ texts \in [first : Texts, second : Texts]
  /\ mid \in [backed : Nat, loaded : Nat]
  /\ error \in BOOLEAN
  /\ verdict \in {"none", "PASS", "FAIL"}
  /\ interrupted \in BOOLEAN

(* A PASS that got as far as the capacity check is the real thing: L2 has  *)
(* the expected size and width, something was demoted into it and loaded   *)
(* back by the second generation, which said the same as the first.        *)
PassIsEarned ==
  verdict = "PASS" /\ steps["capacity"] # "absent" =>
    /\ \A s \in StepNames : steps[s] = "pass"
    /\ WithinTwoPercent(pool[Own].capacity, RawCapacity)
    /\ WithinTwoPercent(pool[Own].width, Expected)
    /\ mid.backed > 0
    /\ loaded > mid.loaded
    /\ texts.first = texts.second /\ texts.first # NoText

(* A run that an exception aborted is never reported as a PASS.            *)
AbortIsNotPass == error => verdict # "PASS"

(* A launched test ends with a verdict, unless Ctrl-C was pressed.         *)
LaunchedTestIsJudged == pc = "boot" ~> verdict # "none" \/ interrupted
=============================================================================
