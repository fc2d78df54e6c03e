---------------------------- MODULE SmokeTestProofs ----------------------------
(***************************************************************************)
(* Proofs about SmokeTest.  PassIsEarned is not inductive: it needs to     *)
(* know which checks exist at each place of main() (Order), that a check   *)
(* leaves no later one missing (Chain), and what a passed check saw        *)
(* (Witness), which holds on because the pool of a server that has         *)
(* answered once does not change any more.                                 *)
(***************************************************************************)
EXTENDS SmokeTest, TLAPS

Recorded == {"pass", "fail"}

Missing(S) == \A s \in S : steps[s] = "absent"

Order ==
  /\ pc = "idle" => Missing(StepNames)
  /\ pc \in {"boot", "info"} => Missing(StepNames \ {"boot"})
  /\ pc = "scrape" => Missing(StepNames \ {"boot"})
  /\ pc = "populate" => steps["populate"] = "unset"
                        /\ Missing({"backup", "width", "restore", "same"})
  /\ pc \in {"filler", "mid"} => steps["backup"] = "unset"
                                 /\ Missing({"width", "restore", "same"})
  /\ pc \in {"resend", "after"} => steps["restore"] = "unset" /\ Missing({"same"})
  /\ pc \in Trying \ {"boot", "info"} => steps["boot"] = "pass"

Chain ==
  /\ steps["capacity"] # "absent" => steps["boot"] = "pass" /\ steps["populate"] # "absent"
  /\ steps["populate"] \in Recorded => steps["backup"] # "absent"
  /\ steps["backup"] = "pass" => steps["width"] # "absent"
  /\ steps["backup"] \in Recorded => steps["restore"] # "absent"
  /\ steps["restore"] \in Recorded => steps["same"] # "absent"

Witness ==
  /\ steps["boot"] = "pass" => leader[Own] \in {"serving", "dead"}
  /\ steps["capacity"] # "absent" => steps["boot"] = "pass"
  /\ steps["width"] # "absent" => steps["boot"] = "pass"
  /\ steps["capacity"] = "pass" => WithinTwoPercent(pool[Own].capacity, RawCapacity)
  /\ steps["width"] = "pass" => WithinTwoPercent(pool[Own].width, Expected)
  /\ steps["populate"] = "pass" => texts.first # NoText
  /\ steps["backup"] = "pass" => mid.backed > 0
  /\ steps["restore"] = "pass" => loaded > mid.loaded
  /\ steps["same"] = "pass" => texts.first = texts.second

Judged == verdict = "PASS" => pc = "exited" /\ Verdict = "PASS"

IInv == TypeOK /\ Order /\ Chain /\ Witness /\ Judged

-----------------------------------------------------------------------------
(* What the scripts and the servers do to a group keeps it well typed.     *)
LEMMA GroupTyping ==
  ASSUME GroupTypeOK, NEW g \in Servers,
         \/ Popen(g) \/ Ready(g) \/ LeaderExits(g) \/ WorkersExit(g)
         \/ Killpg(g, "TERM") \/ Killpg(g, "KILL")
  PROVE  GroupTypeOK'
<1> USE DEF GroupTypeOK, LeaderState, Signal
<1>1. CASE Popen(g) BY <1>1 DEF Popen
<1>2. CASE Ready(g)
  <2>1. 0 \in 0..MaxBacked /\ (MaxBacked # 0 => 1 \in 0..MaxBacked)
    BY BackedAssumption
  <2>2. PICK w \in 0..(IF MaxBacked = 0 THEN 0 ELSE 1) : backed' = [backed EXCEPT ![g] = w]
    BY <1>2 DEF Ready
  <2>3. w \in 0..MaxBacked
    BY <2>1, BackedAssumption
  <2> QED BY <1>2, <2>2, <2>3 DEF Ready
<1>3. CASE LeaderExits(g)
  BY <1>3, BackedAssumption DEF LeaderExits
<1>4. CASE WorkersExit(g) BY <1>4 DEF WorkersExit
<1>5. CASE Killpg(g, "TERM") BY <1>5 DEF Killpg
<1>6. CASE Killpg(g, "KILL") BY <1>6 DEF Killpg
<1> QED BY <1>1, <1>2, <1>3, <1>4, <1>5, <1>6

(* Only a leader that is loading may still change what its L2 is.          *)
LEMMA PoolSettles ==
  ASSUME GroupTypeOK, NEW g \in Servers, leader[g] \in {"serving", "dead"},
         \E h \in Servers : Ready(h) \/ LeaderExits(h) \/ WorkersExit(h)
  PROVE  leader'[g] \in {"serving", "dead"} /\ pool'[g] = pool[g]
<1> PICK h \in Servers : Ready(h) \/ LeaderExits(h) \/ WorkersExit(h)
  OBVIOUS
<1>1. CASE Ready(h) BY <1>1 DEF Ready, GroupTypeOK
<1>2. CASE LeaderExits(h) BY <1>2 DEF LeaderExits, GroupTypeOK
<1>3. CASE WorkersExit(h) BY <1>3 DEF WorkersExit
<1> QED BY <1>1, <1>2, <1>3

(* The initial state is well typed.                                        *)
LEMMA TypingInit == Init => TypeOK
<1> SUFFICES ASSUME Init PROVE TypeOK
  OBVIOUS
<1>1. (CHOOSE p \in Pools : TRUE) \in Pools
  BY SmokeAssumption
<1>2. GroupTypeOK
  BY <1>1, BackedAssumption DEF Init, GroupTypeOK, LeaderState, Signal
<1> QED BY <1>2, SmokeAssumption DEF Init, TypeOK, Location, StepState

(* Every step keeps the state well typed.                                  *)
LEMMA TypingStep == TypeOK /\ [Next]_vars => TypeOK'
<1> SUFFICES ASSUME TypeOK, [Next]_vars PROVE TypeOK'
  OBVIOUS
<1>a. Own \in Servers /\ backed[Own] \in Nat
  BY SmokeAssumption, BackedAssumption DEF TypeOK, GroupTypeOK
<1>b. ASSUME UNCHANGED groupVars PROVE GroupTypeOK'
  BY <1>b DEF TypeOK, GroupTypeOK, groupVars
<1> USE DEF TypeOK, Location, Trying, Raising, Teardown, StepState, StepNames, GoTo, Outcome
<1>1. CASE PopenFails BY <1>1, <1>b DEF PopenFails
<1>2. CASE Launch BY <1>2, <1>a, GroupTyping DEF Launch
<1>3. CASE Abort BY <1>3, <1>b DEF Abort
<1>4. CASE Healthy BY <1>4, <1>b DEF Healthy
<1>5. CASE GetModelInfo BY <1>5, <1>b DEF GetModelInfo
<1>6. CASE CheckCapacity BY <1>6, <1>b DEF CheckCapacity
<1>7. CASE Populate BY <1>7, <1>b DEF Populate
<1>8. CASE FillerRequest
  <2>1. backed' \in [Servers -> 0..MaxBacked] /\ loaded' \in Nat
    BY <1>8, <1>a, BackedAssumption DEF FillerRequest, GroupTypeOK
  <2> QED BY <1>8, <2>1 DEF FillerRequest, GroupTypeOK
<1>9. CASE FillersSent BY <1>9, <1>b DEF FillersSent
<1>10. CASE CheckBackup BY <1>10, <1>a, <1>b DEF CheckBackup, MidScrape, WidthStep
<1>11. CASE Resend BY <1>11, <1>b DEF Resend
<1>12. CASE CheckRestore BY <1>12, <1>b DEF CheckRestore
<1>13. CASE Finally BY <1>13, <1>a, <1>b, GroupTyping DEF Finally, AfterFinally
<1>14. CASE WaitTerm BY <1>14, <1>b DEF WaitTerm, AfterFinally
<1>15. CASE SendKill BY <1>15, <1>a, GroupTyping DEF SendKill, AfterFinally
<1>16. CASE WriteReport BY <1>16, <1>b DEF WriteReport, Verdict
<1>17. CASE Interrupt BY <1>17, <1>b DEF Interrupt
<1>18. CASE ServerStep BY <1>18, <1>a, GroupTyping DEF ServerStep, testVars
<1>19. CASE UNCHANGED vars BY <1>19, <1>b DEF vars, testVars
<1> QED
  BY <1>1, <1>2, <1>3, <1>4, <1>5, <1>6, <1>7, <1>8, <1>9, <1>10, <1>11, <1>12, <1>13,
     <1>14, <1>15, <1>16, <1>17, <1>18, <1>19 DEF Next, MainStep

(* Every state of the test is well typed; in particular no exception it    *)
(* catches leaves main() anywhere but in finally.                          *)
THEOREM Typing == Spec => []TypeOK
<1> QED BY TypingInit, TypingStep, PTL DEF Spec

-----------------------------------------------------------------------------
LEMMA IInvInit == Init => IInv
<1> SUFFICES ASSUME Init PROVE IInv
  OBVIOUS
<1>1. TypeOK
  BY TypingInit
<1> QED BY <1>1 DEF Init, IInv, Order, Missing, Chain, Witness, Judged, Recorded, StepNames, Trying

(* Servers disturb nothing but what a check has not looked at yet.         *)
LEMMA IInvServerStep ==
  ASSUME IInv, ServerStep
  PROVE  Order' /\ Chain' /\ Witness' /\ Judged'
<1>1. Own \in Servers /\ GroupTypeOK /\ UNCHANGED testVars
  BY SmokeAssumption DEF IInv, TypeOK, ServerStep
<1>2. steps["boot"] = "pass"
        => leader'[Own] \in {"serving", "dead"} /\ pool'[Own] = pool[Own]
  BY <1>1, PoolSettles DEF IInv, Witness, ServerStep
<1>3. Witness'
  BY <1>1, <1>2 DEF IInv, Witness, testVars
<1> QED
  BY <1>1, <1>3 DEF IInv, Order, Missing, Chain, Judged, Verdict, Recorded, testVars

(* A step of main() that leaves the checks and what they saw alone.        *)
LEMMA IInvQuietStep ==
  ASSUME IInv, UNCHANGED <<leader, pool, steps, loaded, texts, mid, verdict>>,
         pc # "exited", pc' \notin Trying \cup {"idle"}
  PROVE  Order' /\ Chain' /\ Witness' /\ Judged'
<1>1. Order' /\ Chain'
  BY DEF IInv, Order, Chain, Trying, Missing, Recorded
<1>2. Witness'
  BY DEF IInv, Witness
<1> QED BY <1>1, <1>2 DEF IInv, Judged

LEMMA IInvStep == IInv /\ [Next]_vars => IInv'
<1> SUFFICES ASSUME IInv, [Next]_vars PROVE IInv'
  OBVIOUS
<1>a. TypeOK /\ TypeOK'
  BY TypingStep DEF IInv
<1>b. Own \in Servers /\ steps \in [StepNames -> StepState] /\ (pc # "exited" => verdict # "PASS")
  BY <1>a, SmokeAssumption DEF IInv, TypeOK, Judged
<1>c. Answers(Own) => leader[Own] = "serving"
  BY DEF Answers
<1> SUFFICES Order' /\ Chain' /\ Witness' /\ Judged'
  BY <1>a DEF IInv
<1> USE DEF GoTo
<1>1. CASE PopenFails BY <1>1, IInvQuietStep DEF PopenFails, groupVars, Trying
<1>2. CASE Launch
  BY <1>2, <1>b DEF Launch, Popen, IInv, Order, Missing, Chain, Witness, Judged, Recorded,
                    StepNames, Trying
<1>3. CASE Abort BY <1>3, IInvQuietStep DEF Abort, groupVars, Trying, Raising
<1>4. CASE Healthy
  BY <1>4, <1>b DEF Healthy, groupVars, IInv, Order, Missing, Chain, Witness, Judged, Trying
<1>5. CASE GetModelInfo
  BY <1>5, <1>b, <1>c DEF GetModelInfo, groupVars, IInv, Order, Missing, Chain, Witness, Judged,
                          Recorded, StepNames, Trying
<1>6. CASE CheckCapacity
  BY <1>6, <1>b, <1>c DEF CheckCapacity, groupVars, IInv, Order, Missing, Chain, Witness, Judged,
                          Recorded, StepNames, Trying, Outcome
<1>7. CASE Populate
  BY <1>7, <1>a, <1>b, <1>c DEF Populate, groupVars, IInv, TypeOK, Order, Missing, Chain, Witness,
                          Judged, Recorded, StepNames, Trying, Outcome
<1>8. CASE FillerRequest
  BY <1>8, <1>b DEF FillerRequest, IInv, Order, Missing, Chain, Witness, Judged, Recorded, Trying
<1>9. CASE FillersSent
  BY <1>9, <1>b DEF FillersSent, groupVars, IInv, Order, Missing, Chain, Witness, Judged, Trying
<1>10. CASE CheckBackup
  <2>1. /\ UNCHANGED <<leader, pool, loaded, texts, verdict>>
        /\ pc = "mid" /\ pc' = "resend" /\ leader[Own] = "serving"
        /\ mid'.backed = backed[Own] /\ mid'.loaded = loaded
    BY <1>10, <1>c DEF CheckBackup, MidScrape, groupVars
  <2>2. steps' = [steps EXCEPT !["backup"] = Outcome(backed[Own] > 0),
                               !["width"] = WidthStep(backed[Own]),
                               !["restore"] = "unset"]
    BY <1>10 DEF CheckBackup
  <2>3. \A s \in StepNames \ {"backup", "width", "restore"} : steps'[s] = steps[s]
    BY <1>b, <2>2
  <2>4. steps'["backup"] = Outcome(backed[Own] > 0) /\ steps'["restore"] = "unset"
    BY <1>b, <2>2 DEF StepNames
  <2>5. steps'["width"] = WidthStep(backed[Own])
    BY <1>b, <2>2 DEF StepNames
  <2>6. backed[Own] \in Nat
    BY <1>a, <1>b, BackedAssumption DEF TypeOK, GroupTypeOK
  <2>7. Order' /\ Judged'
    BY <2>1, <2>3, <2>4, <1>b DEF IInv, Order, Missing, Judged, StepNames, Trying
  <2>8. Chain'
    BY <2>1, <2>3, <2>4, <2>5, <2>6 DEF IInv, Order, Chain, Recorded, StepNames, Outcome, WidthStep
  <2>9. Witness'
    BY <2>1, <2>3, <2>4, <2>5 DEF IInv, Order, Witness, StepNames, Trying, Outcome, WidthStep
  <2> QED BY <2>7, <2>8, <2>9
<1>11. CASE Resend
  <2>1. /\ UNCHANGED <<leader, pool, steps, mid, verdict>>
        /\ pc = "resend" /\ pc' = "after" /\ texts'.first = texts.first
    BY <1>11, <1>a DEF Resend, groupVars, TypeOK
  <2>2. steps["restore"] = "unset" /\ steps["same"] = "absent"
    BY <2>1 DEF IInv, Order, Missing
  <2>3. Order' /\ Chain' /\ Judged'
    BY <2>1, <2>2, <1>b DEF IInv, Order, Missing, Chain, Judged, Recorded, Trying
  <2>4. Witness'
    BY <2>1, <2>2 DEF IInv, Witness
  <2> QED BY <2>3, <2>4
<1>12. CASE CheckRestore
  <2>1. /\ UNCHANGED <<leader, pool, loaded, texts, mid, verdict>>
        /\ pc = "after" /\ pc' = "finally"
    BY <1>12 DEF CheckRestore, groupVars
  <2>2. /\ \A s \in StepNames \ {"restore", "same"} : steps'[s] = steps[s]
        /\ steps'["restore"] = Outcome(loaded - mid.loaded > 0)
        /\ steps'["same"] = Outcome(texts.first = texts.second)
    BY <1>12, <1>b DEF CheckRestore, StepNames
  <2>3. loaded \in Nat /\ mid.loaded \in Nat
    BY <1>a DEF TypeOK
  <2>4. Order' /\ Judged'
    BY <2>1, <1>b DEF Order, Judged, Trying
  <2>5. Chain'
    BY <2>1, <2>2 DEF IInv, Order, Chain, Recorded, StepNames, Outcome
  <2>6. Witness'
    BY <2>1, <2>2, <2>3 DEF IInv, Witness, StepNames, Outcome
  <2> QED BY <2>4, <2>5, <2>6
<1>13. CASE Finally
  BY <1>13, IInvQuietStep DEF Finally, AfterFinally, Killpg, groupVars, Trying
<1>14. CASE WaitTerm BY <1>14, IInvQuietStep DEF WaitTerm, AfterFinally, groupVars, Trying
<1>15. CASE SendKill BY <1>15, IInvQuietStep DEF SendKill, AfterFinally, Killpg, Trying
<1>16. CASE WriteReport
  <2>1. /\ UNCHANGED <<leader, pool, steps, loaded, texts, mid>>
        /\ pc' = "exited" /\ verdict' = Verdict
    BY <1>16 DEF WriteReport, groupVars
  <2>2. Order' /\ Judged'
    BY <2>1 DEF Order, Judged, Verdict, Trying
  <2>3. Chain' /\ Witness'
    BY <2>1 DEF IInv, Chain, Witness
  <2> QED BY <2>2, <2>3
<1>17. CASE Interrupt BY <1>17, IInvQuietStep DEF Interrupt, groupVars, Trying, Teardown
<1>18. CASE ServerStep BY <1>18, IInvServerStep
<1>19. CASE UNCHANGED vars
  <2>1. UNCHANGED <<leader, pool, testVars>>
    BY <1>19 DEF vars, groupVars
  <2>2. Order' /\ Chain'
    BY <2>1 DEF testVars, IInv, Order, Missing, Chain, Recorded
  <2>3. Witness' /\ Judged'
    BY <2>1 DEF testVars, IInv, Witness, Judged, Verdict
  <2> QED BY <2>2, <2>3
<1> QED
  BY <1>1, <1>2, <1>3, <1>4, <1>5, <1>6, <1>7, <1>8, <1>9, <1>10, <1>11, <1>12, <1>13,
     <1>14, <1>15, <1>16, <1>17, <1>18, <1>19 DEF Next, MainStep

(* For any pool, widths and texts: a PASS that includes the capacity check *)
(* means that every check was made and saw what it is named for.           *)
THEOREM EarnedPass == Spec => []PassIsEarned
<1>1. IInv => PassIsEarned
  <2> SUFFICES ASSUME IInv, verdict = "PASS", steps["capacity"] # "absent"
               PROVE  /\ \A s \in StepNames : steps[s] = "pass"
                      /\ WithinTwoPercent(pool[Own].capacity, RawCapacity)
                      /\ WithinTwoPercent(pool[Own].width, Expected)
                      /\ mid.backed > 0
                      /\ loaded > mid.loaded
                      /\ texts.first = texts.second /\ texts.first # NoText
    BY DEF PassIsEarned
  <2>1. \A s \in StepNames : steps[s] \in {"absent", "pass"}
    BY DEF IInv, Judged, Verdict
  <2>2. \A s \in StepNames : steps[s] = "pass"
    BY <2>1 DEF IInv, Chain, Recorded, StepNames
  <2> QED BY <2>2 DEF IInv, Witness, StepNames
<1> QED BY <1>1, IInvInit, IInvStep, PTL DEF Spec
=============================================================================
