-------------------------- MODULE QualityCompareProofs --------------------------
(***************************************************************************)
(* Proofs about quality_compare.py: first about QualityCompare, its        *)
(* configurations, then about AgreementMetrics, its scores.  Neither       *)
(* property of QualityCompare says anything about the servers, which       *)
(* decide them: Alone says that nobody but the server of the current       *)
(* configuration can answer while it is measured, Collected what its       *)
(* generations and its restore counter have to do with each other before   *)
(* they are reported.                                                      *)
(***************************************************************************)
EXTENDS QualityCompare, AgreementMetrics, FiniteSetTheorems, TLAPS

Answer == [by : Servers \cup {NoServer}, restored : BOOLEAN, tokens : BOOLEAN]

TypeOK ==
  /\ leader \in [Servers -> LeaderState]
  /\ sig \in [Servers -> Signal]
  /\ port \in Servers \cup {NoServer}
  /\ run \in Runs
  /\ before \in Nat
  /\ loaded \in [Servers -> Nat]
  /\ late \in [Servers -> Nat]
  /\ gens \in [Prompts -> Answer]
  /\ DOMAIN reports = Runs

(* The group of an earlier configuration has exited or was signalled, that *)
(* of a later one does not exist yet; so whoever answers is the current    *)
(* one.  Ctrl-C in the teardown leaves it otherwise, and ends main().      *)
Alone ==
  pc # "raised" =>
    /\ \A g \in Runs : g < run => leader[g] = "dead" \/ sig[g] # "none"
    /\ \A g \in Runs : g > run => leader[g] = "none"

(* A server only owes filler to a configuration that gave one up.          *)
Owed == \A g \in Servers : late[g] > 0 => g \in gaveUp

(* While prompts are sent again, every generation is the current server's, *)
(* and its restore counter has not grown without one that was restored, or *)
(* a filler request that was given up.                                     *)
Collected ==
  /\ pc \notin {"resend", "after"} => \A p \in Prompts : gens[p] = Unanswered
  /\ pc \in {"resend", "after"} =>
       /\ \A p \in Prompts : gens[p] = Unanswered \/ gens[p].by = run
       /\ loaded[run] > before => run \in gaveUp \/ \E p \in Prompts : gens[p].restored
  /\ pc = "after" => \A p \in Prompts : gens[p] # Unanswered

IInv == TypeOK /\ Alone /\ Owed /\ Collected /\ ReportsOwnServer /\ ReportsARestore

-----------------------------------------------------------------------------
LEMMA UnansweredTyping == Unanswered \in Answer /\ Unanswered.restored = FALSE
BY DEF Unanswered, Answer

(* Whoever answers is the server of the current configuration.             *)
LEMMA OnlyOwnAnswers ==
  ASSUME TypeOK, Alone, pc # "raised", NEW g \in Servers, Answers(g)
  PROVE  g = run
<1>1. g \in Int /\ run \in Int /\ g \in Runs
  BY QualityAssumption DEF TypeOK, Runs
<1>2. ~(g < run) /\ ~(g > run)
  BY <1>1 DEF Alone, Answers
<1> QED BY <1>1, <1>2

LEMMA IInvInit == Init => IInv
<1> SUFFICES ASSUME Init PROVE IInv
  OBVIOUS
<1>1. TypeOK
  BY QualityAssumption, UnansweredTyping DEF Init, TypeOK, Runs, LeaderState, Signal
<1>2. Alone
  BY QualityAssumption DEF Init, Alone, Runs
<1>3. Owed /\ Collected
  BY DEF Init, Owed, Collected
<1>4. ReportsOwnServer /\ ReportsARestore
  BY DEF Init, ReportsOwnServer, ReportsARestore
<1> QED BY <1>1, <1>2, <1>3, <1>4 DEF IInv

-----------------------------------------------------------------------------
LEMMA TypingStep == TypeOK /\ [Next]_vars => TypeOK'
<1> SUFFICES ASSUME TypeOK, [Next]_vars PROVE TypeOK'
  OBVIOUS
<1>a. run \in Servers /\ (run < RunCount => run + 1 \in Runs)
  BY QualityAssumption DEF TypeOK, Runs
<1>b. ASSUME Forget PROVE before' \in Nat /\ gens' \in [Prompts -> Answer]
  BY <1>b, UnansweredTyping DEF Forget
<1>c. ASSUME NEW g \in Servers, MayLoadBack(g) PROVE loaded' \in [Servers -> Nat]
  BY <1>c DEF MayLoadBack, TypeOK
<1>d. ASSUME AfterFinally PROVE run' \in Runs
  BY <1>a, <1>d DEF AfterFinally, TypeOK
<1> USE DEF TypeOK, LeaderState, Signal, groupVars, callVars, mainVars, loadVars
<1>1. CASE PopenFails BY <1>1 DEF PopenFails
<1>2. CASE Launch BY <1>2, <1>a DEF Launch, Popen
<1>3. CASE Raise BY <1>3, <1>b DEF Raise
<1>4. CASE Interrupt BY <1>4, <1>b DEF Interrupt
<1>5. CASE Healthy BY <1>5 DEF Healthy
<1>6. CASE Populate BY <1>6, <1>c DEF Populate
<1>7. CASE ScrapeCapacity BY <1>7 DEF ScrapeCapacity
<1>8. CASE FillerRequest
  BY <1>8, <1>c DEF FillerRequest, FillerAnswered, FillerFails
<1>9. CASE FillerDone BY <1>9, <1>b DEF FillerDone
<1>10. CASE ScrapeBefore BY <1>10 DEF ScrapeBefore, SnapshotBefore
<1>11. ASSUME NEW p \in Prompts, Resend(p) PROVE TypeOK'
  <2>1. PICK g \in Servers, restored \in BOOLEAN, tokens \in BOOLEAN :
          /\ gens' = [gens EXCEPT ![p] = [by |-> g, restored |-> restored, tokens |-> tokens]]
          /\ loaded' = IF restored THEN [loaded EXCEPT ![g] = @ + 1] ELSE loaded
    BY <1>11 DEF Resend
  <2>2. [by |-> g, restored |-> restored, tokens |-> tokens] \in Answer
    BY DEF Answer
  <2>3. gens' \in [Prompts -> Answer]
    BY <2>1, <2>2
  <2>4. loaded' \in [Servers -> Nat]
    BY <2>1
  <2> QED BY <1>11, <2>3, <2>4 DEF Resend
<1>12. CASE AllAnswered BY <1>12 DEF AllAnswered
<1>13. CASE CheckRestores BY <1>13, <1>b DEF CheckRestores
<1>14. CASE Finally BY <1>14, <1>a, <1>d DEF Finally, Killpg
<1>15. CASE WaitTerm BY <1>15, <1>d DEF WaitTerm
<1>16. CASE SendKill BY <1>16, <1>a, <1>d DEF SendKill, Killpg
<1>17. CASE Compare BY <1>17 DEF Compare
<1>18. CASE ServerStep
  <2>1. PICK g \in Servers :
          \/ (Ready(g) \/ WorkersExit(g)) /\ UNCHANGED <<loaded, late>>
          \/ /\ LeaderExits(g)
             /\ loaded' = [loaded EXCEPT ![g] = 0]
             /\ late' = [late EXCEPT ![g] = 0]
          \/ LateFiller(g)
    BY <1>18 DEF ServerStep
  <2>2. CASE LateFiller(g)
    BY <1>18, <1>c, <2>2 DEF ServerStep, LateFiller
  <2> QED BY <1>18, <2>1, <2>2 DEF ServerStep, Ready, WorkersExit, LeaderExits
<1>19. CASE UNCHANGED vars BY <1>19 DEF vars
<1> QED
  BY <1>1, <1>2, <1>3, <1>4, <1>5, <1>6, <1>7, <1>8, <1>9, <1>10, <1>11, <1>12, <1>13,
     <1>14, <1>15, <1>16, <1>17, <1>18, <1>19 DEF Next, MainStep

-----------------------------------------------------------------------------
(* The configuration changes only when its group has exited or has been    *)
(* signalled.                                                              *)
LEMMA AloneStep ==
  ASSUME TypeOK, Alone, [Next]_vars
  PROVE  Alone'
<1>a. Servers = Runs /\ run \in Int /\ \A g \in Runs : g \in Int
  BY QualityAssumption DEF TypeOK, Runs
<1>b. ASSUME UNCHANGED <<leader, sig, run>>, pc # "raised" PROVE Alone'
  BY <1>b DEF Alone
<1>c. ASSUME UNCHANGED leader, \A g \in Runs : g # run => sig'[g] = sig[g],
             pc # "raised", AfterFinally, leader[run] = "dead" \/ sig'[run] # "none"
      PROVE  Alone'
  <2>1. CASE run' = run
    BY <1>a, <1>c, <2>1 DEF Alone
  <2>2. CASE run' = run + 1
    BY <1>a, <1>c, <2>2 DEF Alone
  <2> QED BY <1>c, <2>1, <2>2 DEF AfterFinally
<1> USE DEF GoTo, Trying, Teardown, groupVars, callVars, mainVars, loadVars
<1>1. CASE PopenFails BY <1>1 DEF PopenFails, Alone
<1>2. CASE Launch BY <1>1, <1>2, <1>a DEF Launch, Popen, Alone, TypeOK
<1>3. CASE Raise BY <1>3, <1>b DEF Raise
<1>4. CASE Interrupt BY <1>4, <1>b DEF Interrupt
<1>5. CASE Healthy BY <1>5, <1>b DEF Healthy
<1>6. CASE Populate BY <1>6, <1>b DEF Populate
<1>7. CASE ScrapeCapacity BY <1>7, <1>b DEF ScrapeCapacity
<1>8. CASE FillerRequest BY <1>8, <1>b DEF FillerRequest
<1>9. CASE FillerDone BY <1>9, <1>b DEF FillerDone
<1>10. CASE ScrapeBefore BY <1>10, <1>b DEF ScrapeBefore
<1>11. CASE \E p \in Prompts : Resend(p) BY <1>11, <1>b DEF Resend
<1>12. CASE AllAnswered BY <1>12, <1>b DEF AllAnswered
<1>13. CASE CheckRestores BY <1>13, <1>b DEF CheckRestores
<1>14. CASE Finally
  <2>1. CASE Exited(run)
    BY <1>14, <1>c, <2>1 DEF Finally, Exited
  <2>2. CASE ~Exited(run)
    BY <1>14, <1>a, <2>2 DEF Finally, Killpg, Alone, TypeOK
  <2> QED BY <2>1, <2>2
<1>15. CASE WaitTerm
  <2>1. CASE Exited(run)
    BY <1>15, <1>c, <2>1 DEF WaitTerm, Exited
  <2>2. CASE ~Exited(run)
    BY <1>15, <1>b, <2>2 DEF WaitTerm
  <2> QED BY <2>1, <2>2
<1>16. CASE SendKill
  <2>1. sig' = [sig EXCEPT ![run] = "KILL"] /\ AfterFinally /\ UNCHANGED leader /\ pc # "raised"
    BY <1>16 DEF SendKill, Killpg
  <2>2. sig'[run] # "none" /\ \A g \in Runs : g # run => sig'[g] = sig[g]
    BY <2>1, <1>a DEF TypeOK
  <2> QED BY <1>c, <2>1, <2>2
<1>17. CASE Compare BY <1>17, <1>b DEF Compare
<1>18. CASE ServerStep
  <2>1. PICK h \in Servers : Ready(h) \/ WorkersExit(h) \/ LeaderExits(h) \/ LateFiller(h)
    BY <1>18 DEF ServerStep
  <2>2. /\ UNCHANGED <<sig, run, pc>>
        /\ \A g \in Runs : (leader[g] = "dead" => leader'[g] = "dead")
                           /\ (leader[g] = "none" => leader'[g] = "none")
    BY <1>18, <1>a, <2>1 DEF ServerStep, Ready, WorkersExit, LeaderExits, LateFiller, TypeOK
  <2> QED BY <2>2, <1>a DEF Alone
<1>19. CASE UNCHANGED vars BY <1>19 DEF vars, Alone
<1> QED
  BY <1>1, <1>2, <1>3, <1>4, <1>5, <1>6, <1>7, <1>8, <1>9, <1>10, <1>11, <1>12, <1>13,
     <1>14, <1>15, <1>16, <1>17, <1>18, <1>19 DEF Next, MainStep

-----------------------------------------------------------------------------
(* Filler is given up to the server of the current configuration alone.    *)
LEMMA OwedStep ==
  ASSUME TypeOK, Alone, Owed, [Next]_vars
  PROVE  Owed' /\ gaveUp \subseteq gaveUp'
<1>1. CASE UNCHANGED <<late, gaveUp>>
  BY <1>1 DEF Owed
<1>2. CASE FillerRequest
  <2>1. CASE FillerAnswered
    BY <1>1, <2>1 DEF FillerAnswered
  <2>2. CASE FillerFails
    <3>1. gaveUp' = gaveUp \cup {run}
      BY <2>2 DEF FillerFails
    <3>2. CASE UNCHANGED late
      BY <3>1, <3>2 DEF Owed
    <3>3. ASSUME NEW g \in Servers, Answers(g), late' = [late EXCEPT ![g] = @ + 1]
          PROVE  Owed'
      <4>1. g = run
        BY <1>2, <3>3, OnlyOwnAnswers DEF FillerRequest
      <4> QED BY <3>1, <3>3, <4>1 DEF Owed, TypeOK
    <3> QED BY <2>2, <3>1, <3>2, <3>3 DEF FillerFails
  <2> QED BY <1>2, <2>1, <2>2 DEF FillerRequest
<1>3. CASE ServerStep
  <2>1. \E g \in Servers : \/ late' = late
                           \/ late' = [late EXCEPT ![g] = 0]
                           \/ late[g] > 0 /\ late' = [late EXCEPT ![g] = late[g] - 1]
    BY <1>3 DEF ServerStep, LateFiller
  <2>2. UNCHANGED gaveUp
    BY <1>3 DEF ServerStep
  <2> QED BY <2>1, <2>2 DEF Owed, TypeOK
<1> QED
  BY <1>1, <1>2, <1>3
  DEF Next, MainStep, Launch, PopenFails, Raise, Interrupt, Healthy, Populate, ScrapeCapacity,
      FillerDone, ScrapeBefore, Resend, AllAnswered, CheckRestores, Finally, WaitTerm, SendKill,
      Compare, loadVars, vars

-----------------------------------------------------------------------------
(* One prompt sent again: its generation is the current server's, and the  *)
(* counter grows only with one that was restored.                          *)
LEMMA ResendCollects ==
  ASSUME TypeOK, Alone, Collected, NEW p \in Prompts, Resend(p)
  PROVE  Collected'
<1>a. run \in Servers /\ before \in Nat
  BY QualityAssumption DEF TypeOK
<1>b. /\ pc = "resend" /\ gens[p] = Unanswered
      /\ UNCHANGED <<pc, run, before, gaveUp>>
  BY DEF Resend, mainVars
<1>1. PICK g \in Servers, restored \in BOOLEAN, tokens \in BOOLEAN :
        /\ Answers(g)
        /\ gens' = [gens EXCEPT ![p] = [by |-> g, restored |-> restored, tokens |-> tokens]]
        /\ loaded' = IF restored THEN [loaded EXCEPT ![g] = @ + 1] ELSE loaded
  BY DEF Resend
<1>2. g = run
  BY <1>1, <1>b, OnlyOwnAnswers
<1>3. gens'[p].by = run /\ gens'[p].restored = restored
  BY <1>1, <1>2 DEF TypeOK
<1>4. \A q \in Prompts : q # p => gens'[q] = gens[q]
  BY <1>1 DEF TypeOK
<1>5. \A q \in Prompts : gens'[q] = Unanswered \/ gens'[q].by = run
  BY <1>3, <1>4, <1>b DEF Collected
<1>6. ASSUME loaded'[run] > before, run \notin gaveUp
      PROVE  \E q \in Prompts : gens'[q].restored
  <2>1. CASE restored
    BY <1>3, <2>1
  <2>2. CASE ~restored
    <3>1. loaded[run] > before
      BY <1>1, <1>6, <2>2
    <3>2. PICK q \in Prompts : gens[q].restored
      BY <1>6, <3>1, <1>b DEF Collected
    <3>3. q # p
      BY <3>2, <1>b, UnansweredTyping
    <3> QED BY <1>4, <3>2, <3>3
  <2> QED BY <2>1, <2>2
<1> QED BY <1>b, <1>5, <1>6 DEF Collected, Trying

(* The measurement of a configuration starts with no generation, and with  *)
(* the counter as it is; nobody else's counter is compared with it.        *)
LEMMA CollectedStep ==
  ASSUME TypeOK, Alone, Owed, Collected, [Next]_vars
  PROVE  Collected'
<1>a. run \in Servers /\ before \in Nat /\ loaded \in [Servers -> Nat]
  BY QualityAssumption DEF TypeOK
<1>b. ASSUME Forget PROVE \A p \in Prompts : gens'[p] = Unanswered
  BY <1>b DEF Forget
<1>c. ASSUME UNCHANGED gens, pc \notin {"resend", "after"},
             pc' \notin {"resend", "after"}
      PROVE  Collected'
  BY <1>c DEF Collected
<1>d. ASSUME Forget, pc' \notin {"resend", "after"} PROVE Collected'
  BY <1>b, <1>d DEF Collected
<1> USE DEF GoTo, Trying, Teardown, groupVars, callVars, mainVars, loadVars
<1>1. CASE PopenFails BY <1>1 DEF PopenFails, Collected
<1>2. CASE Launch BY <1>2, <1>c DEF Launch
<1>3. CASE Raise BY <1>3, <1>d DEF Raise
<1>4. CASE Interrupt BY <1>4, <1>d DEF Interrupt
<1>5. CASE Healthy BY <1>5, <1>c DEF Healthy
<1>6. CASE Populate BY <1>6, <1>c DEF Populate
<1>7. CASE ScrapeCapacity BY <1>7, <1>c DEF ScrapeCapacity
<1>8. CASE FillerRequest BY <1>8, <1>c DEF FillerRequest
<1>9. CASE FillerDone BY <1>9, <1>c, <1>d DEF FillerDone
<1>10. CASE ScrapeBefore
  <2>1. PICK g \in Servers : Answers(g) /\ before' = loaded[g]
    BY <1>10 DEF ScrapeBefore, SnapshotBefore
  <2>2. g = run
    BY <1>10, <2>1, OnlyOwnAnswers DEF ScrapeBefore
  <2>3. ~(loaded'[run'] > before')
    BY <1>10, <1>a, <2>1, <2>2 DEF ScrapeBefore
  <2> QED BY <1>10, <2>3 DEF ScrapeBefore, Collected
<1>11. CASE \E p \in Prompts : Resend(p) BY <1>11, ResendCollects
<1>12. CASE AllAnswered BY <1>12 DEF AllAnswered, Collected
<1>13. CASE CheckRestores BY <1>13, <1>d DEF CheckRestores
<1>14. CASE Finally BY <1>14, <1>c DEF Finally, AfterFinally
<1>15. CASE WaitTerm BY <1>15, <1>c DEF WaitTerm, AfterFinally
<1>16. CASE SendKill BY <1>16, <1>c DEF SendKill, AfterFinally
<1>17. CASE Compare BY <1>17, <1>c DEF Compare
<1>18. CASE ServerStep
  <2>1. UNCHANGED <<gens, pc, run, before, gaveUp>>
    BY <1>18 DEF ServerStep
  <2>2. CASE \E g \in Servers : LateFiller(g)
    <3>1. PICK g \in Servers : LateFiller(g)
      BY <2>2
    <3>2. pc # "raised" => g = run /\ run \in gaveUp
      BY <3>1, OnlyOwnAnswers DEF LateFiller, Owed
    <3> QED BY <2>1, <3>2 DEF Collected
  <2>3. CASE loaded'[run] = loaded[run] \/ loaded'[run] = 0
    BY <1>a, <2>1, <2>3 DEF Collected
  <2> QED BY <1>18, <1>a, <2>2, <2>3 DEF ServerStep
<1>19. CASE UNCHANGED vars BY <1>19 DEF vars, Collected
<1> QED
  BY <1>1, <1>2, <1>3, <1>4, <1>5, <1>6, <1>7, <1>8, <1>9, <1>10, <1>11, <1>12, <1>13,
     <1>14, <1>15, <1>16, <1>17, <1>18, <1>19 DEF Next, MainStep

-----------------------------------------------------------------------------
(* Only the check for restores reports anything, and then the generations  *)
(* that were just collected.                                               *)
LEMMA ReportsStep ==
  ASSUME IInv, [Next]_vars
  PROVE  ReportsOwnServer' /\ ReportsARestore'
<1>a. run \in Servers /\ before \in Nat /\ loaded \in [Servers -> Nat]
  BY QualityAssumption DEF IInv, TypeOK
<1>b. gaveUp \subseteq gaveUp'
  BY OwedStep DEF IInv
<1>1. CASE UNCHANGED reports
  BY <1>1, <1>b DEF IInv, ReportsOwnServer, ReportsARestore
<1>2. CASE CheckRestores
  <2>1. CASE UNCHANGED reports
    BY <1>1, <2>1
  <2>2. CASE reports' # reports
    <3>1. PICK g \in Servers : Answers(g) /\ ~(loaded[g] - before <= 0)
                               /\ reports' = [reports EXCEPT ![run] = gens]
      BY <1>2, <2>2 DEF CheckRestores
    <3>2. pc = "after" /\ g = run
      BY <1>2, <3>1, OnlyOwnAnswers DEF CheckRestores, GoTo, IInv
    <3>3. loaded[run] > before
      BY <1>a, <3>1, <3>2
    <3>4. /\ \A p \in Prompts : gens[p].by = run
          /\ run \in gaveUp \/ \E p \in Prompts : gens[p].restored
      BY <3>2, <3>3 DEF IInv, Collected
    <3>5. reports'[run] = gens /\ \A r \in Runs : r # run => reports'[r] = reports[r]
      BY <3>1 DEF IInv, TypeOK
    <3> QED BY <1>b, <3>4, <3>5 DEF IInv, ReportsOwnServer, ReportsARestore
  <2> QED BY <2>1, <2>2
<1> QED
  BY <1>1, <1>2
  DEF Next, MainStep, Launch, PopenFails, Raise, Interrupt, Healthy, Populate, ScrapeCapacity,
      FillerRequest, FillerDone, ScrapeBefore, Resend, AllAnswered, Finally, WaitTerm, SendKill,
      Compare, ServerStep, mainVars, loadVars, vars

LEMMA Inductive == Spec => []IInv
<1>1. IInv /\ [Next]_vars => IInv'
  BY TypingStep, AloneStep, OwedStep, CollectedStep, ReportsStep DEF IInv
<1> QED BY <1>1, IInvInit, PTL DEF Spec

(* run_config never reports a generation of another configuration's        *)
(* server, for any number of prompts and any pools, although /health does  *)
(* not say whose it is and SIGKILL is not waited for.                      *)
THEOREM OwnGenerations == Spec => []ReportsOwnServer
<1>1. IInv => ReportsOwnServer
  BY DEF IInv
<1> QED BY <1>1, Inductive, PTL

(* What run_config reports holds at least one generation of a prompt that  *)
(* L2 gave back, whatever the populate and the filler loaded back before,  *)
(* unless a filler request of it failed.                                   *)
THEOREM RestoredGenerations == Spec => []ReportsARestore
<1>1. IInv => ReportsARestore
  BY DEF IInv
<1> QED BY <1>1, Inductive, PTL

-----------------------------------------------------------------------------
(* The scores: compare() on the generations of two configurations.         *)

(* The lists have one generation per prompt, and the counts are counts.    *)
ScoresTyping ==
  /\ a \in [Pairs -> Generations]
  /\ b \in [Pairs -> Generations]
  /\ i \in 1..PairCount + 1
  /\ full_agree \in Nat
  /\ token_total \in Nat
  /\ token_match \in Nat

(* The prompts so far agree token by token exactly if each of them agrees  *)
(* as a whole: none of them adds more matches than tokens, and one that    *)
(* differs anywhere adds fewer.                                            *)
Tallied ==
  /\ full_agree <= i - 1
  /\ token_match <= token_total
  /\ token_match = token_total <=> full_agree = i - 1
  /\ i = 1 => token_total = 0

(* A delta is of one position of both logprob lists, one before which the  *)
(* tokens of the prompt do not differ.                                     *)
WithinAgreement ==
  \A d \in deltas : \E p \in Pairs : \E k \in Nat :
    LET s == a[p] t == b[p] IN
    /\ 1 <= k /\ k <= Len(s.logprobs) /\ k <= Len(t.logprobs)
    /\ k \in Common(s.token_ids, t.token_ids)
    /\ d = [prompt |-> p, left |-> s.logprobs[k], right |-> t.logprobs[k]]

ScoresInv == ScoresTyping /\ Tallied /\ WithinAgreement

(* zip() ends with the shorter list, so there are no more matches than     *)
(* tokens of the longer one.                                               *)
LEMMA OverlapIsFinite ==
  ASSUME NEW s \in Seq(Nat), NEW t \in Seq(Nat)
  PROVE  /\ IsFiniteSet(1..Compared(s, t))
         /\ Cardinality(1..Compared(s, t)) = Compared(s, t)
         /\ Matches(s, t) \subseteq 1..Compared(s, t)
         /\ Compared(s, t) \in Nat
<1>1. Len(s) \in Nat /\ Len(t) \in Nat
  OBVIOUS
<1>2. Compared(s, t) \in Nat
  BY <1>1 DEF Compared, Longer
<1>3. Matches(s, t) \subseteq 1..Compared(s, t)
  BY <1>1 DEF Matches, Overlap, Compared, Longer, Shorter
<1>4. /\ IsFiniteSet(1..Compared(s, t))
      /\ Cardinality(1..Compared(s, t)) = Compared(s, t)
  BY <1>2, FS_Interval
<1> QED BY <1>2, <1>3, <1>4

(* Every token of the longer list has a match only if the lists are equal. *)
LEMMA MatchesScore ==
  ASSUME NEW s \in Seq(Nat), NEW t \in Seq(Nat)
  PROVE  /\ Cardinality(Matches(s, t)) \in Nat
         /\ Cardinality(Matches(s, t)) <= Compared(s, t)
         /\ Cardinality(Matches(s, t)) = Compared(s, t) <=> s = t
<1> DEFINE all == 1..Compared(s, t)
<1>1. /\ IsFiniteSet(all) /\ Cardinality(all) = Compared(s, t)
      /\ Matches(s, t) \in SUBSET all
  BY OverlapIsFinite
<1>2. /\ IsFiniteSet(Matches(s, t))
      /\ Cardinality(Matches(s, t)) <= Cardinality(all)
      /\ Cardinality(all) = Cardinality(Matches(s, t)) => all = Matches(s, t)
  BY <1>1, FS_Subset
<1>3. Cardinality(Matches(s, t)) \in Nat
  BY <1>2, FS_CardinalityType
<1>4. ASSUME s = t
      PROVE  Matches(s, t) = all
  <2>1. Len(s) \in Nat
    OBVIOUS
  <2> QED BY <1>4, <2>1 DEF Matches, Overlap, Compared, Longer, Shorter
<1>5. ASSUME Matches(s, t) = all
      PROVE  s = t
  <2>1. Len(s) \in Nat /\ Len(t) \in Nat
    OBVIOUS
  <2>2. \A k \in all : k \in 1..Shorter(Len(s), Len(t)) /\ s[k] = t[k]
    BY <1>5 DEF Matches, Overlap
  <2>3. Len(s) = Len(t)
    <3>1. SUFFICES ASSUME Len(s) # Len(t)
                   PROVE  FALSE
      OBVIOUS
    <3>2. Compared(s, t) \in all
      BY <2>1, <3>1 DEF Compared, Longer
    <3> QED BY <2>1, <2>2, <3>1, <3>2 DEF Compared, Longer, Shorter
  <2>4. \A k \in 1..Len(s) : s[k] = t[k]
    BY <2>1, <2>2, <2>3 DEF Compared, Longer
  <2> QED BY <2>3, <2>4
<1> HIDE DEF all
<1> QED BY <1>1, <1>2, <1>3, <1>4, <1>5

(* The common positions are the first ones: there are k of them only if    *)
(* the k-th is one, as all of them are below a position that is not.       *)
LEMMA CommonIsPrefix ==
  ASSUME NEW s \in Seq(Nat), NEW t \in Seq(Nat), NEW k \in Nat, 1 <= k,
         k <= Cardinality(Common(s, t))
  PROVE  k \in Common(s, t)
<1>1. SUFFICES ASSUME k \notin Common(s, t)
               PROVE  FALSE
  OBVIOUS
<1>2. Len(s) \in Nat /\ Len(t) \in Nat
  OBVIOUS
<1>3. ASSUME NEW j \in Common(s, t)
      PROVE  j \in 1..k-1
  <2>1. j \in Nat /\ 1 <= j /\ j \in Overlap(s, t) /\ 1..j \subseteq Matches(s, t)
    BY <1>2 DEF Common, Overlap, Shorter
  <2>2. ASSUME k <= j
        PROVE  FALSE
    <3>1. 1..k \subseteq 1..j
      BY <2>1, <2>2
    <3>2. k \in Overlap(s, t)
      BY <1>2, <2>1, <2>2 DEF Overlap, Shorter
    <3> QED BY <1>1, <2>1, <3>1, <3>2 DEF Common
  <2> QED BY <2>1, <2>2
<1>4. IsFiniteSet(1..k-1) /\ Cardinality(1..k-1) = k - 1
  BY FS_Interval
<1>5. Cardinality(Common(s, t)) <= k - 1 /\ IsFiniteSet(Common(s, t))
  BY <1>3, <1>4, FS_Subset
<1>6. Cardinality(Common(s, t)) \in Nat
  BY <1>5, FS_CardinalityType
<1> QED BY <1>5, <1>6

LEMMA ScoresInit == CompareInit => ScoresInv
<1>1. SUFFICES ASSUME CompareInit
               PROVE  ScoresInv
  OBVIOUS
<1>2. ScoresTyping
  BY <1>1, AgreementAssumption DEF CompareInit, ScoresTyping, Pairs
<1>3. Tallied
  BY <1>1 DEF CompareInit, Tallied
<1>4. WithinAgreement
  BY <1>1 DEF CompareInit, WithinAgreement
<1> QED BY <1>2, <1>3, <1>4 DEF ScoresInv

LEMMA CompareStep ==
  ASSUME ScoresInv, CompareNext
  PROVE  ScoresInv'
<1> DEFINE s == a[i].token_ids
           t == b[i].token_ids
           m == Cardinality(Matches(s, t))
           c == Compared(s, t)
<1>1. i \in Pairs /\ PairCount \in Nat /\ i \in Nat /\ 1 <= i
  BY AgreementAssumption DEF CompareNext, Pairs
<1>2. \A p \in Pairs : a[p] \in Generation /\ b[p] \in Generation
  BY AgreementAssumption DEF ScoresInv, ScoresTyping
<1>3. s \in Seq(Nat) /\ t \in Seq(Nat)
  BY <1>1, <1>2 DEF Generation
<1>4. m \in Nat /\ c \in Nat /\ m <= c /\ (m = c <=> s = t)
  BY <1>3, MatchesScore, OverlapIsFinite
<1>5. /\ i' = i + 1
      /\ full_agree' = full_agree + (IF s = t THEN 1 ELSE 0)
      /\ token_total' = token_total + c
      /\ token_match' = token_match + m
      /\ a' = a /\ b' = b
  BY DEF CompareNext
<1>6. ScoresTyping'
  <2> HIDE DEF s, t, m, c
  <2> QED BY <1>1, <1>4, <1>5 DEF ScoresInv, ScoresTyping, Pairs
<1>7. Tallied'
  <2> HIDE DEF s, t, m, c
  <2> QED BY <1>1, <1>4, <1>5 DEF ScoresInv, ScoresTyping, Tallied
<1>8. WithinAgreement'
  <2> DEFINE k0 == Cardinality(Common(s, t))
             la == a[i].logprobs
             lb == b[i].logprobs
             pair(k) == [prompt |-> i, left |-> la[k], right |-> lb[k]]
  <2>1. la \in Seq(Nat) /\ lb \in Seq(Nat) /\ Len(la) \in Nat /\ Len(lb) \in Nat
    BY <1>1, <1>2 DEF Generation
  <2>2. deltas' = deltas \cup {pair(k) : k \in {n \in Overlap(la, lb) : n <= k0}}
    BY DEF CompareNext
  <2>3. ASSUME NEW k \in Overlap(la, lb), k <= k0
        PROVE  /\ k \in Nat /\ 1 <= k /\ k <= Len(la) /\ k <= Len(lb)
               /\ k \in Common(s, t)
    <3>1. k \in Nat /\ 1 <= k /\ k <= Len(la) /\ k <= Len(lb)
      BY <2>1, <2>3 DEF Overlap, Shorter
    <3> HIDE DEF s, t
    <3> QED BY <3>1, <1>3, <2>3, CommonIsPrefix
  <2>4. ASSUME NEW d \in deltas'
        PROVE  \E p \in Pairs : \E k \in Nat :
                 LET u == a[p]  v == b[p] IN
                 /\ 1 <= k /\ k <= Len(u.logprobs) /\ k <= Len(v.logprobs)
                 /\ k \in Common(u.token_ids, v.token_ids)
                 /\ d = [prompt |-> p, left |-> u.logprobs[k], right |-> v.logprobs[k]]
    <3>1. CASE d \in deltas
      BY <3>1 DEF ScoresInv, WithinAgreement
    <3>2. CASE d \notin deltas
      <4>1. PICK k \in Overlap(la, lb) : k <= k0 /\ d = pair(k)
        BY <2>2, <3>2
      <4> QED BY <1>1, <2>3, <4>1
    <3> QED BY <3>1, <3>2
  <2> HIDE DEF s, t, la, lb, pair, k0
  <2> QED BY <1>5, <2>4 DEF WithinAgreement
<1> QED BY <1>6, <1>7, <1>8 DEF ScoresInv

LEMMA ScoresInductive == CompareSpec => []ScoresInv
<1>1. ScoresInv /\ [CompareNext]_compareVars => ScoresInv'
  <2>1. SUFFICES ASSUME ScoresInv, [CompareNext]_compareVars
                 PROVE  ScoresInv'
    OBVIOUS
  <2>2. CASE CompareNext
    BY <2>1, <2>2, CompareStep
  <2>3. CASE UNCHANGED compareVars
    BY <2>1, <2>3 DEF compareVars, ScoresInv, ScoresTyping, Tallied, WithinAgreement
  <2> QED BY <2>1, <2>2, <2>3
<1>2. CompareInit => ScoresInv
  BY ScoresInit
<1> QED BY <1>1, <1>2, PTL DEF CompareSpec

(* compare() reports 100% of the tokens exactly if it reports 100% of the  *)
(* sequences and there were tokens to compare, for lists of any number of  *)
(* generations of any lengths.                                             *)
THEOREM VerdictsCoincide == CompareSpec => []PerfectScoresCoincide
<1>1. ScoresInv => PerfectScoresCoincide
  <2>1. SUFFICES ASSUME ScoresInv, Compiled
                 PROVE  Perfect(TokenLevelAgreement)
                          <=> Perfect(FullSequenceAgreement) /\ token_total > 0
    BY DEF PerfectScoresCoincide
  <2>2. PairCount \in Nat /\ token_total \in Nat /\ i = PairCount + 1
    BY <2>1, AgreementAssumption DEF ScoresInv, ScoresTyping, Compiled
  <2>3. token_match = token_total <=> full_agree = PairCount
    BY <2>1, <2>2 DEF ScoresInv, ScoresTyping, Tallied
  <2>4. CASE token_total = 0
    BY <2>4 DEF Perfect, TokenLevelAgreement, Ratio
  <2>5. CASE token_total # 0
    <3>1. PairCount # 0
      BY <2>1, <2>2, <2>5 DEF ScoresInv, Tallied
    <3> QED BY <2>2, <2>3, <2>5, <3>1
            DEF Perfect, TokenLevelAgreement, FullSequenceAgreement, Ratio
  <2> QED BY <2>4, <2>5
<1> QED BY <1>1, ScoresInductive, PTL

(* A logprob delta of compare() is of one and the same token after the     *)
(* same tokens, for generations of any lengths with complete logprobs.     *)
THEOREM SameToken == CompareSpec => []DeltasCompareTheSameToken
<1>1. ScoresInv => DeltasCompareTheSameToken
  <2>1. SUFFICES ASSUME ScoresInv, NEW d \in deltas,
                        Complete(a[d.prompt]), Complete(b[d.prompt])
                 PROVE  /\ d.left = d.right
                        /\ \A k \in 1..d.left :
                             a[d.prompt].token_ids[k] = b[d.prompt].token_ids[k]
    BY DEF DeltasCompareTheSameToken
  <2>2. PICK p \in Pairs : \E k \in Nat :
          LET s == a[p]  t == b[p] IN
          /\ 1 <= k /\ k <= Len(s.logprobs) /\ k <= Len(t.logprobs)
          /\ k \in Common(s.token_ids, t.token_ids)
          /\ d = [prompt |-> p, left |-> s.logprobs[k], right |-> t.logprobs[k]]
    BY <2>1 DEF ScoresInv, WithinAgreement
  <2> DEFINE s == a[p]
             t == b[p]
  <2>3. PICK k \in Nat :
          /\ 1 <= k /\ k <= Len(s.logprobs) /\ k <= Len(t.logprobs)
          /\ k \in Common(s.token_ids, t.token_ids)
          /\ d = [prompt |-> p, left |-> s.logprobs[k], right |-> t.logprobs[k]]
    BY <2>2
  <2>4. s \in Generation /\ t \in Generation
    BY <2>1, AgreementAssumption DEF ScoresInv, ScoresTyping
  <2>5. /\ s.logprobs = [n \in 1..Len(s.token_ids) |-> n]
        /\ t.logprobs = [n \in 1..Len(t.token_ids) |-> n]
    BY <2>1, <2>3 DEF Complete
  <2>6. d.left = k /\ d.right = k
    <3>1. k \in 1..Len(s.token_ids) /\ k \in 1..Len(t.token_ids)
      BY <2>3, <2>4 DEF Generation, Common, Overlap, Shorter
    <3>2. s.logprobs[k] = k /\ t.logprobs[k] = k
      BY <2>5, <3>1
    <3> QED BY <2>3, <3>2
  <2>7. \A n \in 1..k : s.token_ids[n] = t.token_ids[n]
    BY <2>3 DEF Common, Matches
  <2> QED BY <2>3, <2>6, <2>7
<1> QED BY <1>1, ScoresInductive, PTL
=============================================================================
