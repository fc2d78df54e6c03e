-------------------------- MODULE RunExperimentProofs --------------------------
(***************************************************************************)
(* Proofs about RunExperiment, for any number of runs, any pools and any   *)
(* configuration: type correctness, and that an ok result was measured on  *)
(* the run's own server, or on one that a Ctrl-C left behind, provided     *)
(* that no foreign server answers on the port.                             *)
(***************************************************************************)
EXTENDS RunExperiment, TLAPS

\* The server g does not answer: never launched, gone, or signalled.
Quiet(g) == leader[g] \in {"none", "dead"} \/ sig[g] # "none"

\* Where the current run has either not launched its server or is done with it.
AfterSignal == {"waitterm", "sigkill", "waitkill", "collect", "write", "exited"}

\* Everybody else on the port is quiet, before, after and besides this run.
OthersQuiet ==
  /\ leader[Foreign] = "none"
  /\ \A g \in Runs : g > run => leader[g] = "none"
  /\ \A g \in Runs : g < run => Quiet(g) \/ g \in left
  /\ pc = "idle" => leader[run] = "none"
  /\ pc \in AfterSignal => Quiet(run) \/ run \in left

\* What the result under construction says about the server it came from.
ResultOwn ==
  /\ pc \in {"flush", "bench", "after"} => res.before.server \in {run} \cup LeftBehind(run)
  /\ res.ok => /\ res.before.server \in {run} \cup LeftBehind(run)
               /\ res.after.server \in {run} \cup LeftBehind(run)
  /\ pc \in {"idle", "launched"} \cup Waiting \cup Measuring => ~res.ok

\* Result files appear in order.
FilesInOrder ==
  /\ \A r \in Runs : r > run => files[r] = NoFile
  /\ pc # "exited" => files[run] = NoFile

IInv == TypeOK /\ OthersQuiet /\ ResultOwn /\ FilesInOrder /\ OkMeasuresOwnServer

-----------------------------------------------------------------------------
(* What the scripts and the servers do to a group keeps it well typed.     *)
LEMMA GroupTyping ==
  ASSUME GroupTypeOK, NEW g \in Servers,
         \/ Popen(g) \/ Ready(g) \/ LeaderExits(g) \/ WorkersExit(g)
         \/ Killpg(g, "TERM") \/ Killpg(g, "KILL")
  PROVE  GroupTypeOK'
<1> USE DEF GroupTypeOK, LeaderState, Signal
<1>1. CASE Popen(g) BY <1>1 DEF Popen
<1>2. CASE Ready(g)
  <2>1. 0 \in 0..MaxBacked /\ (MaxBacked # 0 => 1 \in 0..MaxBacked)
    BY BackedAssumption
  <2>2. PICK w \in 0..(IF MaxBacked = 0 THEN 0 ELSE 1) : backed' = [backed EXCEPT ![g] = w]
    BY <1>2 DEF Ready
  <2>3. w \in 0..MaxBacked
    BY <2>1, BackedAssumption
  <2> QED BY <1>2, <2>2, <2>3 DEF Ready
<1>3. CASE LeaderExits(g)
  BY <1>3, BackedAssumption DEF LeaderExits
<1>4. CASE WorkersExit(g) BY <1>4 DEF WorkersExit
<1>5. CASE Killpg(g, "TERM") BY <1>5 DEF Killpg
<1>6. CASE Killpg(g, "KILL") BY <1>6 DEF Killpg
<1> QED BY <1>1, <1>2, <1>3, <1>4, <1>5, <1>6

(* Only a leader that is loading may still change what its L2 is.          *)
LEMMA PoolSettles ==
  ASSUME GroupTypeOK, NEW g \in Servers, leader[g] \in {"serving", "dead"},
         \E h \in Servers : Ready(h) \/ LeaderExits(h) \/ WorkersExit(h)
  PROVE  leader'[g] \in {"serving", "dead"} /\ pool'[g] = pool[g]
<1> PICK h \in Servers : Ready(h) \/ LeaderExits(h) \/ WorkersExit(h)
  OBVIOUS
<1>1. CASE Ready(h) BY <1>1 DEF Ready, GroupTypeOK
<1>2. CASE LeaderExits(h) BY <1>2 DEF LeaderExits, GroupTypeOK
<1>3. CASE WorkersExit(h) BY <1>3 DEF WorkersExit
<1> QED BY <1>1, <1>2, <1>3

(* A snapshot of a server is a well-formed snapshot.                       *)
LEMMA SnapTyping ==
  ASSUME TypeOK, NEW g \in Servers
  PROVE  SnapOf(g) \in Snap
<1>1. pool[g] \in [width : Nat, capacity : Nat] /\ backed[g] \in Nat
  BY RunAssumption, BackedAssumption DEF TypeOK, GroupTypeOK
<1>2. \A a, b \in Nat : a * b \in Nat
  OBVIOUS
<1>3. backed[g] * pool[g].width \in Nat
  BY <1>1, <1>2
<1>4. g \in 0..NoOne
  BY RunAssumption DEF NoOne
<1> QED
  BY <1>1, <1>3, <1>4 DEF SnapOf, Snap

(* The initial state is well typed.                                        *)
LEMMA TypingInit == Init => TypeOK
<1> SUFFICES ASSUME Init PROVE TypeOK
  OBVIOUS
<1>1. (CHOOSE p \in Pools : TRUE) \in Pools
  BY RunAssumption
<1>2. GroupTypeOK
  BY <1>1, RunAssumption, BackedAssumption
     DEF Init, GroupTypeOK, LeaderState, Signal, Foreign
<1>3. NewResult \in Result
  BY RunAssumption DEF NewResult, Result, NoSnap, Snap, NoOne, None
<1>4. timing \in [Stems -> 0..NoOne]
  BY RunAssumption DEF Init, NoOne
<1>5. 1 \in Runs /\ files \in [Runs -> Result \cup {NoFile}]
  BY RunAssumption DEF Init, Runs
<1> QED
  BY <1>2, <1>3, <1>4, <1>5 DEF Init, TypeOK, Location

(* Every step of main(), of the benchmark, of the operator and of the      *)
(* servers keeps the state well typed.                                     *)
LEMMA TypingStep == TypeOK /\ [Next]_vars => TypeOK'
<1> SUFFICES ASSUME TypeOK, [Next]_vars PROVE TypeOK'
  OBVIOUS
<1>a. run \in Servers /\ \A g \in Servers : g \in 0..NoOne
  BY RunAssumption DEF TypeOK, Runs, NoOne
<1>b. res \in Result /\ \A g \in Servers : SnapOf(g) \in Snap
  BY SnapTyping DEF TypeOK
<1>c. ASSUME UNCHANGED groupVars PROVE GroupTypeOK'
  BY <1>c DEF TypeOK, GroupTypeOK, groupVars
<1> USE DEF TypeOK, Location, Waiting, Measuring, Teardown, GoTo
<1>1. CASE Refuse BY <1>1, <1>c DEF Refuse
<1>2. CASE Launch BY <1>2, <1>a, GroupTyping DEF Launch
<1>3. CASE EnterTry \/ StartupDeadline
  BY <1>3, <1>c DEF EnterTry, StartupDeadline, Fail, Result
<1>4. CASE PollServer BY <1>4, <1>c DEF PollServer, Fail, Result
<1>5. CASE GetHealth BY <1>5, <1>c DEF GetHealth
<1>6. CASE ScrapeBefore
  <2>1. CASE Fail BY <1>6, <1>c, <2>1 DEF ScrapeBefore, Fail, Result
  <2>2. ASSUME NEW g \in Servers,
               res' = [res EXCEPT !.before = SnapBefore(g), !.error = CapacityMissed(g)]
        PROVE  res' \in Result
    <3>1. CapacityMissed(g) \in BOOLEAN
      BY RunAssumption DEF CapacityMissed
    <3> QED BY <1>b, <2>2, <3>1 DEF SnapBefore, Result
  <2> QED BY <1>6, <1>c, <2>1, <2>2 DEF ScrapeBefore
<1>7. CASE FlushCache BY <1>7, <1>c DEF FlushCache, Result
<1>8. CASE BenchRequest
  <2>1. PICK g \in Servers : backed[g] < MaxBacked /\ backed' = [backed EXCEPT ![g] = @ + 1]
    BY <1>8 DEF BenchRequest
  <2>2. backed[g] + 1 \in 0..MaxBacked
    BY <2>1, BackedAssumption DEF GroupTypeOK
  <2>3. GroupTypeOK'
    BY <1>8, <2>1, <2>2 DEF BenchRequest, GroupTypeOK
  <2> QED BY <1>8, <2>3 DEF BenchRequest
<1>9. CASE BenchExits BY <1>9, <1>c DEF BenchExits, Fail, Result
<1>10. CASE ScrapeAfter
  <2>1. CASE Fail BY <1>10, <1>c, <2>1 DEF ScrapeAfter, Fail, Result
  <2>2. ASSUME NEW g \in Servers,
               res' = [res EXCEPT !.after = SnapOf(g), !.ok = res.rc = "zero",
                                  !.check = WidthCheck(res.before, SnapOf(g))]
        PROVE  res' \in Result
    <3>1. WidthCheck(res.before, SnapOf(g)) \in {None, "pass", "fail"}
      BY DEF WidthCheck
    <3>2. (res.rc = "zero") \in BOOLEAN
      OBVIOUS
    <3> QED BY <1>b, <2>2, <3>1, <3>2 DEF Result
  <2> QED BY <1>10, <1>c, <2>1, <2>2 DEF ScrapeAfter
<1>11. CASE TerminatePoll BY <1>11, <1>c DEF TerminatePoll, AfterFinally
<1>12. CASE SendTerm BY <1>12, <1>a, GroupTyping DEF SendTerm
<1>13. CASE WaitTerm BY <1>13, <1>c DEF WaitTerm, AfterFinally
<1>14. CASE SendKill BY <1>14, <1>a, GroupTyping DEF SendKill
<1>15. CASE WaitKill BY <1>15, <1>c DEF WaitKill, AfterFinally
<1>16. CASE CollectTiming
  <2>1. timing[TimingPath(run)] \in 0..NoOne
    BY DEF TimingPath, Stems
  <2> QED BY <1>16, <1>c, <2>1 DEF CollectTiming, Result
<1>17. CASE WriteResult BY <1>17, <1>c DEF WriteResult
<1>18. CASE NextRun
  <2>1. NewResult \in Result
    BY RunAssumption DEF NewResult, Result, NoSnap, Snap, NoOne, None
  <2>2. run + 1 \in Runs
    BY <1>18, RunAssumption DEF NextRun, Runs
  <2> QED BY <1>18, <1>c, <2>1, <2>2 DEF NextRun
<1>19. CASE Interrupt
  BY <1>19, <1>a, <1>c DEF Interrupt, InterruptTry, InterruptOutside
<1>20. CASE ServerStep
  <2> PICK g \in Servers : ServerReady(g) \/ ServerExits(g) \/ PoolTeardown(g)
    BY <1>20 DEF ServerStep
  <2>1. CASE ServerReady(g) BY <2>1, GroupTyping DEF ServerReady, harnessVars
  <2>2. CASE ServerExits(g) BY <2>2, GroupTyping DEF ServerExits, harnessVars
  <2>3. CASE PoolTeardown(g)
    <3>1. timing' \in [Stems -> 0..NoOne]
      BY <2>3, <1>a DEF PoolTeardown, TimingPath, Stems
    <3> QED BY <2>3, <3>1, GroupTyping DEF PoolTeardown
  <2> QED BY <2>1, <2>2, <2>3
<1>21. CASE UNCHANGED vars BY <1>21, <1>c DEF vars, harnessVars
<1> QED
  BY <1>1, <1>2, <1>3, <1>4, <1>5, <1>6, <1>7, <1>8, <1>9, <1>10, <1>11, <1>12, <1>13,
     <1>14, <1>15, <1>16, <1>17, <1>18, <1>19, <1>20, <1>21 DEF Next, MainStep

(* The variables of the driver, of its files and of the server processes   *)
(* keep their types, for any number of runs and any pools.                 *)
THEOREM Typing == Spec => []TypeOK
  BY TypingInit, TypingStep, PTL DEF Spec

-----------------------------------------------------------------------------
(* Whoever answers on the port is the current run's server or one that was *)
(* left behind: the others before it are quiet, the ones after it do not   *)
(* exist yet.                                                              *)
LEMMA OnlyOwnAnswers ==
  ASSUME IInv, NEW g \in Servers, Answers(g)
  PROVE  g \in {run} \cup LeftBehind(run)
<1>1. g = Foreign \/ g \in Runs
  BY RunAssumption DEF Runs, Foreign
<1>2. g \in Runs => g < run \/ g = run \/ g > run
  BY DEF IInv, TypeOK, Runs
<1> QED
  BY <1>1, <1>2 DEF IInv, OthersQuiet, Quiet, Answers, LeftBehind

(* A step that leaves the servers alone, or only stops or signals one,     *)
(* keeps the others quiet, as long as it stays in the run.                 *)
LEMMA QuietStep ==
  ASSUME IInv, TypeOK', run' = run, left \subseteq left',
         \A g \in Servers : Quiet(g) => Quiet(g)',
         \A g \in Servers : leader[g] = "none" => leader'[g] = "none",
         pc' = "idle" => pc = "idle",
         pc' \in AfterSignal => pc \in AfterSignal \/ Quiet(run)' \/ run \in left'
  PROVE  OthersQuiet'
<1>1. Foreign \in Servers /\ Runs \subseteq Servers /\ run \in Runs
  BY RunAssumption DEF Runs, Foreign, IInv, TypeOK
<1> QED
  BY <1>1 DEF IInv, OthersQuiet

(* The initial state satisfies the inductive invariant.                    *)
LEMMA IInvInit ==
  ASSUME ~ForeignServer, Init
  PROVE  IInv
<1>1. TypeOK
  BY TypingInit
<1>2. Foreign \in Servers /\ Runs \subseteq Servers /\ 1 \in Runs
  BY RunAssumption DEF Runs, Foreign
<1>3. OthersQuiet
  BY <1>2 DEF Init, OthersQuiet, Quiet, Runs, AfterSignal
<1> QED
  BY <1>1, <1>2, <1>3 DEF IInv, Init, ResultOwn, FilesInOrder, OkMeasuresOwnServer,
                     Written, NewResult

(* The servers by themselves preserve the inductive invariant.             *)
LEMMA IInvServerStep ==
  ASSUME IInv, TypeOK', ServerStep
  PROVE  IInv'
<1> PICK g \in Servers : ServerReady(g) \/ ServerExits(g) \/ PoolTeardown(g)
  BY DEF ServerStep
<1>1. UNCHANGED <<run, pc, res, files, left>>
  BY DEF ServerReady, ServerExits, PoolTeardown, harnessVars
<1>2. ASSUME NEW h \in Servers
      PROVE  /\ Quiet(h) => Quiet(h)'
             /\ leader[h] = "none" => leader'[h] = "none"
  BY <1>2 DEF ServerReady, ServerExits, PoolTeardown, Ready, LeaderExits, WorkersExit,
              Quiet, IInv, TypeOK, GroupTypeOK
<1>3. OthersQuiet'
  BY <1>1, <1>2, QuietStep
<1> QED
  BY <1>1, <1>3 DEF IInv, ResultOwn, FilesInOrder, OkMeasuresOwnServer, Written, LeftBehind

(* main(), the benchmark and Ctrl-C preserve it.                           *)
LEMMA IInvStep ==
  ASSUME IInv, [Next]_vars
  PROVE  IInv'
<1>a. TypeOK'
  BY TypingStep DEF IInv
<1>b. run \in Runs /\ run \in Servers /\ Foreign \in Servers /\ Foreign # run
  BY RunAssumption DEF IInv, TypeOK, Runs, Foreign
<1>c. ASSUME UNCHANGED groupVars PROVE \A g \in Servers : Quiet(g)' = Quiet(g)
  BY <1>c DEF groupVars, Quiet
<1>d. ASSUME UNCHANGED groupVars, UNCHANGED run, left \subseteq left', pc' = "idle" => pc = "idle",
             pc' \in AfterSignal => pc \in AfterSignal \/ Quiet(run) \/ run \in left'
      PROVE  OthersQuiet'
  BY <1>a, <1>b, <1>c, <1>d, QuietStep DEF groupVars
<1>e. res \in Result /\ \A g \in Servers : SnapOf(g) \in Snap /\ SnapOf(g).server = g
  BY SnapTyping DEF IInv, TypeOK, SnapOf
<1> USE DEF GoTo, AfterSignal, Waiting, Measuring, LeftBehind
<1>1. CASE Refuse
  <2>1. Quiet(run)
    BY <1>1 DEF Refuse, IInv, OthersQuiet, Quiet
  <2> QED BY <1>1, <1>a, <1>d, <2>1
          DEF Refuse, IInv, ResultOwn, FilesInOrder, OkMeasuresOwnServer, Written
<1>2. CASE Launch
  <2>1. \A g \in Servers : g # run => leader'[g] = leader[g] /\ (Quiet(g) => Quiet(g)')
    BY <1>2, <1>b, <1>a DEF Launch, Popen, Quiet, IInv, TypeOK, GroupTypeOK
  <2>2. OthersQuiet'
    BY <1>2, <1>b, <2>1, RunAssumption DEF Launch, IInv, OthersQuiet, Runs
  <2> QED BY <1>2, <1>a, <2>2
          DEF Launch, IInv, ResultOwn, FilesInOrder, OkMeasuresOwnServer, Written
<1>3. CASE EnterTry \/ StartupDeadline
  BY <1>3, <1>a, <1>d, <1>e DEF EnterTry, StartupDeadline, Fail, Result, IInv, ResultOwn, FilesInOrder,
                         OkMeasuresOwnServer, Written
<1>4. CASE PollServer
  BY <1>4, <1>a, <1>d, <1>e DEF PollServer, Fail, Result, IInv, ResultOwn, FilesInOrder,
                         OkMeasuresOwnServer, Written
<1>5. CASE GetHealth
  BY <1>5, <1>a, <1>d DEF GetHealth, IInv, ResultOwn, FilesInOrder,
                         OkMeasuresOwnServer, Written
<1>6. CASE ScrapeBefore
  <2>1. UNCHANGED <<groupVars, run, files, left>> /\ pc = "before" /\ pc' \in {"terminate", "flush"}
    BY <1>6 DEF ScrapeBefore, Fail
  <2>2. ResultOwn'
    <3>1. CASE Fail
      BY <2>1, <3>1, <1>e DEF Fail, Result, IInv, ResultOwn
    <3>2. ASSUME NEW g \in Servers, Answers(g),
                 res' = [res EXCEPT !.before = SnapBefore(g), !.error = CapacityMissed(g)]
          PROVE  ResultOwn'
      <4>1. g \in {run} \cup LeftBehind(run)
        BY <3>2, OnlyOwnAnswers
      <4> QED BY <2>1, <3>2, <4>1, <1>e DEF SnapBefore, Result, IInv, ResultOwn
    <3> QED BY <1>6, <3>1, <3>2 DEF ScrapeBefore
  <2> QED BY <2>1, <2>2, <1>a, <1>d DEF IInv, FilesInOrder, OkMeasuresOwnServer, Written
<1>7. CASE FlushCache
  BY <1>7, <1>a, <1>d, <1>e DEF FlushCache, Result, IInv, ResultOwn, FilesInOrder,
                         OkMeasuresOwnServer, Written
<1>8. CASE BenchRequest
  <2>1. UNCHANGED <<leader, sig, run, pc, res, files, left>>
    BY <1>8 DEF BenchRequest
  <2>2. OthersQuiet'
    BY <2>1 DEF IInv, OthersQuiet, Quiet
  <2> QED BY <2>1, <2>2, <1>a DEF IInv, ResultOwn, FilesInOrder, OkMeasuresOwnServer, Written
<1>9. CASE BenchExits
  BY <1>9, <1>a, <1>d, <1>e DEF BenchExits, Fail, Result, IInv, ResultOwn, FilesInOrder,
                         OkMeasuresOwnServer, Written
<1>10. CASE ScrapeAfter
  <2>1. UNCHANGED <<groupVars, run, files, left>> /\ pc = "after" /\ pc' = "terminate"
    BY <1>10 DEF ScrapeAfter, Fail
  <2>2. ResultOwn'
    <3>1. CASE Fail
      BY <2>1, <3>1, <1>e DEF Fail, Result, IInv, ResultOwn
    <3>2. ASSUME NEW g \in Servers, Answers(g),
                 res' = [res EXCEPT !.after = SnapOf(g), !.ok = res.rc = "zero",
                                    !.check = WidthCheck(res.before, SnapOf(g))]
          PROVE  ResultOwn'
      <4>1. g \in {run} \cup LeftBehind(run)
        BY <3>2, OnlyOwnAnswers
      <4> QED BY <2>1, <3>2, <4>1, <1>e DEF Result, IInv, ResultOwn
    <3> QED BY <1>10, <3>1, <3>2 DEF ScrapeAfter
  <2> QED BY <2>1, <2>2, <1>a, <1>d DEF IInv, FilesInOrder, OkMeasuresOwnServer, Written
<1>11. CASE TerminatePoll
  <2>1. pc' # "sigterm" => Quiet(run)
    BY <1>11 DEF TerminatePoll, Exited, Quiet
  <2> QED BY <1>11, <2>1, <1>a, <1>d DEF TerminatePoll, AfterFinally, IInv, ResultOwn,
                         FilesInOrder, OkMeasuresOwnServer, Written
<1>12. CASE SendTerm
  <2>1. sig' = [sig EXCEPT ![run] = "TERM"] /\ UNCHANGED <<leader, run, left>>
    BY <1>12 DEF SendTerm, Killpg
  <2>2. \A g \in Servers : Quiet(g) => Quiet(g)'
    BY <2>1, <1>b DEF Quiet, IInv, TypeOK, GroupTypeOK
  <2>3. Quiet(run)'
    BY <2>1, <1>b DEF Quiet, IInv, TypeOK, GroupTypeOK
  <2>4. OthersQuiet'
    BY <1>12, <1>a, <2>1, <2>2, <2>3, QuietStep DEF SendTerm
  <2> QED BY <1>12, <2>4, <1>a DEF SendTerm, IInv, ResultOwn, FilesInOrder,
                         OkMeasuresOwnServer, Written
<1>13. CASE WaitTerm
  BY <1>13, <1>a, <1>d DEF WaitTerm, AfterFinally, IInv, ResultOwn, FilesInOrder,
                         OkMeasuresOwnServer, Written
<1>14. CASE SendKill
  <2>1. sig' = [sig EXCEPT ![run] = "KILL"] /\ UNCHANGED <<leader, run, left>>
    BY <1>14 DEF SendKill, Killpg
  <2>2. \A g \in Servers : Quiet(g) => Quiet(g)'
    BY <2>1, <1>b DEF Quiet, IInv, TypeOK, GroupTypeOK
  <2>3. OthersQuiet'
    BY <1>14, <1>a, <2>1, <2>2, QuietStep DEF SendKill
  <2> QED BY <1>14, <2>3, <1>a DEF SendKill, IInv, ResultOwn, FilesInOrder,
                         OkMeasuresOwnServer, Written
<1>15. CASE WaitKill
  BY <1>15, <1>a, <1>d DEF WaitKill, AfterFinally, IInv, ResultOwn, FilesInOrder,
                         OkMeasuresOwnServer, Written
<1>16. CASE CollectTiming
  BY <1>16, <1>a, <1>d, <1>e DEF CollectTiming, Result, IInv, ResultOwn, FilesInOrder,
                         OkMeasuresOwnServer, Written
<1>17. CASE WriteResult
  <2>1. \A r \in Runs : files'[r] = IF r = run THEN res ELSE files[r]
    BY <1>17, <1>b DEF WriteResult, IInv, TypeOK
  <2> QED BY <1>17, <2>1, <1>a, <1>b, <1>d DEF WriteResult, IInv, ResultOwn, FilesInOrder,
                         OkMeasuresOwnServer, Written, Runs
<1>18. CASE NextRun
  <2>1. (Quiet(run) \/ run \in left) /\ UNCHANGED <<leader, sig, files, left>> /\ run' = run + 1
    BY <1>18 DEF NextRun, groupVars, IInv, OthersQuiet
  <2>2. run + 1 \in Runs /\ \A g \in Runs : (g > run + 1 => g > run) /\ (g < run + 1 => g <= run)
    BY <1>18, <1>b, RunAssumption DEF NextRun, Runs
  <2>3. OthersQuiet'
    BY <1>18, <2>1, <2>2, <1>b DEF NextRun, IInv, OthersQuiet, Quiet, Runs
  <2>4. FilesInOrder'
    <3>1. run + 1 > run
      BY <1>b DEF Runs
    <3> QED BY <2>1, <2>2, <3>1, <1>a DEF IInv, FilesInOrder
  <2>5. ResultOwn'
    BY <1>18, <2>1, <2>2, <2>4, <1>a DEF NextRun, NewResult, IInv, ResultOwn, FilesInOrder
  <2>6. OkMeasuresOwnServer'
    BY <2>1, <1>a DEF IInv, OkMeasuresOwnServer, Written
  <2> QED BY <1>a, <2>3, <2>4, <2>5, <2>6 DEF IInv
<1>19. CASE Interrupt
  <2>1. UNCHANGED <<groupVars, run, res, files>> /\ left \subseteq left'
    BY <1>19 DEF Interrupt, InterruptTry, InterruptOutside
  <2>2. pc' \notin {"idle", "launched"} \cup Waiting \cup Measuring /\ pc # "exited"
    BY <1>19 DEF Interrupt, InterruptTry, InterruptOutside, Teardown
  <2>3. pc' = "terminate" \/ Quiet(run) \/ run \in left'
    BY <1>19 DEF Interrupt, InterruptTry, InterruptOutside, Exited, Quiet
  <2>4. OthersQuiet'
    BY <2>1, <2>2, <2>3, <1>d
  <2> QED
    BY <2>1, <2>2, <2>4, <1>a DEF IInv, ResultOwn, FilesInOrder, OkMeasuresOwnServer, Written
<1>20. CASE ServerStep BY <1>20, <1>a, IInvServerStep
<1>21. CASE UNCHANGED vars
  BY <1>21, <1>a, <1>d DEF vars, harnessVars, IInv, ResultOwn, FilesInOrder,
                         OkMeasuresOwnServer, Written
<1> QED
  BY <1>1, <1>2, <1>3, <1>4, <1>5, <1>6, <1>7, <1>8, <1>9, <1>10, <1>11, <1>12, <1>13,
     <1>14, <1>15, <1>16, <1>17, <1>18, <1>19, <1>20, <1>21 DEF Next, MainStep

(* With the port free at the start, no result marked ok ever describes     *)
(* another server than the one its own run launched or one that a Ctrl-C   *)
(* outside the try block left behind, however many runs follow each other  *)
(* and wherever Ctrl-C hits them.                                          *)
THEOREM OwnServer ==
  ASSUME ~ForeignServer
  PROVE  Spec => []OkMeasuresOwnServer
<1>1. Init => IInv
  BY IInvInit
<1>2. IInv /\ [Next]_vars => IInv'
  BY IInvStep
<1>3. IInv => OkMeasuresOwnServer
  BY DEF IInv
<1> QED
  BY <1>1, <1>2, <1>3, PTL DEF Spec

-----------------------------------------------------------------------------
(* main() implements the abstract session.  What an observer of the runs   *)
(* sees depends on run, files and, of pc, only on whether main() has       *)
(* started and whether it is over.                                         *)

Phase(p) == IF p \in {"idle", "exited"} THEN p ELSE "inside"

LEMMA SessionUnmoved ==
  ASSUME UNCHANGED <<run, files, left>>, Phase(pc)' = Phase(pc)
  PROVE  UNCHANGED Session!sessionVars
<1>1. \A r \in Runs : SessionStatus(r)' = SessionStatus(r)
  BY DEF SessionStatus, Written, Phase
<1>2. \A r \in Runs : SessionMeasured(r)' = SessionMeasured(r)
  BY DEF SessionMeasured, Written
<1> QED BY <1>1, <1>2 DEF Session!sessionVars

(* Every earlier run is over, as a run that begins or is refused demands.  *)
LEMMA EarlierClosed ==
  ASSUME IInv
  PROVE  \A q \in Runs : q < run => SessionStatus(q) \in Session!Closed
<1>1. run \in Int /\ \A q \in Runs : q \in Int
  BY RunAssumption DEF IInv, TypeOK, Runs
<1> QED BY <1>1 DEF SessionStatus, Session!Closed, Session!Reported

(* A run that has begun and leaves main() without a result is abandoned.   *)
LEMMA AbandonStep ==
  ASSUME IInv, pc # "exited", pc' = "exited", UNCHANGED <<run, files>>,
         left' = left \/ (pc # "idle" /\ left' = left \cup {run})
  PROVE  Session!Abandon(run)
<1>1. run \in Runs /\ \A r \in Runs : r \in Int
  BY RunAssumption DEF IInv, TypeOK, Runs
<1>2. ~Written(run) /\ ~Written(run)'
  BY DEF IInv, FilesInOrder, Written
<1>3. SessionStatus(run) \in {"pending", "running"} /\ SessionStatus(run)' = "abandoned"
  BY <1>1, <1>2 DEF SessionStatus
<1>4. \A r \in Runs : r # run => SessionStatus(r)' = SessionStatus(r)
  BY <1>1 DEF SessionStatus, Written
<1>5. \A r \in Runs : SessionMeasured(r)' = SessionMeasured(r)
  BY DEF SessionMeasured, Written
<1>6. left' = left \/ (SessionStatus(run) = "running" /\ left' = left \cup {run})
  BY <1>1 DEF SessionStatus
<1> QED BY <1>1, <1>3, <1>4, <1>5, <1>6, EarlierClosed DEF Session!Abandon, Session!Runs, Runs

LEMMA BeginStep ==
  ASSUME IInv, Launch
  PROVE  Session!Begin(run)
<1>1. run \in Runs /\ \A r \in Runs : r \in Int
  BY RunAssumption DEF IInv, TypeOK, Runs
<1>2. UNCHANGED <<run, files, left>> /\ pc = "idle" /\ pc' = "launched"
  BY DEF Launch, GoTo
<1>3. SessionStatus(run) = "pending" /\ SessionStatus(run)' = "running"
  BY <1>1, <1>2 DEF SessionStatus
<1>4. \A r \in Runs : r # run => SessionStatus(r)' = SessionStatus(r)
  BY <1>1, <1>2 DEF SessionStatus, Written
<1>5. \A r \in Runs : SessionMeasured(r)' = SessionMeasured(r)
  BY <1>2 DEF SessionMeasured, Written
<1>6. [r \in Runs |-> SessionStatus(r)]'
          = [[r \in Runs |-> SessionStatus(r)] EXCEPT ![run] = "running"]
  BY <1>1, <1>2, <1>3, <1>4 DEF Runs
<1>7. [r \in Runs |-> SessionMeasured(r)]' = [r \in Runs |-> SessionMeasured(r)]
  BY <1>5
<1>8. \A q \in Session!Runs : q < run => [r \in Runs |-> SessionStatus(r)][q] \in Session!Closed
  BY EarlierClosed DEF Session!Runs, Runs
<1> QED BY <1>1, <1>2, <1>3, <1>6, <1>7, <1>8 DEF Session!Begin

LEMMA ReportStep ==
  ASSUME IInv, WriteResult
  PROVE  Session!Report(run)
<1>1. run \in Runs /\ \A r \in Runs : r \in Int
  BY RunAssumption DEF IInv, TypeOK, Runs
<1>2. pc = "write" /\ pc' = "exited" /\ run' = run /\ left' = left /\ files[run] = NoFile
  BY DEF WriteResult, GoTo, IInv, FilesInOrder
<1>3. \A r \in Runs : files'[r] = IF r = run THEN res ELSE files[r]
  BY DEF WriteResult, IInv, TypeOK
<1>4. res # NoFile /\ res.ok \in BOOLEAN
  BY NoFileAssumption DEF IInv, TypeOK, Result
<1>5. \A r \in Runs : r # run => SessionStatus(r)' = SessionStatus(r)
                                /\ SessionMeasured(r)' = SessionMeasured(r)
  BY <1>1, <1>2, <1>3 DEF SessionStatus, SessionMeasured, Written
<1>6. SessionStatus(run) = "running" /\ SessionMeasured(run) = 0
  BY <1>1, <1>2 DEF SessionStatus, SessionMeasured, Written
<1>7. CASE res.ok
  <2>1. PICK g \in {run} \cup left : res.after.server = g
    BY <1>7 DEF IInv, ResultOwn, LeftBehind
  <2>2. SessionStatus(run)' = "ok" /\ SessionMeasured(run)' = g
    BY <1>1, <1>2, <1>3, <1>4, <1>7, <2>1 DEF SessionStatus, SessionMeasured, Written
  <2>3. [r \in Runs |-> SessionStatus(r)]'
          = [[r \in Runs |-> SessionStatus(r)] EXCEPT ![run] = "ok"]
    BY <1>1, <1>2, <1>5, <2>2 DEF Runs
  <2>4. [r \in Runs |-> SessionMeasured(r)]'
          = [[r \in Runs |-> SessionMeasured(r)] EXCEPT ![run] = g]
    BY <1>1, <1>2, <1>5, <2>2 DEF Runs
  <2> QED BY <1>1, <1>2, <1>6, <2>3, <2>4 DEF Session!Report
<1>8. CASE ~res.ok
  <2>1. SessionStatus(run)' = "failed" /\ SessionMeasured(run)' = 0
    BY <1>1, <1>2, <1>3, <1>4, <1>8 DEF SessionStatus, SessionMeasured, Written
  <2>2. \A r \in Runs : SessionStatus(r)' = IF r = run THEN "failed" ELSE SessionStatus(r)
    BY <1>2, <1>5, <2>1
  <2>3. \A r \in Runs : SessionMeasured(r)' = SessionMeasured(r)
    BY <1>2, <1>5, <1>6, <2>1
  <2>4. [r \in Runs |-> SessionStatus(r)]'
          = [[r \in Runs |-> SessionStatus(r)] EXCEPT ![run] = "failed"]
    BY <1>1, <2>2 DEF Runs
  <2>5. [r \in Runs |-> SessionMeasured(r)]' = [r \in Runs |-> SessionMeasured(r)]
    BY <2>3 DEF Runs
  <2> QED BY <1>1, <1>2, <1>6, <2>4, <2>5 DEF Session!Report
<1> QED BY <1>4, <1>7, <1>8

LEMMA NextRunStep ==
  ASSUME IInv, NextRun
  PROVE  UNCHANGED Session!sessionVars
<1>1. run \in Runs /\ \A r \in Runs : r \in Int
  BY RunAssumption DEF IInv, TypeOK, Runs
<1>2. pc = "exited" /\ pc' = "idle" /\ run' = run + 1 /\ files' = files /\ left' = left
  BY DEF NextRun, GoTo
<1>3. \A r \in Runs : SessionStatus(r)' = SessionStatus(r)
  BY <1>1, <1>2 DEF SessionStatus, Written
<1>4. \A r \in Runs : SessionMeasured(r)' = SessionMeasured(r)
  BY <1>2 DEF SessionMeasured, Written
<1> QED BY <1>2, <1>3, <1>4 DEF Session!sessionVars

LEMMA SessionInit == Init => Session!Init
<1> SUFFICES ASSUME Init PROVE Session!Init
  OBVIOUS
<1>1. 1 \in Runs /\ \A r \in Runs : r \in Int /\ r >= 1
  BY RunAssumption DEF Runs
<1>2. \A r \in Runs : SessionStatus(r) = "pending" /\ SessionMeasured(r) = 0
  BY <1>1 DEF Init, SessionStatus, SessionMeasured, Written
<1>3. left = {}
  BY DEF Init
<1> QED BY <1>2, <1>3 DEF Session!Init, Session!Nothing, Session!Runs, Runs

LEMMA SessionStep ==
  ASSUME IInv, [Next]_vars
  PROVE  [Session!Next]_(Session!sessionVars)
<1> USE DEF GoTo
<1>1. ASSUME NEW r \in Runs, Session!Begin(r) \/ Session!Report(r) \/ Session!Abandon(r)
      PROVE  Session!Next
  BY <1>1 DEF Session!Next, Session!Runs, Runs
<1>2. run \in Runs
  BY DEF IInv, TypeOK
<1>3. CASE Launch BY <1>1, <1>2, <1>3, BeginStep
<1>4. CASE WriteResult BY <1>1, <1>2, <1>4, ReportStep
<1>5. CASE NextRun BY <1>5, NextRunStep
<1>6. CASE Refuse BY <1>1, <1>2, <1>6, AbandonStep DEF Refuse
<1>7. CASE TerminatePoll \/ WaitTerm \/ WaitKill
  <2>1. UNCHANGED <<run, files, left>> /\ Phase(pc) = "inside"
    BY <1>7 DEF TerminatePoll, WaitTerm, WaitKill, Phase
  <2>2. pc' = "exited" \/ Phase(pc') = "inside"
    BY <1>7 DEF TerminatePoll, WaitTerm, WaitKill, AfterFinally, Phase
  <2>3. CASE pc' = "exited" BY <1>1, <1>2, <2>1, <2>3, AbandonStep DEF Phase
  <2>4. CASE Phase(pc') = "inside" BY <2>1, <2>4, SessionUnmoved DEF Phase
  <2> QED BY <2>2, <2>3, <2>4
<1>8. CASE \/ EnterTry \/ StartupDeadline \/ PollServer \/ GetHealth \/ ScrapeBefore \/ FlushCache
           \/ BenchExits \/ ScrapeAfter \/ SendTerm \/ SendKill \/ CollectTiming
  <2>1. UNCHANGED <<run, files, left>>
    BY <1>8 DEF EnterTry, StartupDeadline, PollServer, GetHealth, ScrapeBefore, FlushCache,
                BenchExits, ScrapeAfter, SendTerm, SendKill, CollectTiming
  <2>2. Phase(pc) = "inside" /\ Phase(pc') = "inside"
    BY <1>8 DEF EnterTry, StartupDeadline, PollServer, GetHealth, ScrapeBefore, FlushCache,
                BenchExits, ScrapeAfter, SendTerm, SendKill, CollectTiming, Fail, Phase
  <2> QED BY <2>1, <2>2, SessionUnmoved DEF Phase
<1>9. CASE Interrupt
  <2>1. UNCHANGED <<run, files>> /\ Phase(pc) = "inside"
    BY <1>9 DEF Interrupt, InterruptTry, InterruptOutside, Waiting, Measuring, Teardown, Phase
  <2>2. CASE InterruptTry
    BY <2>1, <2>2, SessionUnmoved DEF InterruptTry, Phase
  <2>3. CASE InterruptOutside
    BY <1>1, <1>2, <2>1, <2>3, AbandonStep DEF InterruptOutside, Phase
  <2> QED BY <1>9, <2>2, <2>3 DEF Interrupt
<1>10. CASE BenchRequest \/ ServerStep \/ UNCHANGED vars
  <2>1. UNCHANGED <<run, files, left, pc>>
    BY <1>10 DEF BenchRequest, ServerStep, ServerReady, ServerExits, PoolTeardown,
                 vars, harnessVars
  <2> QED BY <2>1, SessionUnmoved DEF Phase
<1> QED
  BY <1>3, <1>4, <1>5, <1>6, <1>7, <1>8, <1>9, <1>10 DEF Next, MainStep

(* The runs of main() on a shared port implement MeasurementSession: one   *)
(* after the other, each reported at most once, and what is reported ok    *)
(* was measured on the run's own server or on one left behind by Ctrl-C.   *)
THEOREM Refinement ==
  ASSUME ~ForeignServer
  PROVE  Spec => ImplementsSession
<1>1. Init => IInv
  BY IInvInit
<1>2. IInv /\ [Next]_vars => IInv'
  BY IInvStep
<1>3. Init => Session!Init
  BY SessionInit
<1>4. IInv /\ [Next]_vars => [Session!Next]_(Session!sessionVars)
  BY SessionStep
<1> QED
  BY <1>1, <1>2, <1>3, <1>4, PTL DEF Spec, ImplementsSession, Session!Spec

-----------------------------------------------------------------------------
(* The teardown of every run that is over got its leader to exit, or said  *)
(* that it did not, or Ctrl-C left it out; nothing is launched ahead of    *)
(* its run.                                                                *)
Stopped(g) == ~(leader[g] \in {"loading", "serving"}) \/ g \in warned \cup left

TornDown ==
  /\ \A g \in Runs : g < run => Stopped(g)
  /\ pc \in {"collect", "write", "exited"} => Stopped(run)
  /\ \A g \in Runs : g > run => leader[g] = "none"
  /\ pc = "idle" => leader[run] = "none"

(* What has stopped does not come back without a launch.                   *)
LEMMA StoppedStays ==
  ASSUME TypeOK, TornDown, run' = run, warned \subseteq warned', left \subseteq left',
         \A g \in Servers : leader'[g] = leader[g] \/ leader'[g] = "dead"
                              \/ (leader[g] = "loading" /\ leader'[g] = "serving"),
         pc' = "idle" => pc = "idle",
         pc' \in {"collect", "write", "exited"} =>
           \/ pc \in {"idle", "collect", "write", "exited"}
           \/ Exited(run)' \/ run \in (warned \cup left)',
         pc = "idle" /\ pc' # "idle" => UNCHANGED leader,
         \A g \in Servers : leader[g] = "none" => leader'[g] = "none"
  PROVE  TornDown'
<1>1. Runs \subseteq Servers /\ run \in Runs
  BY RunAssumption DEF Runs, TypeOK
<1>2. ASSUME NEW g \in Runs, Stopped(g) PROVE Stopped(g)'
  BY <1>1, <1>2 DEF Stopped
<1>3. pc' \in {"collect", "write", "exited"} => Stopped(run)'
  <2>1. pc = "idle" => Stopped(run)
    BY DEF TornDown, Stopped
  <2> QED
    BY <1>1, <1>2, <2>1 DEF TornDown, Stopped, Exited
<1> QED
  BY <1>1, <1>2, <1>3 DEF TornDown

LEMMA TornDownInit == Init => TornDown
  BY RunAssumption DEF Init, TornDown, Stopped, Runs, Foreign

LEMMA TornDownStep ==
  ASSUME TypeOK, TornDown, [Next]_vars
  PROVE  TornDown'
<1>a. run \in Runs /\ run \in Servers /\ Runs \subseteq Servers
  BY RunAssumption DEF TypeOK, Runs
<1>b. ASSUME UNCHANGED <<leader, run>>, warned \subseteq warned', left \subseteq left',
             pc' = "idle" => pc = "idle",
             pc' \in {"collect", "write", "exited"} =>
               \/ pc \in {"idle", "collect", "write", "exited"}
               \/ Exited(run) \/ run \in (warned \cup left)'
      PROVE  TornDown'
  BY <1>b, StoppedStays DEF Exited
<1> USE DEF GoTo, groupVars
<1>1. CASE Launch
  <2>1. leader' = [leader EXCEPT ![run] = "loading"]
    BY <1>1 DEF Launch, Popen
  <2> QED
    BY <1>1, <1>a, <2>1 DEF Launch, TornDown, Stopped, TypeOK, GroupTypeOK, Runs
<1>2. CASE EnterTry \/ PollServer \/ StartupDeadline
  BY <1>2, <1>b DEF EnterTry, PollServer, StartupDeadline, Fail
<1>3. CASE GetHealth \/ ScrapeBefore \/ FlushCache
  BY <1>3, <1>b DEF GetHealth, ScrapeBefore, FlushCache, Fail
<1>4. CASE ScrapeAfter \/ BenchExits \/ BenchRequest
  BY <1>4, <1>b DEF ScrapeAfter, BenchExits, BenchRequest, Fail
<1>5. CASE TerminatePoll \/ WaitTerm
  BY <1>5, <1>b DEF TerminatePoll, WaitTerm, AfterFinally
<1>6. CASE SendTerm \/ SendKill
  BY <1>6, <1>b DEF SendTerm, SendKill, Killpg
<1>7. CASE WaitKill
  BY <1>7, <1>b DEF WaitKill, AfterFinally
<1>8. CASE CollectTiming \/ WriteResult \/ Refuse
  BY <1>8, <1>b DEF CollectTiming, WriteResult, Refuse
<1>9. CASE Interrupt
  BY <1>9, <1>b DEF Interrupt, InterruptTry, InterruptOutside, Waiting, Measuring, Teardown
<1>10. CASE NextRun
  <2>1. UNCHANGED <<leader, warned, left>> /\ run' = run + 1 /\ pc = "exited" /\ pc' = "idle"
    BY <1>10 DEF NextRun
  <2>2. run' \in Runs
    BY <1>10, <1>a, RunAssumption DEF NextRun, Runs
  <2>3. \A g \in Runs : (g < run + 1 => g < run \/ g = run) /\ (g > run + 1 => g > run)
    BY <1>a DEF Runs
  <2>4. run + 1 > run
    BY <1>a DEF Runs
  <2> QED
    BY <2>1, <2>2, <2>3, <2>4 DEF TornDown, Stopped
<1>11. CASE ServerStep
  <2> PICK g \in Servers : ServerReady(g) \/ ServerExits(g) \/ PoolTeardown(g)
    BY <1>11 DEF ServerStep
  <2>1. UNCHANGED <<run, pc, warned, left>>
    BY DEF ServerReady, ServerExits, PoolTeardown, harnessVars
  <2>2. ASSUME NEW h \in Servers
        PROVE  /\ leader'[h] = leader[h] \/ leader'[h] = "dead"
                    \/ (leader[h] = "loading" /\ leader'[h] = "serving")
               /\ leader[h] = "none" => leader'[h] = "none"
    BY DEF ServerReady, ServerExits, PoolTeardown, Ready, LeaderExits, WorkersExit,
           TypeOK, GroupTypeOK
  <2> QED
    BY <2>1, <2>2, StoppedStays
<1>12. CASE UNCHANGED vars
  BY <1>12, <1>b DEF vars, harnessVars
<1> QED
  BY <1>1, <1>2, <1>3, <1>4, <1>5, <1>6, <1>7, <1>8, <1>9, <1>10, <1>11, <1>12
  DEF Next, MainStep

(* LaunchAfterTeardown for any number of runs, with or without a foreign   *)
(* server: _terminate returns only when the leader has exited or the       *)
(* warning was printed, and only a Ctrl-C that ends main() outside the try *)
(* block leaves a leader behind without either.                            *)
THEOREM CleanLaunch == Spec => LaunchAfterTeardown
<1>1. Init => TypeOK /\ TornDown
  BY TypingInit, TornDownInit
<1>2. TypeOK /\ TornDown /\ [Next]_vars => TypeOK' /\ TornDown'
  BY TypingStep, TornDownStep
<1>3. TornDown => (pc = "idle" /\ pc' = "launched"
                     => \A g \in Runs : g < run => ~(leader[g] \in {"loading", "serving"})
                                                    \/ g \in warned \cup left)
  BY DEF TornDown, Stopped
<1> QED
  BY <1>1, <1>2, <1>3, PTL DEF Spec, LaunchAfterTeardown

-----------------------------------------------------------------------------
(* What an ok result says about traffic and capacity, as long as no Ctrl-C *)
(* has left a server behind.                                               *)

(* What was left behind stays in the record.                               *)
LEMMA LeftGrows == ASSUME [Next]_vars PROVE left \subseteq left'
  BY DEF Next, MainStep, Launch, EnterTry, PollServer, GetHealth, ScrapeBefore, FlushCache,
         ScrapeAfter, TerminatePoll, SendTerm, WaitTerm, SendKill, WaitKill, CollectTiming,
         WriteResult, StartupDeadline, Refuse, BenchRequest, BenchExits, NextRun, Interrupt,
         InterruptTry, InterruptOutside, ServerStep, ServerReady, ServerExits, PoolTeardown,
         vars, harnessVars

LEMMA OnlyOwnServer ==
  ASSUME IInv, left = {}, NEW g \in Servers, Answers(g)
  PROVE  g = run
  BY OnlyOwnAnswers DEF LeftBehind

Bracketed == {"flush", "bench", "after"}

\* The L2 of g is what it will be, and of the size that was asked for.
Settled(g) == leader[g] \in {"serving", "dead"} /\ (EqualTokens => pool[g].capacity = Target)

CapacityKept ==
  /\ pc \in Bracketed \/ res.ok => Settled(run)
  /\ \A r \in Runs : Written(r) /\ files[r].ok => Settled(r)

\* Since the first scrape, the counter moved with the benchmark alone.
TrafficCounted ==
  /\ pc \in Bracketed /\ leader[run] = "serving" => backed[run] = res.before.tokens + traffic
  /\ pc \in Waiting \cup {"idle", "launched", "before", "flush"} => traffic = 0
  /\ res.ok => res.after.tokens - res.before.tokens = traffic

MInv == CapacityKept /\ TrafficCounted

(* Only a launch makes a new pool, and a server is launched once.          *)
LEMMA SettledStays ==
  ASSUME TypeOK, [Next]_vars, NEW g \in Servers, Settled(g)
  PROVE  Settled(g)'
<1>1. CASE UNCHANGED <<leader, pool>>
  BY <1>1 DEF Settled
<1>2. CASE Launch
  <2>1. leader'[g] = leader[g]
    BY <1>2 DEF Launch, Popen, Settled, TypeOK, GroupTypeOK
  <2> QED
    BY <1>2, <2>1 DEF Launch, Popen, Settled
<1>3. CASE ServerStep
  <2>1. \E h \in Servers : Ready(h) \/ LeaderExits(h) \/ WorkersExit(h)
    BY <1>3 DEF ServerStep, ServerReady, ServerExits, PoolTeardown
  <2> QED
    BY <2>1, PoolSettles DEF Settled, TypeOK
<1> QED
  BY <1>1, <1>2, <1>3
  DEF Next, MainStep, PollServer, GetHealth, ScrapeBefore, FlushCache, ScrapeAfter,
      TerminatePoll, SendTerm, WaitTerm, SendKill, WaitKill, CollectTiming, WriteResult,
      StartupDeadline, Refuse, EnterTry, BenchRequest, BenchExits, NextRun, Interrupt, Killpg,
      vars, groupVars

(* A step outside the brackets of the measurement, or out of them, that    *)
(* takes no snapshot.                                                      *)
LEMMA MInvOutside ==
  ASSUME IInv, MInv, [Next]_vars, UNCHANGED <<run, files, traffic>>,
         res'.ok = res.ok, res'.before = res.before, res'.after = res.after,
         pc' \notin Bracketed,
         pc' \in Waiting \cup {"idle", "launched", "before"}
           => pc \in Waiting \cup {"idle", "launched", "before"}
  PROVE  MInv'
<1>1. run \in Servers /\ Runs \subseteq Servers
  BY RunAssumption DEF IInv, TypeOK, Runs
<1>2. \A g \in Servers : Settled(g) => Settled(g)'
  BY SettledStays DEF IInv
<1>3. CapacityKept'
  BY <1>1, <1>2 DEF MInv, CapacityKept, Written
<1>4. TrafficCounted'
  BY DEF MInv, TrafficCounted, Bracketed
<1> QED
  BY <1>3, <1>4 DEF MInv

LEMMA MInvInit == ASSUME Init PROVE MInv
  BY DEF Init, MInv, CapacityKept, TrafficCounted, Bracketed, NewResult, Written

LEMMA MInvStep ==
  ASSUME IInv, MInv, left = {}, [Next]_vars
  PROVE  MInv'
<1>a. run \in Runs /\ run \in Servers /\ Runs \subseteq Servers
  BY RunAssumption DEF IInv, TypeOK, Runs
<1>b. \A g \in Servers : Settled(g) => Settled(g)'
  BY SettledStays DEF IInv
<1>c. res \in Result /\ traffic \in Nat
      /\ \A g \in Servers : SnapOf(g) \in Snap /\ backed[g] \in Nat
  BY SnapTyping, BackedAssumption DEF IInv, TypeOK, GroupTypeOK
<1> USE DEF GoTo, Waiting, Bracketed
<1>1. CASE Refuse \/ Launch \/ EnterTry \/ GetHealth
  BY <1>1, MInvOutside DEF Refuse, Launch, EnterTry, GetHealth
<1>2. CASE StartupDeadline \/ PollServer
  BY <1>2, <1>c, MInvOutside DEF StartupDeadline, PollServer, Fail, Result
<1>3. CASE TerminatePoll \/ SendTerm \/ WaitTerm
  BY <1>3, MInvOutside DEF TerminatePoll, SendTerm, WaitTerm, AfterFinally
<1>4. CASE SendKill \/ WaitKill \/ Interrupt
  BY <1>4, MInvOutside DEF SendKill, WaitKill, Interrupt, InterruptTry, InterruptOutside, Teardown,
              AfterFinally
<1>5. CASE CollectTiming
  BY <1>5, <1>c, MInvOutside DEF CollectTiming, Result
<1>6. CASE ScrapeBefore
  <2>1. UNCHANGED <<groupVars, run, files, traffic>> /\ pc = "before" /\ ~res.ok
    BY <1>6 DEF ScrapeBefore, IInv, ResultOwn, Measuring
  <2>2. CASE Fail
    BY <2>1, <2>2, <1>c, MInvOutside DEF Fail, Result
  <2>3. ASSUME NEW g \in Servers, Answers(g),
               res' = [res EXCEPT !.before = SnapBefore(g), !.error = CapacityMissed(g)],
               pc' = IF CapacityMissed(g) THEN "terminate" ELSE "flush"
        PROVE  MInv'
    <3>1. g = run /\ leader[run] = "serving"
      BY <2>3, OnlyOwnServer DEF Answers
    <3>2. ~res'.ok /\ res'.before.tokens = backed[run] /\ traffic = 0
      BY <2>1, <2>3, <3>1, <1>c DEF SnapBefore, SnapOf, Result, MInv, TrafficCounted
    <3>3. pc' = "flush" => Settled(run)
      BY <2>3, <3>1 DEF CapacityMissed, Settled
    <3>4. CapacityKept'
      BY <2>1, <2>3, <3>2, <3>3, <1>a, <1>b DEF MInv, CapacityKept, Written
    <3>5. TrafficCounted'
      BY <2>1, <2>3, <3>2, <1>a, <1>c DEF TrafficCounted, groupVars
    <3> QED
      BY <3>4, <3>5 DEF MInv
  <2> QED
    BY <1>6, <2>2, <2>3 DEF ScrapeBefore
<1>7. CASE FlushCache
  <2>1. UNCHANGED <<groupVars, run, files, traffic>> /\ pc = "flush" /\ pc' = "bench"
    BY <1>7 DEF FlushCache
  <2>2. res'.ok = res.ok /\ res'.before = res.before /\ res'.after = res.after
    BY <1>7, <1>c DEF FlushCache, Result
  <2>3. CapacityKept'
    BY <2>1, <2>2, <1>a, <1>b DEF MInv, CapacityKept, Written
  <2>4. TrafficCounted'
    BY <2>1, <2>2 DEF MInv, TrafficCounted, groupVars
  <2> QED
    BY <2>3, <2>4 DEF MInv
<1>8. CASE BenchRequest
  <2>1. UNCHANGED <<leader, pool, run, res, files>> /\ pc = "bench" /\ pc' = "bench" /\ ~res.ok
    BY <1>8 DEF BenchRequest, IInv, ResultOwn, Measuring
  <2>2. leader[run] = "serving" /\ backed'[run] = backed[run] + 1 /\ traffic' = traffic + 1
    BY <1>8, OnlyOwnServer DEF BenchRequest, Answers, IInv, TypeOK, GroupTypeOK
  <2>3. CapacityKept'
    BY <2>1, <1>a, <1>b DEF MInv, CapacityKept, Written
  <2>4. res.before.tokens \in Nat
    BY <1>c DEF Result, Snap
  <2>5. TrafficCounted'
    BY <2>1, <2>2, <2>4, <1>a, <1>c DEF MInv, TrafficCounted
  <2> QED
    BY <2>3, <2>5 DEF MInv
<1>9. CASE BenchExits
  <2>1. UNCHANGED <<groupVars, run, files, traffic>> /\ pc = "bench" /\ pc' \in {"after", "terminate"}
        /\ res'.ok = res.ok /\ res'.before = res.before /\ res'.after = res.after
    BY <1>9, <1>c DEF BenchExits, Fail, Result
  <2>2. CapacityKept'
    BY <2>1, <1>a, <1>b DEF MInv, CapacityKept, Written
  <2>3. TrafficCounted'
    BY <2>1 DEF MInv, TrafficCounted, groupVars
  <2> QED
    BY <2>2, <2>3 DEF MInv
<1>10. CASE ScrapeAfter
  <2>1. UNCHANGED <<groupVars, run, files, traffic>> /\ pc = "after" /\ pc' = "terminate"
    BY <1>10 DEF ScrapeAfter, Fail
  <2>2. CASE Fail
    BY <2>1, <2>2, <1>c, MInvOutside DEF Fail, Result
  <2>3. ASSUME NEW g \in Servers, Answers(g),
               res' = [res EXCEPT !.after = SnapOf(g), !.ok = res.rc = "zero",
                                  !.check = WidthCheck(res.before, SnapOf(g))]
        PROVE  MInv'
    <3>1. g = run /\ leader[run] = "serving"
      BY <2>3, OnlyOwnServer DEF Answers
    <3>2. res'.before.tokens = res.before.tokens /\ res'.after.tokens = backed[run]
      BY <2>3, <3>1, <1>c DEF SnapOf, Result
    <3>3. res.before.tokens \in Nat
      BY <1>c DEF Result, Snap
    <3>4. backed[run] = res.before.tokens + traffic /\ Settled(run)
      BY <2>1, <3>1 DEF MInv, TrafficCounted, CapacityKept
    <3>5. CapacityKept'
      BY <2>1, <3>4, <1>a, <1>b DEF MInv, CapacityKept, Written
    <3>6. TrafficCounted'
      BY <2>1, <3>2, <3>3, <3>4, <1>c DEF TrafficCounted
    <3> QED
      BY <3>5, <3>6 DEF MInv
  <2> QED
    BY <1>10, <2>2, <2>3 DEF ScrapeAfter
<1>11. CASE WriteResult
  <2>1. UNCHANGED <<run, res, traffic>> /\ pc' = "exited"
    BY <1>11 DEF WriteResult
  <2>2. \A r \in Runs : files'[r] = IF r = run THEN res ELSE files[r]
    BY <1>11, <1>a DEF WriteResult, IInv, TypeOK
  <2>3. CapacityKept'
    BY <2>1, <2>2, <1>a, <1>b DEF MInv, CapacityKept, Written
  <2>4. TrafficCounted'
    BY <2>1 DEF MInv, TrafficCounted
  <2> QED
    BY <2>3, <2>4 DEF MInv
<1>12. CASE NextRun
  <2>1. UNCHANGED files /\ pc' = "idle" /\ ~res'.ok /\ traffic' = 0
    BY <1>12 DEF NextRun, NewResult
  <2>2. CapacityKept'
    BY <2>1, <1>a, <1>b DEF MInv, CapacityKept, Written
  <2>3. TrafficCounted'
    BY <2>1 DEF TrafficCounted
  <2> QED
    BY <2>2, <2>3 DEF MInv
<1>13. CASE ServerStep
  <2> PICK g \in Servers : ServerReady(g) \/ ServerExits(g) \/ PoolTeardown(g)
    BY <1>13 DEF ServerStep
  <2>1. UNCHANGED <<run, pc, res, files, traffic>>
    BY DEF ServerReady, ServerExits, PoolTeardown, harnessVars
  <2>2. CapacityKept'
    BY <2>1, <1>a, <1>b DEF MInv, CapacityKept, Written
  <2>3. leader[run] = "serving" /\ leader'[run] = "serving" => backed'[run] = backed[run]
    BY <1>a DEF ServerReady, ServerExits, PoolTeardown, Ready, LeaderExits, WorkersExit,
                IInv, TypeOK, GroupTypeOK
  <2>4. pc \in Bracketed /\ leader'[run] = "serving" => leader[run] = "serving"
    BY <1>a DEF ServerReady, ServerExits, PoolTeardown, Ready, LeaderExits, WorkersExit,
                IInv, TypeOK, GroupTypeOK, MInv, CapacityKept, Settled
  <2>5. TrafficCounted'
    BY <2>1, <2>3, <2>4 DEF MInv, TrafficCounted
  <2> QED
    BY <2>2, <2>5 DEF MInv
<1>14. CASE UNCHANGED vars
  <2>1. CapacityKept'
    BY <1>14, <1>a, <1>b DEF vars, harnessVars, MInv, CapacityKept, Written
  <2>2. TrafficCounted'
    BY <1>14 DEF vars, harnessVars, groupVars, MInv, TrafficCounted
  <2> QED
    BY <2>1, <2>2 DEF MInv
<1> QED
  BY <1>1, <1>2, <1>3, <1>4, <1>5, <1>6, <1>7, <1>8, <1>9, <1>10, <1>11, <1>12, <1>13,
     <1>14 DEF Next, MainStep

(* As long as no Ctrl-C has left a server behind, the figures of an ok run *)
(* count its own benchmark's traffic and nothing else, however many        *)
(* requests it sends and whatever the warmup did.                          *)
THEOREM OwnTraffic ==
  ASSUME ~ForeignServer
  PROVE  Spec => [](left = {} => DeltaIsBenchTraffic)
<1> DEFINE Inv == IInv /\ (left = {} => MInv)
<1>1. Init => Inv
  BY IInvInit, MInvInit
<1>2. Inv /\ [Next]_vars => Inv'
  BY IInvStep, MInvStep, LeftGrows
<1>3. Inv => (left = {} => DeltaIsBenchTraffic)
  BY DEF MInv, TrafficCounted, DeltaIsBenchTraffic
<1> HIDE DEF Inv
<1> QED
  BY <1>1, <1>2, <1>3, PTL DEF Spec

(* As long as no Ctrl-C has left a server behind, every equal-tokens       *)
(* result marked ok is about a pool of the target capacity, for any target *)
(* and any capacity the sizing may come to.                                *)
THEOREM TargetCapacity ==
  ASSUME ~ForeignServer
  PROVE  Spec => [](left = {} => EqualTokensHonoured)
<1> DEFINE Inv == IInv /\ (left = {} => MInv)
<1>1. Init => Inv
  BY IInvInit, MInvInit
<1>2. Inv /\ [Next]_vars => Inv'
  BY IInvStep, MInvStep, LeftGrows
<1>3. Inv => (left = {} => EqualTokensHonoured)
  BY DEF IInv, OkMeasuresOwnServer, LeftBehind, MInv, CapacityKept, Settled, EqualTokensHonoured
<1> HIDE DEF Inv
<1> QED
  BY <1>1, <1>2, <1>3, PTL DEF Spec

-----------------------------------------------------------------------------
(* Whose codec timing a result carries.  Files are named after             *)
(* configuration and tag, so int8 runs need tags of their own: with one    *)
(* tag for two runs the property fails.                                    *)

TagsDistinct ==
  \A r, q \in Runs : Config[r] = "int8" /\ Config[q] = "int8" /\ Stem[r] = Stem[q] => r = q

TimingKept ==
  /\ \A s \in Stems : timing[s] # NoOne =>
       /\ timing[s] \in Runs
       /\ Config[timing[s]] = "int8"
       /\ Stem[timing[s]] = s
  /\ res.timing \in {run, NoOne}
  /\ TimingIsOwn

LEMMA TimingKeptInit == ASSUME Init PROVE TimingKept
  BY DEF Init, TimingKept, TimingIsOwn, NewResult, Written

LEMMA TimingKeptStep ==
  ASSUME TypeOK, TagsDistinct, TimingKept, [Next]_vars
  PROVE  TimingKept'
<1>a. res \in Result /\ run \in Runs /\ timing \in [Stems -> 0..NoOne]
      /\ files \in [Runs -> Result \cup {NoFile}]
  BY DEF TypeOK
<1>b. ASSUME UNCHANGED <<run, files, timing>>, res'.timing = res.timing PROVE TimingKept'
  BY <1>b DEF TimingKept, TimingIsOwn, Written
<1>c. ASSUME UNCHANGED <<run, res, files, timing>> PROVE TimingKept'
  BY <1>b, <1>c
<1>d. ASSUME Fail PROVE res'.timing = res.timing
  BY <1>a, <1>d DEF Fail, Result
<1>1. CASE Refuse \/ Launch \/ EnterTry \/ GetHealth \/ BenchRequest \/ Interrupt
  BY <1>1, <1>c DEF Refuse, Launch, EnterTry, GetHealth, BenchRequest, Interrupt,
                                       InterruptTry, InterruptOutside, Teardown
<1>2. CASE TerminatePoll \/ SendTerm \/ WaitTerm \/ SendKill \/ WaitKill
  BY <1>2, <1>c DEF TerminatePoll, SendTerm, WaitTerm, SendKill, WaitKill
<1>3. CASE StartupDeadline \/ PollServer
  BY <1>3, <1>b, <1>d DEF StartupDeadline, PollServer
<1>4. CASE ScrapeBefore BY <1>4, <1>a, <1>b, <1>d DEF ScrapeBefore, Result
<1>5. CASE FlushCache BY <1>5, <1>a, <1>b DEF FlushCache, Result
<1>6. CASE BenchExits BY <1>6, <1>a, <1>b, <1>d DEF BenchExits, Result
<1>7. CASE ScrapeAfter BY <1>7, <1>a, <1>b, <1>d DEF ScrapeAfter, Result
<1>8. CASE CollectTiming
  <2>1. UNCHANGED <<run, files, timing>>
    BY <1>8 DEF CollectTiming
  <2>2. CASE Config[run] # "int8"
    BY <1>8, <1>c, <2>2 DEF CollectTiming
  <2>3. CASE Config[run] = "int8"
    <3>1. res'.timing = timing[Stem[run]] /\ Stem[run] \in Stems
      BY <1>8, <1>a, <2>3 DEF CollectTiming, Result, TimingPath, Stems
    <3>2. timing[Stem[run]] \in {run, NoOne}
      BY <1>a, <2>3, <3>1 DEF TimingKept, TagsDistinct
    <3> QED BY <2>1, <3>1, <3>2 DEF TimingKept, TimingIsOwn, Written
  <2> QED BY <2>2, <2>3
<1>9. CASE WriteResult
  <2>1. \A r \in Runs : files'[r] = IF r = run THEN res ELSE files[r]
    BY <1>9, <1>a DEF WriteResult
  <2> QED BY <1>9, <2>1 DEF WriteResult, TimingKept, TimingIsOwn, Written
<1>10. CASE NextRun
  BY <1>10 DEF NextRun, NewResult, TimingKept, TimingIsOwn, Written
<1>11. CASE ServerStep
  <2> PICK g \in Servers : ServerReady(g) \/ ServerExits(g) \/ PoolTeardown(g)
    BY <1>11 DEF ServerStep
  <2>1. UNCHANGED <<run, res, files>>
    BY DEF ServerReady, ServerExits, PoolTeardown, harnessVars
  <2>2. CASE UNCHANGED timing
    BY <1>c, <2>1, <2>2
  <2>3. CASE g \in Runs /\ Config[g] = "int8" /\ timing' = [timing EXCEPT ![Stem[g]] = g]
    <3>1. \A s \in Stems : timing'[s] = IF s = Stem[g] THEN g ELSE timing[s]
      BY <1>a, <2>3
    <3> QED BY <2>1, <2>3, <3>1 DEF TimingKept, TimingIsOwn, Written
  <2> QED BY <2>2, <2>3 DEF ServerReady, ServerExits, PoolTeardown, harnessVars, TimingPath
<1>12. CASE UNCHANGED vars BY <1>12, <1>c DEF vars, harnessVars
<1> QED
  BY <1>1, <1>2, <1>3, <1>4, <1>5, <1>6, <1>7, <1>8, <1>9, <1>10, <1>11, <1>12
  DEF Next, MainStep

(* No int8 result carries another run's codec timing, however late the     *)
(* workers of an earlier server write theirs and whichever servers answer, *)
(* as long as no two int8 runs have one tag.                               *)
THEOREM OwnTiming ==
  ASSUME TagsDistinct
  PROVE  Spec => []TimingIsOwn
<1>1. Init => TypeOK /\ TimingKept
  BY TypingInit, TimingKeptInit
<1>2. TypeOK /\ TimingKept /\ [Next]_vars => TypeOK' /\ TimingKept'
  BY TypingStep, TimingKeptStep
<1>3. TimingKept => TimingIsOwn
  BY DEF TimingKept
<1> QED
  BY <1>1, <1>2, <1>3, PTL DEF Spec

-----------------------------------------------------------------------------
(* What a passed check of the bytes per token says.  The tolerance would   *)
(* admit a width less than 2% off; of the formats there are, none is.      *)

WidthsApart ==
  \A p \in Pools : \/ p.width = EncodedWidth
                   \/ 50 * (p.width - EncodedWidth) >= EncodedWidth
                   \/ 50 * (EncodedWidth - p.width) >= EncodedWidth

\* The width of the pool of g is final.
Known(g) == leader[g] \in {"serving", "dead"}

IsEncoded(g) == Known(g) /\ pool[g].width = EncodedWidth

WidthKept ==
  /\ pc \in Bracketed => Known(run) /\ res.before.bytes = res.before.tokens * pool[run].width
  /\ res.check = "pass" => IsEncoded(run)
  /\ \A r \in Runs : Written(r) /\ files[r].check = "pass" => IsEncoded(r)

LEMMA Cancel ==
  ASSUME NEW t \in Nat, t > 0, NEW d \in Int, NEW e \in Nat
  PROVE  50 * (t * d) < e * t => 50 * d < e
<1> DEFINE c == 50 * d - e
<1>1. c \in Int /\ t * c = 50 * (t * d) - e * t
  OBVIOUS
<1>2. c >= 0 \/ 50 * d < e
  OBVIOUS
<1> HIDE DEF c
<1>3. c >= 0 => t * c >= 0
  BY <1>1
<1>4. 50 * (t * d) \in Int /\ e * t \in Int
  OBVIOUS
<1>5. c >= 0 => ~(50 * (t * d) < e * t)
  BY <1>1, <1>3, <1>4
<1> QED BY <1>2, <1>5

(* A difference of two totals, each a count times the width, is off the    *)
(* expected one by the count times what the width is off.                  *)
LEMMA Tolerance ==
  ASSUME NEW w \in Nat, NEW e \in Nat \ {0}, NEW a \in Nat, NEW b \in Nat, b - a > 0,
         LET off == (b * w - a * w) - e * (b - a)
         IN  WithinTwoPercent(IF off < 0 THEN -off ELSE off, e * (b - a))
  PROVE  50 * (w - e) < e /\ 50 * (e - w) < e
<1>1. PICK t \in Nat : t = b - a /\ t > 0
  OBVIOUS
<1>2. PICK off \in Int : off = (b * w - a * w) - e * (b - a)
  OBVIOUS
<1>3. b * w = a * w + t * w
  BY <1>1
<1>4. off = t * w - e * t
  BY <1>1, <1>2, <1>3
<1>5. off = t * (w - e) /\ off = -(t * (e - w))
  BY <1>4
<1>6. 50 * off < e * t /\ 50 * (-off) < e * t
  BY <1>1, <1>2 DEF WithinTwoPercent
<1>7. \A d \in Int : 50 * (t * d) < e * t => 50 * d < e
  BY <1>1, Cancel
<1>8. 50 * (t * (w - e)) < e * t /\ 50 * (t * (e - w)) < e * t
  BY <1>5, <1>6
<1> QED BY <1>7, <1>8

LEMMA KnownStays ==
  ASSUME TypeOK, [Next]_vars, NEW g \in Servers, Known(g)
  PROVE  Known(g)' /\ pool'[g] = pool[g]
<1>1. CASE UNCHANGED <<leader, pool>>
  BY <1>1 DEF Known
<1>2. CASE Launch
  BY <1>2 DEF Launch, Popen, Known, TypeOK, GroupTypeOK
<1>3. CASE ServerStep
  <2>1. \E h \in Servers : Ready(h) \/ LeaderExits(h) \/ WorkersExit(h)
    BY <1>3 DEF ServerStep, ServerReady, ServerExits, PoolTeardown
  <2> QED
    BY <2>1, PoolSettles DEF Known, TypeOK
<1> QED
  BY <1>1, <1>2, <1>3
  DEF Next, MainStep, PollServer, GetHealth, ScrapeBefore, FlushCache, ScrapeAfter,
      TerminatePoll, SendTerm, WaitTerm, SendKill, WaitKill, CollectTiming, WriteResult,
      StartupDeadline, Refuse, EnterTry, BenchRequest, BenchExits, NextRun, Interrupt, Killpg,
      vars, groupVars

(* The step that makes the check, on the server of the run.                *)
LEMMA CheckedWidth ==
  ASSUME TypeOK, WidthsApart, NEW g \in Servers,
         res.before.bytes = res.before.tokens * pool[g].width,
         WidthCheck(res.before, SnapOf(g)) = "pass"
  PROVE  pool[g].width = EncodedWidth
<1> DEFINE w == pool[g].width
           a == res.before.tokens
           b == backed[g]
           off == (b * w - a * w) - EncodedWidth * (b - a)
<1>1. w \in Nat /\ a \in Nat /\ b \in Nat /\ EncodedWidth \in Nat \ {0} /\ pool[g] \in Pools
  BY RunAssumption, BackedAssumption DEF TypeOK, GroupTypeOK, Result, Snap
<1>2. SnapOf(g).tokens = b /\ SnapOf(g).bytes = b * w
  BY DEF SnapOf
<1>3. ~(b - a <= 0) /\ WithinTwoPercent(IF off < 0 THEN -off ELSE off, EncodedWidth * (b - a))
  BY <1>2 DEF WidthCheck, None
<1> HIDE DEF w, a, b
<1>4. b - a > 0
  BY <1>1, <1>3
<1>5. 50 * (w - EncodedWidth) < EncodedWidth /\ 50 * (EncodedWidth - w) < EncodedWidth
  BY <1>1, <1>3, <1>4, Tolerance
<1>6. w = EncodedWidth \/ 50 * (w - EncodedWidth) >= EncodedWidth
                       \/ 50 * (EncodedWidth - w) >= EncodedWidth
  BY <1>1 DEF WidthsApart, w
<1> QED BY <1>1, <1>5, <1>6 DEF w

LEMMA WidthKeptInit == ASSUME Init PROVE WidthKept
  BY DEF Init, WidthKept, Bracketed, NewResult, None, Written

(* A step that takes no snapshot leaves the widths as they are.            *)
LEMMA WidthKeptQuiet ==
  ASSUME TypeOK, WidthKept, [Next]_vars, UNCHANGED <<run, files>>,
         res'.before = res.before, res'.check = res.check,
         pc' \in Bracketed => pc \in Bracketed
  PROVE  WidthKept'
<1>1. run \in Servers /\ Runs \subseteq Servers
  BY RunAssumption DEF TypeOK, Runs
<1>2. \A g \in Servers : Known(g) => Known(g)' /\ pool'[g] = pool[g]
  BY KnownStays
<1>3. \A g \in Servers : IsEncoded(g) => IsEncoded(g)'
  BY <1>2 DEF IsEncoded
<1> QED BY <1>1, <1>2, <1>3 DEF WidthKept, Written

LEMMA WidthKeptStep ==
  ASSUME IInv, WidthsApart, WidthKept, left = {}, [Next]_vars
  PROVE  WidthKept'
<1>a. TypeOK /\ run \in Runs /\ run \in Servers /\ Runs \subseteq Servers /\ res \in Result
      /\ files \in [Runs -> Result \cup {NoFile}]
  BY RunAssumption DEF IInv, TypeOK, Runs
<1>b. \A g \in Servers : Known(g) => Known(g)' /\ pool'[g] = pool[g]
  BY <1>a, KnownStays
<1>c. \A g \in Servers : IsEncoded(g) => IsEncoded(g)'
  BY <1>b DEF IsEncoded
<1>d. ASSUME Fail PROVE res'.before = res.before /\ res'.check = res.check /\ pc' = "terminate"
  BY <1>a, <1>d DEF Fail, Result
<1> USE DEF GoTo, Bracketed
<1>1. CASE Refuse \/ Launch \/ EnterTry \/ GetHealth \/ BenchRequest \/ Interrupt
  BY <1>1, <1>a, WidthKeptQuiet DEF Refuse, Launch, EnterTry, GetHealth, BenchRequest, Interrupt,
                                       InterruptTry, InterruptOutside, Teardown
<1>2. CASE TerminatePoll \/ SendTerm \/ WaitTerm \/ SendKill \/ WaitKill
  BY <1>2, <1>a, WidthKeptQuiet
     DEF TerminatePoll, SendTerm, WaitTerm, SendKill, WaitKill, AfterFinally
<1>3. CASE StartupDeadline \/ PollServer
  BY <1>3, <1>a, <1>d, WidthKeptQuiet DEF StartupDeadline, PollServer
<1>4. CASE CollectTiming
  BY <1>4, <1>a, WidthKeptQuiet DEF CollectTiming, Result
<1>5. CASE FlushCache
  BY <1>5, <1>a, WidthKeptQuiet DEF FlushCache, Result
<1>6. CASE BenchExits
  BY <1>6, <1>a, <1>d, WidthKeptQuiet DEF BenchExits, Result
<1>7. CASE ScrapeBefore
  <2>1. UNCHANGED <<groupVars, run, files>> /\ pc = "before"
    BY <1>7 DEF ScrapeBefore
  <2>2. CASE Fail
    BY <2>1, <2>2, <1>a, <1>d, WidthKeptQuiet
  <2>3. ASSUME NEW g \in Servers, Answers(g),
               res' = [res EXCEPT !.before = SnapBefore(g), !.error = CapacityMissed(g)]
        PROVE  WidthKept'
    <3>1. g = run /\ leader[run] = "serving"
      BY <2>1, <2>3, OnlyOwnServer DEF Answers
    <3>2. res'.before = SnapOf(run) /\ res'.check = res.check
      BY <2>3, <3>1, <1>a DEF SnapBefore, Result
    <3>3. Known(run)' /\ res'.before.bytes = res'.before.tokens * pool'[run].width
      BY <2>1, <3>1, <3>2 DEF groupVars, Known, SnapOf
    <3> QED BY <2>1, <3>2, <3>3, <1>a, <1>c DEF WidthKept, Written
  <2> QED BY <1>7, <2>2, <2>3 DEF ScrapeBefore
<1>8. CASE ScrapeAfter
  <2>1. UNCHANGED <<groupVars, run, files>> /\ pc = "after" /\ pc' = "terminate"
    BY <1>8 DEF ScrapeAfter, Fail
  <2>2. CASE Fail
    BY <2>1, <2>2, <1>a, <1>d, WidthKeptQuiet
  <2>3. ASSUME NEW g \in Servers, Answers(g),
               res' = [res EXCEPT !.after = SnapOf(g), !.ok = res.rc = "zero",
                                  !.check = WidthCheck(res.before, SnapOf(g))]
        PROVE  WidthKept'
    <3>1. g = run
      BY <2>1, <2>3, OnlyOwnServer
    <3>2. res'.check = WidthCheck(res.before, SnapOf(run))
      BY <2>3, <3>1, <1>a DEF Result
    <3>3. Known(run) /\ res.before.bytes = res.before.tokens * pool[run].width
      BY <2>1 DEF WidthKept
    <3>4. res'.check = "pass" => IsEncoded(run)
      BY <3>2, <3>3, <1>a, CheckedWidth DEF IsEncoded
    <3> QED BY <2>1, <3>4, <1>a, <1>c DEF WidthKept, Written
  <2> QED BY <1>8, <2>2, <2>3 DEF ScrapeAfter
<1>9. CASE WriteResult
  <2>1. \A r \in Runs : files'[r] = IF r = run THEN res ELSE files[r]
    BY <1>9, <1>a DEF WriteResult
  <2> QED BY <1>9, <2>1, <1>a, <1>c DEF WriteResult, WidthKept, Written
<1>10. CASE NextRun
  BY <1>10, <1>a, <1>c DEF NextRun, NewResult, None, WidthKept, Written
<1>11. CASE ServerStep
  BY <1>11, <1>a, WidthKeptQuiet DEF ServerStep, ServerReady, ServerExits, PoolTeardown, harnessVars
<1>12. CASE UNCHANGED vars BY <1>12, <1>a, WidthKeptQuiet DEF vars, harnessVars
<1> QED
  BY <1>1, <1>2, <1>3, <1>4, <1>5, <1>6, <1>7, <1>8, <1>9, <1>10, <1>11, <1>12
  DEF Next, MainStep

(* As long as no Ctrl-C has left a server behind, a passed check of the    *)
(* bytes per token is about a host pool of encoded records, for any        *)
(* traffic and any widths that the tolerance tells apart.                  *)
THEOREM EncodedPool ==
  ASSUME ~ForeignServer, WidthsApart
  PROVE  Spec => [](left = {} => PassMeansEncoded)
<1> DEFINE Inv == IInv /\ (left = {} => WidthKept)
<1>1. Init => Inv
  BY IInvInit, WidthKeptInit
<1>2. Inv /\ [Next]_vars => Inv'
  BY IInvStep, WidthKeptStep, LeftGrows
<1>3. Inv => (left = {} => PassMeansEncoded)
  BY DEF WidthKept, IsEncoded, PassMeansEncoded
<1> HIDE DEF Inv
<1> QED
  BY <1>1, <1>2, <1>3, PTL DEF Spec
=============================================================================
