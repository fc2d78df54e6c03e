----------------------------- MODULE HandoffProofs -----------------------------
(***************************************************************************)
(* What the gates of pod_bootstrap.sh and a PASS of conformance.py prove,  *)
(* for any vectors, codecs, forks and hardware, and preflight's verdict on *)
(* rows of any size.                                                       *)
(***************************************************************************)
EXTENDS Handoff, FiniteSetTheorems, TLAPS

(* Preflight's verdict on rows is right for every size there is, not only   *)
(* those it tries: the kernel that SGLang selects takes a row exactly if it *)
(* is aligned for the mover (CUDA), and takes every aligned row (ROCm).     *)
THEOREM AlignedRows == AlignedRowsAreEligible(Nat)
  <1> SUFFICES ASSUME NEW n \in Nat
               PROVE  /\ JitEligible(n, FALSE) <=> n % 128 = 0
                      /\ n % 128 = 0 => JitEligible(n, TRUE)
                      /\ \A hip \in BOOLEAN :
                           JitEligible(n, hip) <=> TilesAcrossLanes(n, DefaultUnroll(n), hip)
    BY DEF AlignedRowsAreEligible, ALIGNMENT_BYTES
  <1> DEFINE u == DefaultUnroll(n)
             lanes == 32 \div u
  <1>1. u \in {1, 2, 4}
    BY DEF DefaultUnroll
  <1>2. (128 % lanes = 0) /\ 128 \div lanes \in PackageBytes
    BY <1>1 DEF PackageBytes
  <1>3. Tiles(n, 128, lanes) <=> n % 128 = 0
    BY <1>2 DEF Tiles
  <1> HIDE DEF u, lanes
  <1>4. JitEligible(n, FALSE) <=> n % 128 = 0
    BY <1>3 DEF JitEligible, GroupBytes, COPY_GROUP_THREADS, u, lanes
  <1>5. n % 128 = 0 => JitEligible(n, TRUE)
    BY <1>3 DEF JitEligible, GroupBytes, COPY_GROUP_THREADS, u, lanes
  <1>6. u > 0 /\ u <= 32 /\ 32 % u = 0
    BY <1>1
  <1>7. ASSUME NEW hip \in BOOLEAN
        PROVE  JitEligible(n, hip) <=> TilesAcrossLanes(n, DefaultUnroll(n), hip)
    BY <1>6 DEF JitEligible, TilesAcrossLanes, COPY_GROUP_THREADS, u
  <1> QED
    BY <1>4, <1>5, <1>7

-----------------------------------------------------------------------------
Fields == Tracked \cup {"rev"}

IsTree(t) == t = [f \in Fields |-> t[f]]

(* A manifest has an input and an output for each name, and nothing else.  *)
IsMade(m) ==
  m \in {None, Unreadable} \/
  m = [n \in DOMAIN m |-> [input |-> m[n].input, output |-> m[n].output]]

HasManifests(t) == IsTree(t) /\ IsMade(t.cpu) /\ IsMade(t.cuda) /\ t.rev \in Revisions

(* The pod's code and reference are the committed ones, and each gate       *)
(* leaves behind what it has found.                                        *)
OnPod ==
  /\ HasManifests(pod) /\ HasManifests(base.tree)
  /\ pod.rev = base.tree.rev /\ pod.cpu = base.tree.cpu
  /\ fork \in Forks
  /\ pc \in {"preflight", "conformance", "passed"} => fork.codec = pod.rev.codec
  /\ pc \in {"conformance", "passed"} => fork.source = "current"
  /\ pc = "passed" =>
       Reproduces("cuda", pod.rev, pod.cpu) /\ pod.vec = MakeVectors(pod.rev)

IInv ==
  /\ HasManifests(laptop) /\ HasManifests(head.tree)
  /\ base # None => pc # "none"
  /\ pc # "none" => OnPod

LEMMA LoadedIsCurrent ==
  ASSUME NEW rev, NEW stored
  PROVE  LoadOrMakeVectors(rev, stored) = MakeVectors(rev)
  BY DEF LoadOrMakeVectors

LEMMA ManifestIsMade ==
  ASSUME NEW device, NEW rev, NEW vectors
  PROVE  LET m == Manifest(device, rev, vectors)
         IN  m = [n \in DOMAIN m |-> [input |-> m[n].input, output |-> m[n].output]]
  BY DEF Manifest

(* Two manifests that compare() passes are equal.                          *)
LEMMA OkIsEqual ==
  ASSUME NEW a, NEW b, Compare(a, b) = "ok",
         a = [n \in DOMAIN a |-> [input |-> a[n].input, output |-> a[n].output]],
         b = [n \in DOMAIN b |-> [input |-> b[n].input, output |-> b[n].output]]
  PROVE  a = b
  <1>1. DOMAIN a = DOMAIN b
    BY DEF Compare
  <1>2. \A n \in DOMAIN a : a[n].input = b[n].input /\ a[n].output = b[n].output
    BY DEF Compare
  <1> QED
    BY <1>1, <1>2

(* What a run of conformance.py leaves in the working copy.                *)
LEMMA WrittenIs ==
  ASSUME NEW t, HasManifests(t), NEW device, NEW out \in {"cpu", "cuda"}
  PROVE  LET w == Written(t, device, out)
         IN  /\ HasManifests(w)
             /\ w.vec = MakeVectors(t.rev)
             /\ w[out] = Manifest(device, t.rev, MakeVectors(t.rev))
             /\ \A f \in Fields \ {"vec", out} : w[f] = t[f]
  <1> DEFINE m == Manifest(device, t.rev, MakeVectors(t.rev))
             w == Written(t, device, out)
  <1>1. w = [t EXCEPT !.vec = MakeVectors(t.rev), ![out] = m]
    BY LoadedIsCurrent DEF Written
  <1>2. IsMade(m)
    BY ManifestIsMade DEF IsMade
  <1> HIDE DEF m, w
  <1>3. /\ IsTree(w)
        /\ w.vec = MakeVectors(t.rev) /\ w[out] = m
        /\ \A f \in Fields \ {"vec", out} : w[f] = t[f]
    BY <1>1 DEF HasManifests, IsTree, Fields, Tracked
  <1>4. IsMade(w.cpu) /\ IsMade(w.cuda) /\ w.rev \in Revisions
    BY <1>2, <1>3 DEF HasManifests, Fields, Tracked
  <1> QED
    BY <1>3, <1>4 DEF HasManifests, m, w

(* A PASS against another file: that file holds what is made here.         *)
LEMMA OkIsReproduced ==
  ASSUME NEW t, HasManifests(t), NEW device, NEW out \in {"cpu", "cuda"},
         NEW expect \in {None, "cpu", "cuda"}, expect # out,
         Comparison(t, device, out, expect).says = "ok"
  PROVE  /\ expect # None
         /\ Comparison(t, device, out, expect).ref = t[expect]
         /\ Reproduces(device, t.rev, t[expect])
  <1> DEFINE w == Written(t, device, out)
             m == Manifest(device, t.rev, MakeVectors(t.rev))
  <1>1. w[out] = m /\ HasManifests(w) /\ \A f \in Fields \ {"vec", out} : w[f] = t[f]
    BY WrittenIs
  <1>2. /\ expect # None
        /\ Comparison(t, device, out, expect).ref = w[expect]
        /\ Verdict(w[expect], w[out]) = "ok"
    BY DEF Comparison
  <1>3. m = [n \in DOMAIN m |-> [input |-> m[n].input, output |-> m[n].output]]
    BY ManifestIsMade
  <1> HIDE DEF w, m
  <1>4. w[expect] = t[expect]
    BY <1>1, <1>2 DEF Fields, Tracked
  <1>5. w[expect] \notin {None, Unreadable} /\ Compare(w[expect], m) = "ok"
    BY <1>1, <1>2 DEF Verdict
  <1>6. IsMade(w[expect])
    BY <1>1, <1>2 DEF HasManifests
  <1>7. w[expect] = m
    BY <1>3, <1>5, <1>6, OkIsEqual DEF IsMade
  <1> QED
    BY <1>2, <1>4, <1>7 DEF Reproduces, m

LEMMA Initially == Init => IInv
  <1> SUFFICES ASSUME Init PROVE IInv
    OBVIOUS
  <1>1. PICK rev \in Started :
          laptop = [rev |-> rev, vec |-> MakeVectors(rev),
                    cpu |-> Manifest("cpu", rev, MakeVectors(rev)), cuda |-> None]
    BY DEF Init
  <1>2. IsMade(Manifest("cpu", rev, MakeVectors(rev)))
    BY ManifestIsMade DEF IsMade
  <1>4. rev \in Revisions
    BY HandoffAssumption DEF Revisions
  <1>3. HasManifests(laptop)
    <2> DEFINE m == Manifest("cpu", rev, MakeVectors(rev))
    <2> HIDE DEF m
    <2>1. laptop = [rev |-> rev, vec |-> MakeVectors(rev), cpu |-> m, cuda |-> None]
      BY <1>1 DEF m
    <2>2. IsTree(laptop) /\ laptop.cpu = m /\ laptop.cuda = None
      BY <2>1 DEF IsTree, Fields, Tracked
    <2>3. laptop.rev = rev
      BY <2>1
    <2> QED
      BY <1>2, <1>4, <2>2, <2>3 DEF HasManifests, IsMade, m
  <1> QED
    BY <1>3 DEF Init, IInv

(* HasManifests reads no variable but its argument.                        *)
LEMMA PrimedManifests ==
  /\ HasManifests(laptop)' <=> HasManifests(laptop')
  /\ HasManifests(head.tree)' <=> HasManifests(head'.tree)
  /\ HasManifests(base.tree)' <=> HasManifests(base'.tree)
  /\ HasManifests(pod)' <=> HasManifests(pod')
  <1>1. HasManifests(laptop)' <=> HasManifests(laptop')
    BY DEF HasManifests, IsTree, IsMade
  <1>2. HasManifests(head.tree)' <=> HasManifests(head'.tree)
    BY DEF HasManifests, IsTree, IsMade
  <1>3. HasManifests(base.tree)' <=> HasManifests(base'.tree)
    BY DEF HasManifests, IsTree, IsMade
  <1>4. HasManifests(pod)' <=> HasManifests(pod')
    BY DEF HasManifests, IsTree, IsMade
  <1> QED
    BY <1>1, <1>2, <1>3, <1>4

(* The hardware does not change, so neither does what reproduces.          *)
LEMMA SameReproduced ==
  ASSUME UNCHANGED deviant, pod'.rev = pod.rev, pod'.cpu = pod.cpu,
         Reproduces("cuda", pod.rev, pod.cpu)
  PROVE  Reproduces("cuda", pod.rev, pod.cpu)'
  BY DEF Reproduces, Manifest, Digest, MakeVectors

LEMMA PodKept ==
  ASSUME IInv, HasManifests(laptop'), HasManifests(head'.tree),
         UNCHANGED <<base, pod, fork, pc, deviant>>
  PROVE  IInv'
  <1>1. OnPod => HasManifests(pod)' /\ HasManifests(base.tree)'
    BY PrimedManifests DEF OnPod
  <1>2. OnPod /\ pc = "passed" =>
          Reproduces("cuda", pod.rev, pod.cpu)' /\ pod'.vec = MakeVectors(pod.rev)'
    BY SameReproduced DEF OnPod, MakeVectors
  <1>3. OnPod => OnPod'
    BY <1>1, <1>2 DEF OnPod
  <1> QED
    BY <1>3, PrimedManifests DEF IInv

LEMMA SyncKeeps ==
  ASSUME IInv, Sync
  PROVE  IInv'
  <1> USE DEF Gates, Running
  <1>1. HasManifests(laptop)' /\ HasManifests(head.tree)'
    BY PrimedManifests DEF Sync, IInv
  <1>2. CASE base = None
    <2>1. /\ pod' = head.tree /\ base' = head /\ pc' = "tests" /\ fork' \in Forks
          /\ HasManifests(head.tree)
      BY <1>2 DEF Sync, IInv
    <2>2. HasManifests(pod)' /\ HasManifests(base.tree)'
      BY <2>1, PrimedManifests
    <2>3. pod'.rev = base'.tree.rev /\ pod'.cpu = base'.tree.cpu
      BY <2>1
    <2> QED
      BY <1>1, <2>1, <2>2, <2>3 DEF IInv, OnPod
  <1>3. CASE base # None /\ CanPull(base.tree)
    <2>1. /\ pod' = [f \in Fields |-> IF Changed(f) THEN head.tree[f] ELSE pod[f]]
          /\ base' = head /\ pc' = "tests" /\ fork' \in Forks
      BY <1>3 DEF Sync, Fields
    <2>2. OnPod
      BY <1>3 DEF IInv
    <2>3. IsTree(pod')
      BY <2>1 DEF IsTree
    <2>4. \A f \in {"rev", "cpu"} : pod'[f] = head.tree[f]
      BY <2>1, <2>2 DEF OnPod, Changed, Fields, Tracked
    <2>5. pod'.cuda \in {head.tree.cuda, pod.cuda}
      BY <2>1 DEF Fields, Tracked
    <2>6. IsMade(pod'.cpu) /\ IsMade(pod'.cuda) /\ pod'.rev \in Revisions
      BY <2>2, <2>4, <2>5 DEF IInv, OnPod, HasManifests
    <2>7. HasManifests(pod)' /\ HasManifests(base.tree)'
      BY <2>1, <2>3, <2>6, PrimedManifests DEF HasManifests, IInv
    <2> QED
      BY <1>1, <2>1, <2>4, <2>7 DEF IInv, OnPod
  <1>4. CASE base # None /\ ~CanPull(base.tree)
    <2>1. pc' = "refused" /\ UNCHANGED <<pod, base, fork, head, laptop>>
      BY <1>4 DEF Sync
    <2>2. OnPod
      BY <1>4 DEF IInv
    <2>3. HasManifests(pod)' /\ HasManifests(base.tree)'
      BY <2>1, <2>2, PrimedManifests DEF OnPod
    <2>4. OnPod'
      BY <2>1, <2>2, <2>3 DEF OnPod
    <2> QED
      BY <1>1, <2>1, <2>4 DEF IInv
  <1> QED
    BY <1>2, <1>3, <1>4

(* What every step on the pod keeps; what it must show of its own.         *)
LEMMA OnPodStep ==
  ASSUME IInv, OnPod, UNCHANGED <<laptop, head, base, fork, deviant>>,
         HasManifests(pod'), pod'.rev = pod.rev, pod'.cpu = pod.cpu,
         pc' # "none",
         pc' \in {"preflight", "conformance", "passed"} => fork.codec = pod.rev.codec,
         pc' \in {"conformance", "passed"} => fork.source = "current",
         pc' = "passed" =>
           Reproduces("cuda", pod.rev, pod.cpu) /\ pod'.vec = MakeVectors(pod.rev)
  PROVE  IInv'
  <1>1. /\ HasManifests(laptop)' /\ HasManifests(head.tree)'
        /\ HasManifests(pod)' /\ HasManifests(base.tree)'
    BY PrimedManifests DEF IInv, OnPod
  <1>2. pc' = "passed" =>
          Reproduces("cuda", pod.rev, pod.cpu)' /\ pod'.vec = MakeVectors(pod.rev)'
    BY SameReproduced DEF MakeVectors
  <1>3. OnPod'
    BY <1>1, <1>2 DEF OnPod
  <1> QED
    BY <1>1, <1>3 DEF IInv

(* Gates 1 and 2 keep the files the later ones read, and record their      *)
(* findings.                                                               *)
LEMMA FirstGatesKeep ==
  ASSUME IInv, GateTests \/ GatePreflight
  PROVE  IInv'
  <1>1. OnPod
    BY DEF IInv, GateTests, GatePreflight
  <1>2. HasManifests(pod') /\ pod'.rev = pod.rev /\ pod'.cpu = pod.cpu
    <2>1. CASE GateTests
      BY <1>1, <2>1 DEF GateTests, OnPod, HasManifests, IsTree, Fields, Tracked
    <2>2. CASE GatePreflight
      BY <1>1, <2>2 DEF GatePreflight, OnPod
    <2> QED
      BY <2>1, <2>2
  <1>3. UNCHANGED <<laptop, head, base, fork, deviant>>
    BY DEF GateTests, GatePreflight
  <1>4. /\ pc' \in {"preflight", "conformance", "failed"}
        /\ pc' \in {"preflight", "conformance"} => fork.codec = pod.rev.codec
        /\ pc' = "conformance" => fork.source = "current"
    BY <1>1 DEF OnPod, GateTests, GatePreflight, TestsPass, ForkMatches, PreflightPasses, CheckForkSource
  <1> QED
    BY <1>1, <1>2, <1>3, <1>4, OnPodStep

(* What conformance.py leaves on the pod.                                  *)
LEMMA ConformanceLeaves ==
  ASSUME OnPod, pod' = Written(pod, "cuda", "cuda")
  PROVE  /\ HasManifests(pod') /\ pod'.rev = pod.rev /\ pod'.cpu = pod.cpu
         /\ pod'.vec = MakeVectors(pod.rev)
  <1>1. HasManifests(pod)
    BY DEF OnPod
  <1> DEFINE w == Written(pod, "cuda", "cuda")
  <1>2. /\ HasManifests(w) /\ w.vec = MakeVectors(pod.rev)
        /\ \A f \in Fields \ {"vec", "cuda"} : w[f] = pod[f]
    BY <1>1, WrittenIs
  <1>3. pod' = w
    OBVIOUS
  <1> HIDE DEF w
  <1> QED
    BY <1>2, <1>3 DEF Fields, Tracked

LEMMA ConformanceKeeps ==
  ASSUME IInv, GateConformance
  PROVE  IInv'
  <1>1. OnPod /\ pc = "conformance"
    BY DEF IInv, GateConformance
  <1>2. pod' = Written(pod, "cuda", "cuda")
    BY DEF GateConformance
  <1>3. pc' = "passed" => Reproduces("cuda", pod.rev, pod.cpu)
    <2> SUFFICES ASSUME pc' = "passed" PROVE Reproduces("cuda", pod.rev, pod.cpu)
      OBVIOUS
    <2> DEFINE c == Comparison(pod, "cuda", "cuda", "cpu")
    <2>1. ExitsZero(c)
      BY DEF GateConformance
    <2>2. c.says = "ok"
      BY <2>1, HandoffAssumption DEF ExitsZero, Comparison, Verdict, Compare
    <2> QED
      BY <1>1, <2>2, OkIsReproduced DEF OnPod
  <1>4. pc' \in {"passed", "failed"} /\ UNCHANGED <<laptop, head, base, fork, deviant>>
    BY DEF GateConformance
  <1>5. fork.codec = pod.rev.codec /\ fork.source = "current"
    BY <1>1 DEF OnPod
  <1>6. /\ HasManifests(pod') /\ pod'.rev = pod.rev /\ pod'.cpu = pod.cpu
        /\ pod'.vec = MakeVectors(pod.rev)
    BY <1>1, <1>2, ConformanceLeaves
  <1> QED
    BY <1>1, <1>3, <1>4, <1>5, <1>6, OnPodStep

LEMMA GenerateOnPodKeeps ==
  ASSUME IInv, GenerateOnPod
  PROVE  IInv'
  <1>1. OnPod /\ pc # "none" /\ UNCHANGED <<laptop, head, base, fork, deviant, pc>>
    BY DEF IInv, GenerateOnPod
  <1>2. /\ HasManifests(pod') /\ pod'.rev = pod.rev /\ pod'.cpu = pod.cpu
        /\ pod'.vec = MakeVectors(pod.rev)
    BY <1>1, ConformanceLeaves DEF GenerateOnPod
  <1> QED
    BY <1>1, <1>2, OnPodStep DEF OnPod

LEMMA InterruptKeeps ==
  ASSUME IInv, Interrupt
  PROVE  IInv'
  <1>1. OnPod /\ pc' = "interrupted" /\ UNCHANGED <<laptop, head, base, fork, deviant>>
    BY DEF IInv, Interrupt, Running, Gates
  <1>2. HasManifests(pod)
    BY <1>1 DEF OnPod
  <1>3. HasManifests(pod') /\ pod'.rev = pod.rev /\ pod'.cpu = pod.cpu
    <2>1. CASE UNCHANGED pod
      BY <1>2, <2>1
    <2>2. CASE pod' = [pod EXCEPT !.vec = Unreadable]
      BY <1>2, <2>2 DEF HasManifests, IsTree, Fields, Tracked
    <2>3. CASE pod' = [Written(pod, "cuda", "cuda") EXCEPT !.cuda = Unreadable]
      <3> DEFINE w == Written(pod, "cuda", "cuda")
      <3>1. HasManifests(w) /\ \A f \in Fields \ {"vec", "cuda"} : w[f] = pod[f]
        BY <1>2, WrittenIs
      <3>2. pod' = [w EXCEPT !.cuda = Unreadable]
        BY <2>3
      <3> HIDE DEF w
      <3> QED
        BY <3>1, <3>2 DEF HasManifests, IsTree, IsMade, Fields, Tracked
    <2> QED
      BY <2>1, <2>2, <2>3 DEF Interrupt
  <1> QED
    BY <1>1, <1>3, OnPodStep

(* The laptop's actions: what they leave is again a working copy.          *)
LEMMA LaptopKeeps ==
  ASSUME IInv, UNCHANGED <<base, pod, fork, pc, deviant>>,
         \/ \E rev \in Revisions : Edit(rev)
         \/ \E file \in {"vec", "cpu"} : Damage(file)
         \/ \E expect \in {None, "cpu", "cuda"} : GenerateOnLaptop(expect)
         \/ Push
         \/ Retrieve
  PROVE  IInv'
  <1>1. HasManifests(laptop) /\ HasManifests(head.tree)
    BY DEF IInv
  <1>2. CASE \E rev \in Revisions : Edit(rev)
    BY <1>1, <1>2, PodKept DEF Edit, HasManifests, IsTree, Fields, Tracked
  <1>3. CASE \E file \in {"vec", "cpu"} : Damage(file)
    <2>1. PICK file \in {"vec", "cpu"}, left \in {None, Unreadable} :
            laptop' = [laptop EXCEPT ![file] = left] /\ head' = head
      BY <1>3 DEF Damage
    <2>2. HasManifests(laptop')
      BY <1>1, <2>1 DEF HasManifests, IsTree, IsMade, Fields, Tracked
    <2> QED
      BY <1>1, <2>1, <2>2, PodKept
  <1>4. CASE \E expect \in {None, "cpu", "cuda"} : GenerateOnLaptop(expect)
    <2>1. laptop' = Written(laptop, "cpu", "cpu") /\ head' = head
      BY <1>4 DEF GenerateOnLaptop
    <2>2. HasManifests(laptop')
      BY <1>1, <2>1, WrittenIs
    <2> QED
      BY <1>1, <2>1, <2>2, PodKept
  <1>5. CASE Push
    BY <1>1, <1>5, PodKept DEF Push
  <1>6. CASE Retrieve
    <2>1. IsMade(pod.cuda)
      BY <1>6 DEF Retrieve, IInv, OnPod, HasManifests
    <2>2. HasManifests(laptop')
      BY <1>1, <1>6, <2>1 DEF Retrieve, HasManifests, IsTree, Fields, Tracked
    <2> QED
      BY <1>1, <1>6, <2>2, PodKept DEF Retrieve
  <1> QED
    BY <1>2, <1>3, <1>4, <1>5, <1>6

LEMMA StepKeeps ==
  ASSUME IInv, [Next]_vars
  PROVE  IInv'
  <1> DEFINE Laptop ==
        \/ \E rev \in Revisions : Edit(rev)
        \/ \E file \in {"vec", "cpu"} : Damage(file)
        \/ \E expect \in {None, "cpu", "cuda"} : GenerateOnLaptop(expect)
        \/ Push
        \/ Retrieve
  <1>1. CASE Laptop
    <2>1. UNCHANGED <<base, pod, fork, pc, deviant>>
      BY <1>1 DEF Edit, Damage, GenerateOnLaptop, Push, Retrieve
    <2> QED
      BY <1>1, <2>1, LaptopKeeps
  <1>2. CASE NewPod
    <2>1. /\ base' = None /\ pc' = "none"
          /\ HasManifests(laptop)' /\ HasManifests(head.tree)'
      BY <1>2, PrimedManifests DEF NewPod, IInv
    <2> QED
      BY <2>1 DEF IInv
  <1>3. CASE UNCHANGED vars
    BY <1>3, PodKept DEF vars, IInv
  <1> QED
    BY <1>1, <1>2, <1>3, SyncKeeps, FirstGatesKeep, ConformanceKeeps,
       GenerateOnPodKeeps, InterruptKeeps DEF Next
(* What OnPod says of gates that passed.                                    *)
LEMMA PassedIsReproduced == IInv => GatesMeanReproduced
  <1> SUFFICES ASSUME IInv, pc = "passed"
               PROVE  /\ Reproduces("cuda", base.tree.rev, base.tree.cpu)
                      /\ fork = [source |-> "current", codec |-> base.tree.rev.codec]
                      /\ pod.vec = MakeVectors(base.tree.rev)
    BY DEF GatesMeanReproduced
  <1>1. OnPod
    BY DEF IInv
  <1>2. fork \in [source : ForkStates, codec : Codecs]
    BY <1>1, HandoffAssumption DEF OnPod
  <1>3. fork = [source |-> fork.source, codec |-> fork.codec]
    BY <1>2
  <1> QED
    BY <1>1, <1>3 DEF OnPod

-----------------------------------------------------------------------------
(* The gates of pod_bootstrap.sh pass only where CUDA reproduces the        *)
(* committed reference on current vectors and the fork has the same codec.  *)
THEOREM GatesReproduce == Spec => []GatesMeanReproduced
  BY PassedIsReproduced, Initially, StepKeeps, PTL DEF Spec

(* A PASS of conformance.py against another file than its own output means  *)
(* that this device's codec makes exactly what that file holds, and of      *)
(* exactly the vectors of this code, whatever was in the vector file.       *)
THEOREM PassReproduces == Spec => []PassMeansReproduced
  <1>1. Init => PassMeansReproduced
    BY DEF Init, PassMeansReproduced
  <1>2. ASSUME IInv, PassMeansReproduced, [Next]_vars
        PROVE  PassMeansReproduced'
    <2>1. CASE last' = None
      BY <2>1 DEF PassMeansReproduced
    <2>2. CASE UNCHANGED <<last, deviant>>
      BY <1>2, <2>2 DEF PassMeansReproduced, Reproduces, Manifest, Digest, MakeVectors
    <2>3. ASSUME NEW t, HasManifests(t), NEW device \in {"cpu", "cuda"},
                 NEW out \in {"cpu", "cuda"}, NEW expect \in {None, "cpu", "cuda"},
                 last' = Comparison(t, device, out, expect), UNCHANGED deviant
          PROVE  PassMeansReproduced'
      <3> DEFINE c == Comparison(t, device, out, expect)
      <3>1. /\ c.out = out /\ c.expect = expect
            /\ c.device = device /\ c.rev = t.rev
        BY DEF Comparison
      <3>2. c.says = "ok" /\ out # expect => Reproduces(device, t.rev, c.ref)
        BY <2>3, OkIsReproduced
      <3>3. last' = c
        BY <2>3
      <3> HIDE DEF c
      <3>4. last'.says = "ok" /\ last'.out # last'.expect =>
              Reproduces(last'.device, last'.rev, last'.ref)
        BY <3>1, <3>2, <3>3
      <3> QED
        BY <2>3, <3>4 DEF PassMeansReproduced, Reproduces, Manifest, Digest, MakeVectors
    <2>4. CASE \E expect \in {None, "cpu", "cuda"} : GenerateOnLaptop(expect)
      BY <1>2, <2>3, <2>4 DEF GenerateOnLaptop, IInv
    <2>5. CASE GateConformance
      BY <1>2, <2>3, <2>5 DEF GateConformance, IInv, OnPod
    <2>6. CASE GenerateOnPod
      BY <1>2, <2>3, <2>6 DEF GenerateOnPod, IInv, OnPod
    <2> QED
      BY <1>2, <2>1, <2>2, <2>4, <2>5, <2>6
      DEF Next, vars, Edit, Damage, Push, Retrieve, Sync, GateTests, GatePreflight, Interrupt, NewPod
  <1> QED
    BY <1>1, <1>2, Initially, StepKeeps, PTL DEF Spec

-----------------------------------------------------------------------------
(* Why gates fail, and that they do not fail where they passed.            *)

(* What is asked of a commit and a fork for the gates to pass.             *)
Good(tree, f) ==
  /\ Reproduces("cuda", tree.rev, tree.cpu)
  /\ f = [source |-> "current", codec |-> tree.rev.codec]

(* What gates 1 and 2 have found out about the committed reference.        *)
Found ==
  /\ pc \in {"preflight", "conformance"} => ManifestInputsMatch
  /\ pc = "conformance" => pod.cpu \notin {None, Unreadable}

(* A number names one commit, the pod never goes back to an earlier one,   *)
(* and the one that last passed is good.                                   *)
History ==
  /\ head.id \in 0..MaxPushes
  /\ pc # "none" =>
       /\ base.id \in Nat /\ base.id <= head.id
       /\ base.id = head.id => base.tree = head.tree
  /\ gated # None =>
       /\ gated[1] \in Nat /\ gated[1] <= head.id
       /\ pc # "none" => gated[1] <= base.id
       /\ gated[1] = head.id => Good(head.tree, gated[2])
       /\ pc # "none" /\ gated[1] = base.id => Good(base.tree, gated[2])

(* The numbers of preflight.py that do not depend on the pod are right.    *)
LEMMA FixedChecks == CheckFormat /\ CheckJit /\ CheckJitBoundaries /\ CheckCapacity
  <1>1. ROW_BYTES = 1152
    BY DEF ROW_BYTES, RowBytes, V1_LAYOUT
  <1>2. CheckFormat
    BY <1>1 DEF CheckFormat, BytesPerTokenAllLayers, BytesPerToken, ROW_BYTES
  <1>3. JitEligible(ROW_BYTES, FALSE)
    BY <1>1 DEF JitEligible, GroupBytes, DefaultUnroll, COPY_GROUP_THREADS, Tiles, PackageBytes
  <1>4. CheckJit
    <2>1. ROW_BYTES % 16 = 0
      BY <1>1
    <2> QED
      BY <1>3, <2>1, Zenon DEF CheckJit
  <1>5. CheckJitBoundaries
    <2>1. 16 * 72 = 1152 /\ 72 \in 1..256
      OBVIOUS
    <2>2. ROW_BYTES \in {16 * k : k \in 1..256}
      BY <1>1, <2>1
    <2> QED
      BY <1>3, <2>2, Zenon DEF CheckJitBoundaries
  <1>6. CheckCapacity
    BY DEF CheckCapacity
  <1> QED
    BY <1>2, <1>4, <1>5, <1>6

(* A manifest that was made has a digest for each of the vectors, and is a *)
(* file like any other.                                                    *)
LEMMA ManifestIsAFile ==
  ASSUME NEW device, NEW rev \in Revisions
  PROVE  LET m == Manifest(device, rev, MakeVectors(rev))
         IN  /\ m \notin {None, Unreadable}
             /\ DOMAIN m = DOMAIN MakeVectors(rev)
             /\ \A n \in DOMAIN m : m[n].input = MakeVectors(rev)[n]
             /\ Cardinality(DOMAIN m) > 0
  <1> DEFINE v == rev.vectors
             names == DOMAIN VectorSets[v]
             contents == {VectorSets[v][n] : n \in names}
             manifests == [names -> [input : contents, output : Codecs \X contents \X BOOLEAN]]
             m == Manifest(device, rev, MakeVectors(rev))
  <1>1. v \in DOMAIN VectorSets /\ rev.codec \in Codecs
    BY DEF Revisions
  <1>2. /\ IsFiniteSet(names) /\ names # {}
        /\ None \notin manifests /\ Unreadable \notin manifests
    BY <1>1, HandoffAssumption
  <1>3. m = [n \in names |-> [input |-> VectorSets[v][n],
                              output |-> Digest(device, rev.codec, VectorSets[v][n])]]
    BY DEF Manifest, MakeVectors
  <1>4. \A n \in names : Digest(device, rev.codec, VectorSets[v][n]) \in Codecs \X contents \X BOOLEAN
    BY <1>1 DEF Digest
  <1>5. \A n \in names : VectorSets[v][n] \in contents
    OBVIOUS
  <1> HIDE DEF names, contents, m
  <1>6. m \in manifests
    BY <1>3, <1>4, <1>5
  <1>7. Cardinality(names) \in Nat /\ Cardinality(names) # 0
    BY <1>2, FS_CardinalityType, FS_EmptySet
  <1>8. DOMAIN m = names /\ \A n \in names : m[n].input = VectorSets[v][n]
    BY <1>3
  <1>9. m \notin {None, Unreadable} /\ Cardinality(DOMAIN m) > 0
    BY <1>2, <1>6, <1>7, <1>8
  <1> QED
    BY <1>8, <1>9 DEF MakeVectors, m, names

(* Where CUDA makes the committed reference and the fork has the codec, no *)
(* gate fails: the manifest that gate 3 makes is the reference.            *)
LEMMA GoodPasses ==
  ASSUME IInv, GateTests \/ GatePreflight \/ GateConformance, Good(base.tree, fork)
  PROVE  pc' # "failed"
  <1> DEFINE m == Manifest("cuda", pod.rev, MakeVectors(pod.rev))
  <1>1. OnPod
    BY DEF IInv, GateTests, GatePreflight, GateConformance
  <1>2. pod.rev \in Revisions /\ HasManifests(pod)
    BY <1>1 DEF OnPod, HasManifests
  <1>3. pod.cpu = m /\ fork.codec = pod.rev.codec /\ fork.source = "current"
    BY <1>1 DEF OnPod, Good, Reproduces
  <1>4. /\ m \notin {None, Unreadable} /\ DOMAIN m = DOMAIN MakeVectors(pod.rev)
        /\ \A n \in DOMAIN m : m[n].input = MakeVectors(pod.rev)[n]
        /\ Cardinality(DOMAIN m) > 0
    BY <1>2, ManifestIsAFile
  <1>5. CASE GateTests
    <2>1. TestsPass
      BY <1>3, <1>4 DEF TestsPass, ForkMatches, ManifestInputsMatch
    <2> QED
      BY <1>5, <2>1 DEF GateTests
  <1>6. CASE GatePreflight
    <2>1. ManifestVectors > 0
      BY <1>3, <1>4 DEF ManifestVectors
    <2>2. PreflightPasses(fork.source, ManifestVectors)
      BY <1>3, <2>1, FixedChecks DEF PreflightPasses, CheckForkSource
    <2> QED
      BY <1>6, <2>2 DEF GatePreflight
  <1>7. CASE GateConformance
    <2> DEFINE w == Written(pod, "cuda", "cuda")
    <2>1. w.cuda = m /\ w.cpu = pod.cpu
      <3>1. /\ w["cuda"] = m
            /\ \A f \in Fields \ {"vec", "cuda"} : w[f] = pod[f]
        BY <1>2, WrittenIs
      <3> HIDE DEF w, m
      <3> QED
        BY <3>1 DEF Fields, Tracked
    <2>2. Compare(m, m) = "ok"
      BY DEF Compare
    <2>3. Verdict(w.cpu, w.cuda) = "ok"
      <3> HIDE DEF w, m
      <3> QED
        BY <1>3, <1>4, <2>1, <2>2 DEF Verdict
    <2>4. Comparison(pod, "cuda", "cuda", "cpu").says = "ok"
      BY <2>3, HandoffAssumption DEF Comparison
    <2>5. ExitsZero(last')
      BY <1>7, <2>4 DEF GateConformance, ExitsZero
    <2> QED
      BY <1>7, <2>5 DEF GateConformance
  <1> QED
    BY <1>5, <1>6, <1>7

(* The hardware does not change, so neither does what is good.             *)
LEMMA GoodPrimed ==
  ASSUME UNCHANGED deviant
  PROVE  /\ Good(base.tree, fork)' <=> Good(base'.tree, fork')
         /\ Good(head.tree, gated[2])' <=> Good(head'.tree, gated'[2])
         /\ Good(base.tree, gated[2])' <=> Good(base'.tree, gated'[2])
  BY DEF Good, Reproduces, Manifest, Digest, MakeVectors

LEMMA AlarmStep ==
  ASSUME IInv, NoFalseAlarm, [Next]_vars
  PROVE  NoFalseAlarm'
  <1>1. NoFalseAlarm <=> (pc = "failed" => ~Good(base.tree, fork))
    BY DEF NoFalseAlarm, Good
  <1>2. NoFalseAlarm' <=> (pc' = "failed" => ~Good(base'.tree, fork'))
    <2>1. UNCHANGED deviant
      BY DEF Next, vars, Edit, Damage, GenerateOnLaptop, Push, Retrieve, Sync, GateTests,
             GatePreflight, GateConformance, GenerateOnPod, Interrupt, NewPod
    <2>2. NoFalseAlarm' <=> (pc' = "failed" => ~Good(base.tree, fork)')
      BY DEF NoFalseAlarm, Good
    <2> QED
      BY <2>1, <2>2, GoodPrimed
  <1>3. CASE UNCHANGED <<pc, base, fork>>
    BY <1>1, <1>2, <1>3
  <1>4. CASE GateTests \/ GatePreflight \/ GateConformance
    <2>1. UNCHANGED <<base, fork>>
      BY <1>4 DEF GateTests, GatePreflight, GateConformance
    <2> QED
      BY <1>2, <1>4, <2>1, GoodPasses
  <1>5. CASE pc' # "failed"
    BY <1>2, <1>5
  <1> QED
    BY <1>3, <1>4, <1>5
    DEF Next, vars, Edit, Damage, GenerateOnLaptop, Push, Retrieve, Sync, GenerateOnPod,
        Interrupt, NewPod

(* The gates fail exactly where CUDA does not make the committed reference *)
(* or the fork has another codec or kernel (GatesReproduce is the other    *)
(* half): neither stale, broken or missing files nor earlier interrupts    *)
(* make them fail.                                                         *)
THEOREM NoAlarm == Spec => []NoFalseAlarm
  <1>1. Init => NoFalseAlarm
    BY DEF Init, NoFalseAlarm
  <1> QED
    BY <1>1, Initially, StepKeeps, AlarmStep, PTL DEF Spec

-----------------------------------------------------------------------------
(* What gates 1 and 2 found stays true until gate 3 reads it.              *)
LEMMA FoundStep ==
  ASSUME IInv, Found, [Next]_vars
  PROVE  Found'
  <1>1. CASE UNCHANGED <<pod, pc>>
    BY <1>1 DEF Found, ManifestInputsMatch, MakeVectors
  <1>2. CASE GateTests
    <2>1. pc' \in {"preflight", "failed"} /\ (pc' = "preflight" => ManifestInputsMatch)
      BY <1>2 DEF GateTests, TestsPass
    <2>2. OnPod
      BY <1>2 DEF GateTests, IInv
    <2>3. pod'.cpu = pod.cpu /\ pod'.rev = pod.rev
      BY <1>2, <2>2 DEF GateTests, OnPod, HasManifests, IsTree, Fields, Tracked
    <2> QED
      BY <2>1, <2>3 DEF Found, ManifestInputsMatch, MakeVectors
  <1>3. CASE GatePreflight
    <2>1. UNCHANGED pod /\ pc = "preflight" /\ pc' \in {"conformance", "failed"}
      BY <1>3 DEF GatePreflight
    <2>2. pc' = "conformance" => ManifestVectors > 0
      BY <1>3 DEF GatePreflight, PreflightPasses
    <2>3. pod.cpu \in {None, Unreadable} => ~(ManifestVectors > 0)
      BY DEF ManifestVectors
    <2> QED
      BY <2>1, <2>2, <2>3 DEF Found, ManifestInputsMatch, MakeVectors
  <1>4. CASE pc' \notin {"preflight", "conformance"}
    BY <1>4 DEF Found
  <1>5. CASE GenerateOnPod
    BY <1>5 DEF GenerateOnPod, Running, Gates, Found
  <1> QED
    BY <1>1, <1>2, <1>3, <1>4, <1>5
    DEF Next, vars, Edit, Damage, GenerateOnLaptop, Push, Retrieve, Sync, GateConformance,
        Interrupt, NewPod

(* A failure of gate 3 is about outputs, or about vectors that only one    *)
(* side has: a missing, a broken reference and old inputs do not get past  *)
(* gates 1 and 2.                                                          *)
THEOREM GateThree == Spec => GateThreeIsConclusive
  <1>1. Init => Found
    BY DEF Init, Found
  <1>2. ASSUME IInv, Found, [Next]_vars, pc = "conformance", pc' = "failed"
        PROVE  last'.says \in {"outputs", "sets"}
    <2>1. GateConformance
      BY <1>2 DEF Next, vars, Edit, Damage, GenerateOnLaptop, Push, Retrieve, Sync, GateTests,
                  GatePreflight, GenerateOnPod, Interrupt, NewPod, Running, Gates
    <2> DEFINE w == Written(pod, "cuda", "cuda")
               m == Manifest("cuda", pod.rev, MakeVectors(pod.rev))
    <2>2. OnPod
      BY <1>2, <2>1 DEF IInv, GateConformance
    <2>3. HasManifests(pod) /\ pod.rev \in Revisions
      BY <2>2 DEF OnPod, HasManifests
    <2>4. pod.cpu \notin {None, Unreadable} /\ ManifestInputsMatch
      BY <1>2 DEF Found
    <2>5. DOMAIN m = DOMAIN MakeVectors(pod.rev)
          /\ \A n \in DOMAIN m : m[n].input = MakeVectors(pod.rev)[n]
      BY <2>3, ManifestIsAFile
    <2>6. w["cuda"] = m /\ \A f \in Fields \ {"vec", "cuda"} : w[f] = pod[f]
      BY <2>3, WrittenIs
    <2>7. /\ last'.says = Verdict(w.cpu, w.cuda)
          /\ last'.says # "ok"
      BY <1>2, <2>1, HandoffAssumption DEF GateConformance, Comparison, ExitsZero
    <2> HIDE DEF w, m
    <2>8. w.cpu = pod.cpu /\ w.cuda = m
      BY <2>6 DEF Fields, Tracked
    <2>9. last'.says = Compare(pod.cpu, m)
      BY <2>4, <2>7, <2>8 DEF Verdict
    <2>10. Compare(pod.cpu, m) # "inputs"
      BY <2>4, <2>5 DEF Compare, ManifestInputsMatch
    <2> QED
      BY <2>7, <2>9, <2>10 DEF Compare
  <1> QED
    BY <1>1, <1>2, Initially, StepKeeps, FoundStep, PTL DEF Spec, GateThreeIsConclusive

-----------------------------------------------------------------------------
LEMMA HistoryInit == Init => History
  BY HandoffAssumption DEF Init, History

LEMMA HistoryStep ==
  ASSUME IInv, IInv', History, [Next]_vars
  PROVE  History'
  <1>a. UNCHANGED deviant
    BY DEF Next, vars, Edit, Damage, GenerateOnLaptop, Push, Retrieve, Sync, GateTests,
           GatePreflight, GateConformance, GenerateOnPod, Interrupt, NewPod
  <1>b. /\ Good(head.tree, gated[2])' <=> Good(head'.tree, gated'[2])
        /\ Good(base.tree, gated[2])' <=> Good(base'.tree, gated'[2])
    BY <1>a, GoodPrimed
  <1>c. pc' \in Gates \cup {"passed", "failed", "refused", "interrupted"} => pc' # "none"
    BY DEF Gates
  <1>1. CASE UNCHANGED <<head, base, gated>> /\ (pc' # "none" => pc # "none")
    BY <1>b, <1>1 DEF History
  <1>2. CASE Push
    <2>1. /\ head'.id = head.id + 1 /\ UNCHANGED <<base, gated, pc>>
          /\ head'.id \in 0..MaxPushes
      BY <1>2, HandoffAssumption DEF Push, History
    <2> QED
      BY <1>b, <2>1 DEF History
  <1>3. CASE Sync
    <2>1. UNCHANGED <<head, gated>>
      BY <1>3 DEF Sync
    <2>2. CASE base' = head
      BY <1>b, <2>1, <2>2 DEF History
    <2>3. CASE base # None /\ UNCHANGED base
      <3>1. pc # "none"
        BY <2>3 DEF IInv
      <3> QED
        BY <1>b, <2>1, <2>3, <3>1 DEF History
    <2> QED
      BY <1>3, <2>2, <2>3 DEF Sync
  <1>4. CASE GateConformance
    <2>1. UNCHANGED <<head, base, fork>> /\ pc # "none" /\ pc' \in {"passed", "failed"}
      BY <1>4 DEF GateConformance
    <2>2. CASE UNCHANGED gated
      BY <1>1, <2>1, <2>2
    <2>3. CASE pc' = "passed" /\ gated' = <<base.id, fork>>
      <3>1. GatesMeanReproduced'
        BY PassedIsReproduced, PTL
      <3>2. Good(base.tree, fork)'
        BY <2>3, <3>1 DEF GatesMeanReproduced, Good
      <3>3. Good(base'.tree, fork')
        BY <1>a, <3>2, GoodPrimed
      <3>4. gated'[1] = base'.id /\ gated'[2] = fork'
        BY <2>1, <2>3
      <3> QED
        BY <1>b, <2>1, <2>3, <3>3, <3>4 DEF History
    <2> QED
      BY <1>4, <2>2, <2>3 DEF GateConformance
  <1>5. CASE NewPod
    BY <1>b, <1>5 DEF NewPod, History
  <1>6. CASE Interrupt
    BY <1>1, <1>6 DEF Interrupt, Running, Gates
  <1> QED
    BY <1>1, <1>2, <1>3, <1>4, <1>5, <1>6
    DEF Next, vars, Edit, Damage, GenerateOnLaptop, Retrieve, GateTests, GatePreflight, GenerateOnPod

(* Running pod_bootstrap.sh again with a commit and a fork that passed     *)
(* neither fails nor is refused, on any pod, interrupted or not, after any *)
(* number of other commits and with whatever a laptop did to its files.    *)
THEOREM Rerun == Spec => RerunPasses
  <1>1. ASSUME IInv, History, [Next]_vars, pc' # pc
        PROVE  /\ pc' = "failed" => gated # <<base.id, fork>>
               /\ (pc' = "refused" /\ gated # None) => gated[1] # head.id
    <2>1. ASSUME pc' = "failed", gated = <<base.id, fork>> PROVE FALSE
      <3>1. (GateTests \/ GatePreflight \/ GateConformance) /\ pc # "none"
        BY <1>1, <2>1 DEF Next, vars, Edit, Damage, GenerateOnLaptop, Push, Retrieve, Sync,
             GenerateOnPod, Interrupt, NewPod, GateTests, GatePreflight, GateConformance
      <3>2. gated # None => Good(base.tree, fork)
        BY <1>1, <2>1, <3>1 DEF History
      <3>3. fork \in Forks /\ base.id \in 0..MaxPushes
        <4>1. OnPod /\ head.id \in 0..MaxPushes /\ base.id \in Nat /\ base.id <= head.id
          BY <1>1, <3>1 DEF IInv, History
        <4> QED
          BY <4>1, HandoffAssumption DEF OnPod
      <3>4. gated # None
        BY <2>1, <3>3, HandoffAssumption
      <3> QED
        BY <1>1, <2>1, <3>1, <3>2, <3>4, GoodPasses
    <2>2. ASSUME pc' = "refused", gated # None, gated[1] = head.id PROVE FALSE
      <3>1. base # None /\ ~CanPull(base.tree)
        BY <1>1, <2>2 DEF Next, vars, Edit, Damage, GenerateOnLaptop, Push, Retrieve, Sync,
             GenerateOnPod, Interrupt, NewPod, GateTests, GatePreflight, GateConformance
      <3>2. base.tree = head.tree
        <4>1. pc # "none"
          BY <1>1, <3>1 DEF IInv
        <4> QED
          BY <1>1, <2>2, <4>1 DEF History
      <3> QED
        BY <3>1, <3>2 DEF CanPull, Changed
    <2> QED
      BY <2>1, <2>2
  <1> QED
    BY <1>1, Initially, StepKeeps, HistoryInit, HistoryStep, PTL DEF Spec, RerunPasses
=============================================================================
