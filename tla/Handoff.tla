-------------------------------- MODULE Handoff --------------------------------
(***************************************************************************)
(* From the laptop to the pod: scripts/conformance.py writes the CPU        *)
(* manifest of the codec on a laptop, the repository carries it, and        *)
(* scripts/pod_bootstrap.sh brings a pod's checkout up to date and runs its *)
(* gates: the tests, preflight.py and conformance.py on CUDA.  A tensor is  *)
(* a content, a digest says which codec made it of which content where.     *)
(***************************************************************************)
EXTENDS Preflight, FiniteSets

CONSTANTS
  None, Unreadable,   \* a file that is not there; one that cannot be loaded
  VectorSets,         \* versions of make_vectors: [name -> content]
  Codecs,             \* versions of hiqcache.codec
  Deviations,         \* possible sets of <<codec, content>> on which CUDA deviates
  Forks,              \* what the SGLang branch may be at
  Started,            \* revisions at which the repository is clean
  MaxEdits, MaxPushes \* bounds

ASSUME HandoffAssumption ==
  /\ None # Unreadable /\ None \notin {"vec", "cpu", "cuda"}
  /\ Forks # {} /\ Forks \subseteq [source : ForkStates, codec : Codecs]
  /\ Started \subseteq [vectors : DOMAIN VectorSets, codec : Codecs]
  /\ MaxEdits \in Nat /\ MaxPushes \in Nat
  /\ \A v \in DOMAIN VectorSets :
       LET names == DOMAIN VectorSets[v]
           contents == {VectorSets[v][n] : n \in names}
           manifests == [names -> [input : contents, output : Codecs \X contents \X BOOLEAN]]
       IN  /\ IsFiniteSet(names) /\ names # {}
           /\ None \notin manifests /\ Unreadable \notin manifests
  /\ \A id \in 0..MaxPushes, f \in Forks : None # <<id, f>>

VARIABLES
  laptop,    \* working copy: the code and three files of results/
  head,      \* the pushed commit, with its number
  base,      \* the commit the pod's checkout is at, None before it is cloned
  pod,       \* the pod's working copy, or None
  fork,      \* the pod's SGLang checkout, or None
  pc,        \* of pod_bootstrap.sh: the gate it is at, or how it ended ("none",
             \* "passed", "failed", "refused", "interrupted")
  last,      \* what conformance.py did in the latest step, None if it was not run
  deviant,   \* hardware: where CUDA deviates from the CPU
  gated,     \* history: commit and fork that last passed all gates
  edits

vars == <<laptop, head, base, pod, fork, pc, last, deviant, gated, edits>>

Revisions == [vectors : DOMAIN VectorSets, codec : Codecs]
Tracked == {"vec", "cpu", "cuda"}   \* results/conformance_*
Gates == {"tests", "preflight", "conformance"}

-----------------------------------------------------------------------------
(* conformance.py                                                          *)

MakeVectors(rev) == VectorSets[rev.vectors]

Digest(device, codec, content) ==
  <<codec, content, device = "cuda" /\ <<codec, content>> \in deviant>>

(* The vectors a run encodes and leaves in the file: the stored set is     *)
(* taken only when its fingerprint is that of a fresh one.                 *)
LoadOrMakeVectors(rev, stored) ==
  IF stored = MakeVectors(rev) THEN stored ELSE MakeVectors(rev)

(* run: a digest of the input and the digests of everything made of it.    *)
Manifest(device, rev, vectors) ==
  [n \in DOMAIN vectors |->
     [input |-> vectors[n], output |-> Digest(device, rev.codec, vectors[n])]]

\* MUTANT: only the vectors that both manifests have are compared.
CompareCommon(a, b) ==
  LET names == DOMAIN a \cap DOMAIN b
  IN  IF \E n \in names : a[n].input # b[n].input THEN "inputs"
      ELSE IF \E n \in names : a[n].output # b[n].output THEN "outputs" ELSE "ok"

(* compare: only "ok" is a pass.                                           *)
Compare(a, b) ==
  IF DOMAIN a # DOMAIN b THEN "sets"
  ELSE IF \E n \in DOMAIN a : a[n].input # b[n].input THEN "inputs"
  ELSE IF \E n \in DOMAIN a : a[n].output # b[n].output THEN "outputs" ELSE "ok"

Verdict(ref, made) ==
  IF ref = None THEN "missing" ELSE IF ref = Unreadable THEN "raised" ELSE Compare(ref, made)

(* "generate" up to "wrote": the vector file, then the manifest.           *)
Written(tree, device, out) ==
  LET vectors == LoadOrMakeVectors(tree.rev, tree.vec)
  IN  [tree EXCEPT !.vec = vectors, ![out] = Manifest(device, tree.rev, vectors)]

(* "generate --expect": the reference is read after the manifest is        *)
(* written.  "unasked" is a run without --expect.                          *)
Comparison(tree, device, out, expect) ==
  LET after == Written(tree, device, out)
  IN  [device |-> device, rev |-> tree.rev, out |-> out, expect |-> expect,
       made |-> after[out],
       ref |-> IF expect = None THEN None ELSE after[expect],
       says |-> IF expect = None THEN "unasked" ELSE Verdict(after[expect], after[out])]

ExitsZero(comparison) == comparison.says \in {"ok", "unasked"}

Init ==
  /\ deviant \in Deviations
  /\ \E rev \in Started :
       /\ laptop = [rev |-> rev, vec |-> MakeVectors(rev),
                    cpu |-> Manifest("cpu", rev, MakeVectors(rev)), cuda |-> None]
       /\ head = [id |-> 0, tree |-> laptop]
  /\ base = None /\ pod = None /\ fork = None
  /\ pc = "none"
  /\ last = None
  /\ gated = None
  /\ edits = 0

-----------------------------------------------------------------------------
(* The laptop                                                              *)

Edit(rev) ==
  /\ edits < MaxEdits /\ rev # laptop.rev
  /\ laptop' = [laptop EXCEPT !.rev = rev]
  /\ edits' = edits + 1
  /\ last' = None
  /\ UNCHANGED <<head, base, pod, fork, pc, deviant, gated>>

(* A file is deleted, or its writer was killed.                            *)
Damage(file) ==
  /\ edits < MaxEdits
  /\ \E left \in {None, Unreadable} : laptop' = [laptop EXCEPT ![file] = left]
  /\ edits' = edits + 1
  /\ last' = None
  /\ UNCHANGED <<head, base, pod, fork, pc, deviant, gated>>

(* generate --device cpu, with or without a reference.                     *)
GenerateOnLaptop(expect) ==
  /\ laptop' = Written(laptop, "cpu", "cpu")
  /\ last' = Comparison(laptop, "cpu", "cpu", expect)
  /\ UNCHANGED <<head, base, pod, fork, pc, deviant, gated, edits>>

Push ==
  /\ head.id < MaxPushes /\ laptop # head.tree
  /\ head' = [id |-> head.id + 1, tree |-> laptop]
  /\ last' = None
  /\ UNCHANGED <<laptop, base, pod, fork, pc, deviant, gated, edits>>

(* The pod's results are copied back.                                      *)
Retrieve ==
  /\ base # None
  /\ laptop' = [laptop EXCEPT !.cuda = pod.cuda]
  /\ last' = None
  /\ UNCHANGED <<head, base, pod, fork, pc, deviant, gated, edits>>

-----------------------------------------------------------------------------
(* The pod                                                                 *)

Running == pc \in Gates

Changed(f) == head.tree[f] # base.tree[f]

\* MUTANT: git demands a working copy without any change.
CanPullClean(from) == \A f \in Tracked : pod[f] = from[f]

(* git pull --ff-only: a file that both sides changed stops it.            *)
CanPull(from) == \A f \in Tracked : Changed(f) => pod[f] = from[f]

(* pod_bootstrap.sh up to the gates: clone, or fetch and pull; the SGLang  *)
(* checkout moves to whatever its branch is at.                            *)
Sync ==
  /\ ~Running
  /\ IF base = None
     THEN pod' = head.tree /\ base' = head /\ pc' = "tests" /\ fork' \in Forks
     ELSE IF CanPull(base.tree)
     THEN /\ pod' = [f \in Tracked \cup {"rev"} |->
                       IF Changed(f) THEN head.tree[f] ELSE pod[f]]
          /\ base' = head
          /\ pc' = "tests"
          /\ fork' \in Forks
     ELSE pc' = "refused" /\ UNCHANGED <<pod, base, fork>>
  /\ last' = None
  /\ UNCHANGED <<laptop, head, deviant, gated, edits>>

(* test_committed_cpu_manifest_matches_a_fresh_cpu_run: of each vector in  *)
(* the manifest, the input; skipped when there is none.                    *)
ManifestInputsMatch ==
  pod.cpu = None \/
    /\ pod.cpu # Unreadable
    /\ \A n \in DOMAIN pod.cpu :
         n \in DOMAIN MakeVectors(pod.rev) /\ pod.cpu[n].input = MakeVectors(pod.rev)[n]

(* test_codec_drift: the fork's copy of the codec.                         *)
ForkMatches == fork.codec = pod.rev.codec

\* MUTANT: without test_codec_drift.
TestsWithoutDrift == ManifestInputsMatch

\* MUTANT: the test of the vector file fails instead of repairing it.
TestsWithVectorFile ==
  ForkMatches /\ ManifestInputsMatch /\ pod.vec \in {None, MakeVectors(pod.rev)}

\* MUTANT: without the test of the committed manifest.
TestsWithoutManifest == ForkMatches

(* The tests that depend on this state.                                    *)
TestsPass == ForkMatches /\ ManifestInputsMatch

(* Gate 1.  A test that loads the committed vector file repairs it.        *)
GateTests ==
  /\ pc = "tests"
  /\ pod' = [pod EXCEPT !.vec = IF pod.vec = None THEN None
                                ELSE LoadOrMakeVectors(pod.rev, pod.vec)]
  /\ pc' = IF TestsPass THEN "preflight" ELSE "failed"
  /\ last' = None
  /\ UNCHANGED <<laptop, head, base, fork, deviant, gated, edits>>

(* check_artifacts' number; loading a broken file raises, which fails too. *)
ManifestVectors ==
  IF pod.cpu \in {None, Unreadable} THEN 0 ELSE Cardinality(DOMAIN pod.cpu)

(* Gate 2.                                                                 *)
GatePreflight ==
  /\ pc = "preflight"
  /\ pc' = IF PreflightPasses(fork.source, ManifestVectors) THEN "conformance" ELSE "failed"
  /\ last' = None
  /\ UNCHANGED <<laptop, head, base, pod, fork, deviant, gated, edits>>

(* Gate 3.                                                                 *)
GateConformance ==
  /\ pc = "conformance"
  /\ pod' = Written(pod, "cuda", "cuda")
  /\ last' = Comparison(pod, "cuda", "cuda", "cpu")
  /\ IF ExitsZero(last')
     THEN pc' = "passed" /\ gated' = <<base.id, fork>>
     ELSE pc' = "failed" /\ UNCHANGED gated
  /\ UNCHANGED <<laptop, head, base, fork, deviant, edits>>

(* Gate 3 by hand.                                                         *)
GenerateOnPod ==
  /\ base # None /\ ~Running
  /\ pod' = Written(pod, "cuda", "cuda")
  /\ last' = Comparison(pod, "cuda", "cuda", "cpu")
  /\ UNCHANGED <<laptop, head, base, fork, pc, deviant, gated, edits>>

(* The script is killed: a vector file about to be rewritten and the       *)
(* manifest being written may be left broken.                              *)
Interrupt ==
  /\ Running
  /\ pc' = "interrupted"
  /\ \/ UNCHANGED pod
     \/ /\ pc = "conformance" \/ (pc = "tests" /\ pod.vec # None)
        /\ LoadOrMakeVectors(pod.rev, pod.vec) # pod.vec
        /\ pod' = [pod EXCEPT !.vec = Unreadable]
     \/ /\ pc = "conformance"
        /\ pod' = [Written(pod, "cuda", "cuda") EXCEPT !.cuda = Unreadable]
  /\ last' = None
  /\ UNCHANGED <<laptop, head, base, fork, deviant, gated, edits>>

NewPod ==
  /\ base # None
  /\ base' = None /\ pod' = None /\ fork' = None
  /\ pc' = "none"
  /\ last' = None
  /\ UNCHANGED <<laptop, head, deviant, gated, edits>>

Next ==
  \/ \E rev \in Revisions : Edit(rev)
  \/ \E file \in {"vec", "cpu"} : Damage(file)
  \/ \E expect \in {None, "cpu", "cuda"} : GenerateOnLaptop(expect)
  \/ Push
  \/ Retrieve
  \/ Sync
  \/ GateTests
  \/ GatePreflight
  \/ GateConformance
  \/ GenerateOnPod
  \/ Interrupt
  \/ NewPod

Spec == Init /\ [][Next]_vars

-----------------------------------------------------------------------------
(* Properties                                                              *)

Reproduces(device, rev, ref) ==
  ref = Manifest(device, rev, MakeVectors(rev))

(* PASS of conformance.py against a reference of its own: the reference has *)
(* exactly the vectors of this code, and this device's codec makes exactly  *)
(* its bytes of them.  (When --json and --expect name one file it compares  *)
(* the manifest with itself.)                                               *)
PassMeansReproduced ==
  (last # None /\ last.says = "ok" /\ last.out # last.expect) =>
    Reproduces(last.device, last.rev, last.ref)

(* "GATES PASSED": CUDA reproduces the reference committed in the checked-  *)
(* out commit on the vectors of that commit, the fork carries the same      *)
(* codec, and the vector file is current.                                   *)
GatesMeanReproduced ==
  pc = "passed" =>
    /\ Reproduces("cuda", base.tree.rev, base.tree.cpu)
    /\ fork = [source |-> "current", codec |-> base.tree.rev.codec]
    /\ pod.vec = MakeVectors(base.tree.rev)

(* The gates fail only for a reason: if CUDA makes exactly the committed    *)
(* reference and the fork carries its codec, then no stale, broken or       *)
(* missing vector file, here or in the commit, and no earlier interrupted   *)
(* run makes them fail.  ("a stale file cannot pin both sides to old        *)
(* inputs")                                                                 *)
NoFalseAlarm ==
  pc = "failed" =>
    \/ ~Reproduces("cuda", base.tree.rev, base.tree.cpu)
    \/ fork # [source |-> "current", codec |-> base.tree.rev.codec]

(* Gate 3 answers the question it is there for: after gates 1 and 2 it is   *)
(* never stopped by a missing or broken reference or by old inputs.         *)
GateThreeIsConclusive ==
  [][pc = "conformance" /\ pc' = "failed" => last'.says \in {"outputs", "sets"}]_vars

(* "Idempotent and safe to re-run": once the gates have passed, running the *)
(* script again with the same commit and fork, on this pod or a new one,    *)
(* interrupted or not, neither fails nor is refused by git.                 *)
RerunPasses ==
  [][pc' # pc => /\ pc' = "failed" => gated # <<base.id, fork>>
                 /\ (pc' = "refused" /\ gated # None) => gated[1] # head.id]_vars
=============================================================================
