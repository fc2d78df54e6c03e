------------------------------- MODULE Preflight -------------------------------
(***************************************************************************)
(* scripts/preflight.py: what can be known about a pod run without a GPU.  *)
(* The arithmetic that decides which rows SGLang's JIT copy kernel takes,  *)
(* and the list of checks, each fatal or not, that gates the pod.          *)
(***************************************************************************)
EXTENDS RecordLayout

ROW_BYTES == RowBytes(V1_LAYOUT)
COPY_GROUP_THREADS == 32
PackageBytes == {4, 8, 16}

GroupBytes(is_hip) == IF is_hip THEN {128, 64, 32, 16} ELSE {128}

DefaultUnroll(element_size) ==
  IF element_size <= 512 THEN 4 ELSE IF element_size <= 1024 THEN 2 ELSE 1

(* One group of threads moves one group of bytes, a package per lane.      *)
Tiles(element_size, group, lanes) ==
  group % lanes = 0 /\ element_size % group = 0 /\ group \div lanes \in PackageBytes

TilesAcrossLanes(element_size, unroll, is_hip) ==
  /\ unroll > 0 /\ unroll <= COPY_GROUP_THREADS /\ COPY_GROUP_THREADS % unroll = 0
  /\ \E group \in GroupBytes(is_hip) :
       Tiles(element_size, group, COPY_GROUP_THREADS \div unroll)

(* jit_eligible's verdict; the group it reports is the largest that tiles. *)
JitEligible(element_size, is_hip) ==
  \E group \in GroupBytes(is_hip) :
    Tiles(element_size, group, COPY_GROUP_THREADS \div DefaultUnroll(element_size))

TmaEligible(element_size, page_size, is_hip, sm_major) ==
  /\ ~is_hip
  /\ element_size % 16 = 0 /\ sm_major >= 9
  /\ page_size = 1 \/ page_size % 1 = 0

CheckFormat ==
  /\ ROW_BYTES = 1152 /\ ROW_BYTES % 128 = 0
  /\ BytesPerTokenAllLayers(V1_LAYOUT, 36) = 82944

CheckJit == JitEligible(ROW_BYTES, FALSE) /\ ROW_BYTES % 16 = 0

CheckJitBoundaries == ROW_BYTES \in {n \in {16 * k : k \in 1..256} : JitEligible(n, FALSE)}

(* check_fork_source on the fork given with --sglang-root: the kernel file *)
(* is there with its five markers, the pool is there and clean.            *)
ForkStates == {"current", "no kernel", "markers changed", "no pool", "host sync"}

CheckForkSource(fork) == fork = "current"

(* The pools of 8 GB, here in units of 1024 bytes, of which a BF16 token    *)
(* takes 144 and an encoded one 81.                                        *)
CheckCapacity ==
  /\ 7812500 \div 144 + 1 = 54254
  /\ 7812500 \div 81 + 1 = 96451

(* Preflight.run: the fatal checks.  manifest_vectors counts the vectors   *)
(* of results/conformance_cpu.json, 0 if the file is missing; the checks   *)
(* of staging, TMA and ROCm only warn.                                     *)
PreflightPasses(fork, manifest_vectors) ==
  /\ CheckFormat /\ CheckJit /\ CheckJitBoundaries /\ CheckForkSource(fork) /\ CheckCapacity
  /\ manifest_vectors > 0

(* Rows that the layout allows (RecordLayout.check_against demands mover    *)
(* alignment) are taken by the JIT kernel on CUDA and on ROCm, at each size *)
(* and so whichever unroll it selects; other rows are not taken on CUDA.    *)
AlignedRowsAreEligible(sizes) ==
  \A n \in sizes :
    /\ JitEligible(n, FALSE) <=> n % ALIGNMENT_BYTES = 0
    /\ n % ALIGNMENT_BYTES = 0 => JitEligible(n, TRUE)
    /\ \A hip \in BOOLEAN : JitEligible(n, hip) <=> TilesAcrossLanes(n, DefaultUnroll(n), hip)

=============================================================================
