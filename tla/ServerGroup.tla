----------------------------- MODULE ServerGroup -----------------------------
(***************************************************************************)
(* The processes a measurement script starts and the one port they share.  *)
(*                                                                         *)
(* Every script launches `python -m sglang.launch_server` in a session of  *)
(* its own, so the server is a process group: a leader, which Popen knows  *)
(* and whose HTTP listener owns the port, and the workers behind it, which *)
(* hold the GPU and the pinned host memory.  SGLang and the operating      *)
(* system are not in the repository: their part is modelled from how the   *)
(* scripts use them (poll, wait, killpg, GET) and marked external.         *)
(***************************************************************************)
EXTENDS Integers

CONSTANTS
  Servers,       \* identities of process groups, each launched at most once
  NoServer,      \* the port is free
  Pools,         \* what a server's L2 may turn out to be once it has loaded
  MaxBacked      \* bound on the tokens a server backs up to L2

ASSUME NoServerAssumption == NoServer \notin Servers
ASSUME BackedAssumption == MaxBacked \in Nat

VARIABLES
  leader,        \* [Servers -> LeaderState]
  workers,       \* [Servers -> BOOLEAN]: is some other process of the group alive?
  sig,           \* [Servers -> Signal]: strongest signal sent to the whole group
  port,          \* the group whose leader is bound to the port, or NoServer
  pool,          \* [Servers -> Pools]: the L2 pool of the group
  backed         \* [Servers -> 0..MaxBacked]: hicache_backup_tokens_total

groupVars == <<leader, workers, sig, port, pool, backed>>

LeaderState == {"none", "loading", "serving", "dead"}
Signal == {"none", "TERM", "KILL"}

GroupTypeOK ==
  /\ leader \in [Servers -> LeaderState]
  /\ workers \in [Servers -> BOOLEAN]
  /\ sig \in [Servers -> Signal]
  /\ port \in Servers \cup {NoServer}
  /\ pool \in [Servers -> Pools]
  /\ backed \in [Servers -> 0..MaxBacked]

(* Popen.poll() is not None: the leader has exited.                        *)
Exited(g) == leader[g] = "dead"

(* An HTTP request to the port is answered by g.  A group that has been    *)
(* signalled drains, and answers 503 or nothing.                           *)
Answers(g) == port = g /\ leader[g] = "serving" /\ sig[g] = "none"

-----------------------------------------------------------------------------
(* What the scripts do to a group.                                         *)

Popen(g) ==
  /\ leader[g] = "none"
  /\ leader' = [leader EXCEPT ![g] = "loading"]
  /\ workers' = [workers EXCEPT ![g] = TRUE]
  /\ UNCHANGED <<sig, port, pool, backed>>

(* os.killpg(pgid, s): every process of the group is signalled.            *)
Killpg(g, s) ==
  /\ sig' = [sig EXCEPT ![g] = s]
  /\ UNCHANGED <<leader, workers, port, pool, backed>>

-----------------------------------------------------------------------------
(* What SGLang and the operating system do on their own.                   *)

(* The model is loaded, the pools exist, the warmup request (which may     *)
(* already back something up) is done and the listener is bound.           *)
Ready(g) ==
  /\ leader[g] = "loading"
  /\ port = NoServer
  /\ leader' = [leader EXCEPT ![g] = "serving"]
  /\ port' = g
  /\ \E p \in Pools : pool' = [pool EXCEPT ![g] = p]
  /\ \E warmup \in 0..(IF MaxBacked = 0 THEN 0 ELSE 1) :
       backed' = [backed EXCEPT ![g] = warmup]
  /\ UNCHANGED <<workers, sig>>

(* A rejected argument, an OOM, a busy port, a crash, or the effect of a   *)
(* signal: the leader is gone, and with it the listener and its counters.  *)
LeaderExits(g) ==
  /\ leader[g] \in {"loading", "serving"}
  /\ leader' = [leader EXCEPT ![g] = "dead"]
  /\ port' = IF port = g THEN NoServer ELSE port
  /\ backed' = [backed EXCEPT ![g] = 0]
  /\ UNCHANGED <<workers, sig, pool>>

(* The workers go after their leader, or because of the signal.            *)
WorkersExit(g) ==
  /\ workers[g]
  /\ leader[g] = "dead" \/ sig[g] # "none"
  /\ workers' = [workers EXCEPT ![g] = FALSE]
  /\ UNCHANGED <<leader, sig, port, pool, backed>>
=============================================================================
