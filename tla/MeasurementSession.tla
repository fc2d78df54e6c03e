-------------------------- MODULE MeasurementSession --------------------------
(***************************************************************************)
(* What a series of measurement runs promises, whatever the servers and    *)
(* signals underneath do: the runs take place one after the other, each is *)
(* reported at most once and only after it began, and a report marked ok   *)
(* describes the server that this very run started, or one that an earlier *)
(* abandoned run left behind.                                              *)
(***************************************************************************)
EXTENDS Integers

CONSTANTS RunCount

VARIABLES
  status,            \* [Runs -> Status]
  measured,          \* [Runs -> the run whose server an ok report describes]
  abandonedServers   \* runs that were abandoned and left their server behind

sessionVars == <<status, measured, abandonedServers>>

Runs == 1..RunCount
Status == {"pending", "running", "ok", "failed", "abandoned"}
Reported == {"ok", "failed"}
Closed == Reported \cup {"abandoned"}
Nothing == 0

Init ==
  /\ status = [r \in Runs |-> "pending"]
  /\ measured = [r \in Runs |-> Nothing]
  /\ abandonedServers = {}

Begin(r) ==
  /\ status[r] = "pending"
  /\ \A q \in Runs : q < r => status[q] \in Closed
  /\ status' = [status EXCEPT ![r] = "running"]
  /\ UNCHANGED <<measured, abandonedServers>>

(* An ok report must be about the run's own server, or about one that was  *)
(* left behind; a failed one may have measured nothing, or only part of    *)
(* what it wanted.                                                         *)
Report(r) ==
  /\ status[r] = "running"
  /\ \/ /\ status' = [status EXCEPT ![r] = "ok"]
        /\ \E g \in {r} \cup abandonedServers : measured' = [measured EXCEPT ![r] = g]
     \/ /\ status' = [status EXCEPT ![r] = "failed"]
        /\ UNCHANGED measured
  /\ UNCHANGED abandonedServers

(* The run ends without a report: it was refused before it began, or       *)
(* interrupted, and in the second case its server may be left behind.      *)
Abandon(r) ==
  /\ status[r] \in {"pending", "running"}
  /\ \A q \in Runs : q < r => status[q] \in Closed
  /\ status' = [status EXCEPT ![r] = "abandoned"]
  /\ \/ UNCHANGED abandonedServers
     \/ status[r] = "running" /\ abandonedServers' = abandonedServers \cup {r}
  /\ UNCHANGED measured

Next == \E r \in Runs : Begin(r) \/ Report(r) \/ Abandon(r)

Spec == Init /\ [][Next]_sessionVars
=============================================================================
