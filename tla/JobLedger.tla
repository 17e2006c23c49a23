------------------------------ MODULE JobLedger ------------------------------
(***************************************************************************)
(* What the fleet API promises about the jobs of one drone, whatever the   *)
(* handlers that begin and end them do: at most one job runs, a job is run *)
(* by the plugin it began with, ends once, and its outcome never changes.  *)
(***************************************************************************)
CONSTANTS Jobs,      (* the jobs of the drone                               *)
          Workers,   (* the plugins that run jobs                           *)
          Outcomes   (* why a job can end                                   *)

VARIABLE ledger      (* job -> plugin, status, result                       *)

Running(j) == ledger[j].status = "running"

Init == \A j \in Jobs : ledger[j].status = "none" /\ ledger[j].result = "none"

Open(j, p) ==
  /\ ledger[j].status = "none"
  /\ \A i \in Jobs : ~Running(i)
  /\ ledger' = [ledger EXCEPT ![j] = [plugin |-> p, status |-> "running", result |-> "none"]]

Close(j, outcome) ==
  /\ Running(j)
  /\ ledger' = [ledger EXCEPT ![j].status = "ended", ![j].result = outcome]

Next == \E j \in Jobs : \/ \E p \in Workers : Open(j, p)
                        \/ \E outcome \in Outcomes : Close(j, outcome)

Spec == Init /\ [][Next]_ledger
=============================================================================
