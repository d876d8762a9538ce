----------------------------- MODULE DurableRun -----------------------------
(***************************************************************************)
(* What the engine promises of one workflow run as it is persisted,        *)
(* whatever the interleaving of its steps: the set of finished steps only  *)
(* grows, is always closed under dependencies, and the run moves through   *)
(* its statuses without ever leaving a final one.  A run can only be       *)
(* stored as SUCCEEDED with every step finished.                           *)
(***************************************************************************)
CONSTANTS Steps,  (* steps of the workflow              *)
          Needs   (* step -> the steps it depends on     *)

VARIABLES status,   (* persisted status of the run        *)
          finished  (* persisted set of finished steps    *)

vars == <<status, finished>>

Open  == {"PENDING", "WAITING_APPROVAL"}
Final == {"SUCCEEDED", "FAILED", "TIMED_OUT"}

Closed(S) == \A s \in S : Needs[s] \subseteq S

Init == status = "PENDING" /\ finished = {}

(* The engine ran for a while and stored what it reached. *)
Save(to, S) ==
    /\ status \in Open
    /\ finished \subseteq S
    /\ Closed(S)
    /\ to = "SUCCEEDED" => S = Steps
    /\ to = "WAITING_APPROVAL" => S # Steps
    /\ status' = to
    /\ finished' = S

Next == \E to \in Final \cup {"WAITING_APPROVAL"}, S \in SUBSET Steps : Save(to, S)

Spec == Init /\ [][Next]_vars
=============================================================================
