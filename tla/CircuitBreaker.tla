---------------------------- MODULE CircuitBreaker ----------------------------
(***************************************************************************)
(* The circuit breaker of src/app/llm/circuit_breaker.py as operators on a *)
(* breaker's state.  `due` says whether an open breaker's timeout has      *)
(* passed; it is FALSE in the other states.  Every method runs under the   *)
(* breaker's lock, so each is one operator.                                *)
(***************************************************************************)
EXTENDS Integers

CONSTANTS
    FailureThreshold,  (* failures that open a closed breaker                *)
    RecoveryThreshold  (* probes let through, and successes that close it    *)

ASSUME ThresholdAssumption ==
    FailureThreshold \in Nat \ {0} /\ RecoveryThreshold \in Nat \ {0}

Breaker == [state : {"closed", "open", "half_open"}, due : BOOLEAN,
            failures : Nat, successes : Nat, probes : Nat]

NewBreaker ==
    [state |-> "closed", due |-> FALSE, failures |-> 0, successes |-> 0, probes |-> 0]

(* _update_state: an open breaker whose timeout has passed is half-open.     *)
Updated(b) ==
    IF b.state = "open" /\ b.due
    THEN [b EXCEPT !.state = "half_open", !.due = FALSE, !.successes = 0, !.probes = 0]
    ELSE b

(* allow_request: its answer, and the breaker after it. *)
Allows(b) ==
    LET u == Updated(b)
    IN  u.state = "closed" \/ (u.state = "half_open" /\ u.probes < RecoveryThreshold)

AfterAllow(b) ==
    LET u == Updated(b)
    IN  IF u.state = "half_open" /\ Allows(u) THEN [u EXCEPT !.probes = @ + 1] ELSE u

(* Mutation: a success during recovery does not close the breaker.           *)
OnSuccessNeverCloses(b) ==
    LET u == [Updated(b) EXCEPT !.failures = 0]
    IN  IF u.state # "half_open" THEN [u EXCEPT !.successes = 0]
        ELSE [u EXCEPT !.successes = @ + 1]

OnSuccess(b) ==
    LET u == [Updated(b) EXCEPT !.failures = 0]
    IN  IF u.state # "half_open" THEN [u EXCEPT !.successes = 0]
        ELSE IF u.successes + 1 >= RecoveryThreshold
             THEN [u EXCEPT !.successes = @ + 1, !.state = "closed"]
             ELSE [u EXCEPT !.successes = @ + 1]

(* on_failure; every exception counts, as the router sets no filter. *)
OnFailure(b) ==
    LET u == [Updated(b) EXCEPT !.failures = @ + 1, !.successes = 0]
    IN  IF \/ u.state = "half_open"
           \/ u.state = "closed" /\ u.failures >= FailureThreshold
        THEN [u EXCEPT !.state = "open", !.due = FALSE] ELSE u
(* What every method preserves. *)
Sound(b) ==
    /\ b \in Breaker
    /\ b.due => b.state = "open"
    /\ b.state = "closed" => b.failures < FailureThreshold
    /\ b.state = "half_open" => b.successes < RecoveryThreshold
    /\ b.probes <= RecoveryThreshold
=============================================================================
