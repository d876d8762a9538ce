------------------------- MODULE MCWorkflowExecutor -------------------------
(* Small workflows for WorkflowExecutor, one per group of runs.              *)
EXTENDS WorkflowExecutor

(* Delays come from the retry policies, through the code's backoff.          *)
PolicyOf(retries) ==
    [max_retries |-> retries, backoff |-> "linear", base_delay |-> 1, max_delay |-> 1]

DelayTable(policies) ==
    [s \in DOMAIN policies |-> [k \in 1..2 |-> BackoffDelay(policies[s], k)]]

RetryTable(policies, errors) ==
    [s \in DOMAIN policies |-> EffectiveRetries(policies[s], errors[s])]

(* Diamond 1 -> {2, 3} -> 4 with an approval on either side: that of 2 may be *)
(* given automatically, that of 3 is retried once and then fails the run.    *)
DiamondDeps     == <<{}, {1}, {1}, {2, 3}>>
DiamondErrors   == <<"RETRY", "SKIP", "ABORT", "IGNORE">>
DiamondPolicies == <<None, None, PolicyOf(1), None>>
DiamondRetries  == RetryTable(DiamondPolicies, DiamondErrors)
DiamondDelay    == DelayTable(DiamondPolicies)
DiamondTimeouts == <<None, 1, 1, None>>

(* Two waves under an overall timeout. *)
TimedDeps       == <<{}, {}, {1}>>
TimedErrors     == <<"ABORT", "SKIP", "ABORT">>
TimedPolicies   == <<PolicyOf(1), None, None>>
TimedRetries    == RetryTable(TimedPolicies, TimedErrors)
TimedDelay      == DelayTable(TimedPolicies)
TimedTimeouts   == <<2, None, None>>
=============================================================================
