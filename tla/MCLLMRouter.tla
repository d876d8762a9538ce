----------------------------- MODULE MCLLMRouter -----------------------------
(***************************************************************************)
(* Two providers, the second one the fallback of the first; one request    *)
(* that is queued and routed, one that is queued or a stream and may be    *)
(* pinned; only the second provider is rate limited.                       *)
(***************************************************************************)
EXTENDS LLMRouter

CONSTANTS a, b, r1, r2

MCFallbacks == [p \in Providers |-> IF p = a THEN <<b>> ELSE <<>>]
MCKindsOf ==
    [r \in Requests |-> IF r = r1 THEN {"queued"} ELSE {"queued", "stream"}]
MCPinsOf == [r \in Requests |-> IF r = r1 THEN {} ELSE {a}]
MCRpm == [p \in Providers |-> IF p = a THEN 0 ELSE 1]
=============================================================================
