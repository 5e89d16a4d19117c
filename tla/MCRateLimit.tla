---------------------------- MODULE MCRateLimit ----------------------------
(* An hour is two ticks, a day four.                                       *)
EXTENDS RateLimit, TLC

MCWindow == [g \in Gates |-> IF g \in {"org-day", "ai-org-day"} THEN 4 ELSE 2]
MCLimit == [g \in Gates |-> IF g \in {"org-hour", "org-day"} THEN 1 ELSE 0]

Symmetry == Permutations(Requests)
=============================================================================
