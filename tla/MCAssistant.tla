----------------------------- MODULE MCAssistant -----------------------------
(* Ids and timestamps are not in the same order: 2 is the newest log, then   *)
(* 1 and 4, which are as old as each other, then 3.                         *)
EXTENDS Assistant

MCTimeOf == [l \in Ids |-> IF l = 2 THEN 3 ELSE l % 3]
MCNumbers == {-1, 0, 1, 3, 7}
MCFilters == {Ids, Ids \ {1}}
=============================================================================
