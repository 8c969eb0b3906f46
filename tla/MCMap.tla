------------------------------- MODULE MCMap -------------------------------
(***************************************************************************)
(* Two instances of the map.  The first: a key whose probe starts in the   *)
(* last slot and one that it meets after the wrap, up to three entries,    *)
(* tables of 4 and 8 slots.  The second: four keys, one for every slot of  *)
(* the smallest table, in maps that are cleared while they hold tombstones.*)
(***************************************************************************)
EXTENDS Map, TLC

CONSTANTS k1, k2, k3, k4, v1, v2

MCHash == k1 :> 7 @@ k2 :> 8
MCPolicies == {[next |-> "linear", max_probe_count |-> 5],
               [next |-> "quadratic", max_probe_count |-> 2]}
MCPredicates == {{<<k1, v1>>, <<k2, v1>>}}

ClearHash == k1 :> 0 @@ k2 :> 1 @@ k3 :> 2 @@ k4 :> 3
ClearPolicies == {[next |-> "linear", max_probe_count |-> 8]}
=============================================================================
