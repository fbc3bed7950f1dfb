--------------------------- MODULE DurableMemory ---------------------------
(***************************************************************************)
(* What the engine promises about the existence of a memory, whatever the  *)
(* interleaving of its operations and wherever a crash falls:              *)
(*                                                                         *)
(*   - a memory becomes durable (a raw record in memory_log) and visible   *)
(*     (a unit in memory_kv) in one step;                                  *)
(*   - it never stops being durable;                                       *)
(*   - visibility may be withdrawn (delete, the first half of a reindex)   *)
(*     and given back, but only to a durable memory.                       *)
(*                                                                         *)
(* MemoryEngine implements this specification with durable <- memory_log   *)
(* and visible <- the ids that have a unit in memory_kv.                   *)
(***************************************************************************)
CONSTANT Ids

VARIABLES durable, visible

dmVars == <<durable, visible>>

DMInit == durable = {} /\ visible = {}

\* A new memory: one transaction makes it durable and visible.
Record(id) ==
    /\ id \notin durable
    /\ durable' = durable \cup {id}
    /\ visible' = visible \cup {id}

\* A delete withdraws one memory, a reindex withdraws all of them.
Withdraw(S) ==
    /\ visible' = visible \ S
    /\ UNCHANGED durable

\* A put of a unit: possible for a durable memory only.
Restore(id) ==
    /\ id \in durable
    /\ visible' = visible \cup {id}
    /\ UNCHANGED durable

DMNext ==
    \/ \E id \in Ids : Record(id) \/ Restore(id)
    \/ \E S \in SUBSET Ids : Withdraw(S)

DMSpec == DMInit /\ [][DMNext]_dmVars

=============================================================================
