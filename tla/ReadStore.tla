----------------------------- MODULE ReadStore -----------------------------
(***************************************************************************)
(* The store as the reading calls see it: which units memory_kv holds and  *)
(* in which lifecycle, the outgoing edges of each, which ids the inverted  *)
(* indexes still list, and the changes other threads make to all that      *)
(* between two transactions of a reader.  MemoryEngine models those writes *)
(* step by step; here they are cut down to the steps a reader can see,     *)
(* without a reindex.                                                      *)
(*                                                                         *)
(* The other threads put back the copies they have loaded, whatever the    *)
(* store holds by then: consolidation its snapshot, feedback, a delete's   *)
(* cascade, a retrieval and a write the units they have read.  A memory    *)
(* that was deleted meanwhile comes back that way, and a put may undo      *)
(* another.                                                                *)
(*                                                                         *)
(* A retrieval reads the edges from LINK_OVERLAY, the other calls from the *)
(* units; one variable stands for the table the call reads.                *)
(***************************************************************************)
EXTENDS Integers, Sequences, FiniteSets, FiniteSetsExt, SequencesExt

CONSTANTS
    Ids,         \* memory ids: ULIDs, in no order within a millisecond
    Content,     \* id -> what the text of the memory says
    Importance,  \* id -> importance of the unit
    Rows,        \* id -> the edge lists other threads may store for it
    MaxChanges   \* bound: call -> transactions of other threads during it

\* The calls that only read, and a write up to its store transaction.
Calls == {"retrieve", "traverse", "list", "time", "write"}

\* Strengths, energies and scores are in thousandths, rounded down.
Scale == 1000

\* type_modifier, in hundredths.
TypeModifier ==
    [Causal |-> 130, Correction |-> 120, Supersedes |-> 115, SameGoal |-> 110,
     SameEvent |-> 110, CoActivation |-> 105, EntityOverlap |-> 100,
     Elaboration |-> 100, SemanticSimilar |-> 90, TopicRelated |-> 85,
     EmotionalResonance |-> 70, TemporalAdjacent |-> 60, Contradiction |-> 50,
     Deprecated |-> 40]

LinkTypes == DOMAIN TypeModifier

\* w is strength times confidence.
Link == [to : Ids, type : LinkTypes, w : 1..Scale]

ASSUME ReadStoreAssumption ==
    /\ Ids \subseteq Nat \ {0} /\ IsFiniteSet(Ids)
    /\ MaxChanges \in [Calls -> Nat]
    /\ Importance \in [Ids -> 0..Scale]
    /\ Rows \in [Ids -> SUBSET Seq(Link)]

Times(a, b) == (a * b) \div Scale
Lesser(a, b) == IF a < b THEN a ELSE b
Greater(a, b) == IF a > b THEN a ELSE b

\* The elements of S in the order Before, a strict total order.
Ordered(S, Before(_, _)) ==
    [k \in 1..Cardinality(S) |->
        CHOOSE x \in S : Cardinality({y \in S : Before(y, x)}) = k - 1]

Ascending(S) == Ordered(S, LAMBDA x, y : x < y)

\* The heaviest first, equal ones ascending.
Descending(S, weight) ==
    Ordered(S, LAMBDA x, y : \/ weight[x] > weight[y]
                             \/ weight[x] = weight[y] /\ x < y)

\* The elements of a sequence at some of its indices, in their order.
ElementsAt(s, indices) ==
    LET at == Ascending(indices)
    IN  [k \in 1..Len(at) |-> s[at[k]]]

\* temporal_keys_from and temporal_bucket_keys: hour, day and week share one space
\* of u32 keys; a negative number n stands for 2^32 + n.
BucketKeys(hour) == {hour, hour \div 24, hour \div 168}

\* A summary is a live unit that consolidation generated.
Kinds == {"none", "active", "compressed", "summary"}

VARIABLES
    call,      \* the call under way
    kind,      \* memory_kv: id -> lifecycle of its unit, "none" without a unit
    copies,    \* id -> the lifecycles in which another thread may hold its unit
    row,       \* id -> its outgoing edges, in the order they are stored
    indexed,   \* ids in the inverted indexes
    issued,    \* ids handed out so far
    deleting,  \* ids whose unit a delete has removed, index entries to follow
    appeared,  \* history: ids whose unit came or came back during the call
    changes

storeVars == <<call, kind, copies, row, indexed, issued, deleting, appeared, changes>>

\* load_all_units, in one transaction.
Units == {x \in Ids : kind[x] # "none"}

\* load_units_by_ids: the units of S that exist, read in one transaction.
LoadUnits(S) == [x \in Ids |-> IF x \in S THEN kind[x] ELSE "none"]

Change == changes < MaxChanges[call] /\ changes' = changes + 1 /\ UNCHANGED call

\* The store transaction of a write: unit, edges and index entries.  Consolidation
\* writes its summary this way; it holds the copy that will make it one.
Write(x) ==
    /\ Change
    /\ x \in Ids \ issued
    /\ kind' = [kind EXCEPT ![x] = "active"]
    /\ \E held \in {{"active"}, {"active", "summary"}} : copies' = [copies EXCEPT ![x] = held]
    /\ \E links \in Rows[x] : row' = [row EXCEPT ![x] = links]
    /\ indexed' = indexed \cup {x}
    /\ issued' = issued \cup {x}
    /\ appeared' = appeared \cup {x}
    /\ UNCHANGED deleting

\* A delete removes the unit and its edges in one transaction.  It has seen the
\* unit in an earlier one.
Forget(x) ==
    /\ Change
    /\ x \in issued /\ (kind[x] # "none" \/ row[x] # <<>>)
    /\ kind' = [kind EXCEPT ![x] = "none"]
    /\ row' = [row EXCEPT ![x] = <<>>]
    /\ deleting' = deleting \cup {x}
    /\ UNCHANGED <<copies, indexed, issued, appeared>>

\* Last, after the edges to it (PutRow, Put), its index entries go.
Unindex(x) ==
    /\ x \in deleting
    /\ indexed' = indexed \ {x}
    /\ deleting' = deleting \ {x}
    /\ UNCHANGED <<call, kind, copies, row, issued, appeared, changes>>

\* The put of a copy, as it was loaded or compressed since.
Puts(held) == held \cup (IF "active" \in held THEN {"compressed"} ELSE {})

\* kv.put by a thread that has loaded the unit earlier or holds a new summary.
\* The unit brings its edges along.  A put of what is there already is left out.
Put(x) ==
    /\ Change
    /\ \E k \in Puts(copies[x]) :
          /\ kind' = [kind EXCEPT ![x] = k]
          /\ copies' = [copies EXCEPT ![x] = @ \cup {k}]
    /\ appeared' = IF kind[x] = "none" THEN appeared \cup {x} ELSE appeared
    /\ IF call = "retrieve" THEN UNCHANGED row
       ELSE \E links \in Rows[x] : row' = [row EXCEPT ![x] = links]
    /\ <<kind', row'>> # <<kind, row>>
    /\ UNCHANGED <<indexed, issued, deleting>>

\* put_outgoing, by a thread that has loaded the unit or the edges earlier:
\* consolidation, feedback, the cascade of a delete.
PutRow(x) ==
    /\ Change
    /\ call = "retrieve" /\ x \in issued
    /\ \E links \in Rows[x] : links # row[x] /\ row' = [row EXCEPT ![x] = links]
    /\ UNCHANGED <<kind, copies, indexed, issued, deleting, appeared>>

StoreStep ==
    \E x \in Ids : Write(x) \/ Forget(x) \/ Unindex(x) \/ Put(x) \/ PutRow(x)

StoreTypeOK ==
    /\ kind \in [Ids -> Kinds]
    /\ \A x \in Ids : row[x] \in Seq(Link)
    /\ \A x \in Ids : copies[x] \subseteq Kinds \ {"none"}
    /\ indexed \subseteq Ids /\ issued \subseteq Ids
    /\ deleting \subseteq issued /\ appeared \subseteq issued
    /\ changes \in 0..MaxChanges[call] /\ call \in Calls
=============================================================================
