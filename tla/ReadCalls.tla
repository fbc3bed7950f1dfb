------------------------------ MODULE ReadCalls ------------------------------
(***************************************************************************)
(* One reading call at a time on a store that other threads change: a      *)
(* retrieval, a listing, a traversal, the temporal part of a query, or the *)
(* search of a write for the memories to link to.                          *)
(***************************************************************************)
EXTENDS Retrieval, Browse, TimeQuery, Association

CONSTANT Stores   \* call -> the stores it may find: storeVars, by name

ASSUME StoresAssumption ==
    \A c \in Calls : \A s \in Stores[c] :
        /\ s.kind \in [Ids -> Kinds] /\ s.row \in [Ids -> Seq(Link)]
        /\ s.copies \in [Ids -> SUBSET (Kinds \ {"none"})]
        /\ s.indexed \subseteq Ids /\ s.issued \subseteq Ids /\ s.deleting \subseteq s.issued
        /\ \A x \in Ids :
              /\ s.kind[x] = "none" \/ s.kind[x] \in s.copies[x]
              /\ x \in s.issued \/ (s.copies[x] = {} /\ s.row[x] = <<>>)

readVars == <<storeVars, retrieveVars, listVars, traverseVars, timeVars, associateVars>>

Init ==
    /\ call \in Calls
    /\ changes = 0
    /\ \E s \in Stores[call] :
          /\ kind = s.kind /\ copies = s.copies /\ row = s.row
          /\ indexed = s.indexed /\ issued = s.issued /\ deleting = s.deleting
    /\ appeared = {}
    /\ RetrieveInit /\ BrowseInit /\ TimeInit /\ AssociateInit

\* A change of the store matters before a transaction of the call that reads it;
\* a traversal reads its one snapshot first.
Reading ==
    \/ call = "retrieve" /\ rpc \in RetrieveReads
    \/ call = "list" /\ lpc = "pages"
    \/ call = "write" /\ apc \in {"discover", "load"}

Retrieve ==
    /\ call = "retrieve" /\ RetrieveStep
    /\ UNCHANGED <<storeVars, listVars, traverseVars, timeVars, associateVars>>

List ==
    /\ call = "list" /\ ListPage
    /\ UNCHANGED <<storeVars, retrieveVars, traverseVars, timeVars, associateVars>>

Traverse ==
    /\ call = "traverse" /\ TraverseStep
    /\ UNCHANGED <<storeVars, retrieveVars, listVars, timeVars, associateVars>>

ParseTime ==
    /\ call = "time" /\ TimeStep
    /\ UNCHANGED <<storeVars, retrieveVars, listVars, traverseVars, associateVars>>

Associate ==
    /\ call = "write" /\ AssociateStep
    /\ UNCHANGED <<storeVars, retrieveVars, listVars, traverseVars, timeVars>>

Others ==
    /\ Reading /\ StoreStep
    /\ UNCHANGED <<retrieveVars, listVars, traverseVars, timeVars, associateVars>>

Next == Retrieve \/ List \/ Traverse \/ ParseTime \/ Associate \/ Others

Spec == Init /\ [][Next]_readVars

TypeOK == StoreTypeOK /\ RetrieveTypeOK /\ BrowseTypeOK /\ TimeTypeOK /\ AssociateTypeOK
=============================================================================
