------------------------------- MODULE Browse -------------------------------
(***************************************************************************)
(* The calls that look at memories without a query: list, one page per     *)
(* call with a cursor, while other threads write and delete; traverse, a   *)
(* breadth-first search over the edges of one snapshot; and inspect, the   *)
(* edges of one memory.                                                    *)
(***************************************************************************)
EXTENDS ReadStore

CONSTANTS
    ListCalls,      \* the listings: [limit, type], type "any" for no filter
    TraverseCalls   \* the traversals: [start, depth, direction, types]

ASSUME BrowseAssumption ==
    /\ ListCalls # {} /\ \A c \in ListCalls : c.limit \in Nat
    /\ TraverseCalls # {}
    /\ \A c \in TraverseCalls : /\ c.start \in Ids /\ c.depth \in Nat
                                /\ c.direction \in {"Outgoing", "Incoming", "Both"}

VARIABLES
    lpc,        \* "idle", "pages", "done"
    listing,    \* the input, the same for every page
    cursor,     \* next_cursor of the page before, 0 for None
    listed,     \* the ids of all pages so far
    onStart,    \* the memories that existed before the first page
    tpc,        \* "idle", "start", "bfs", "done", "NotFound"
    traversal,  \* the input
    queue, visited, nodes, edges

listVars == <<lpc, listing, cursor, listed, onStart>>
traverseVars == <<tpc, traversal, queue, visited, nodes, edges>>

BrowseInit ==
    /\ lpc = IF call = "list" THEN "pages" ELSE "idle"
    /\ listing \in (IF call = "list" THEN ListCalls ELSE {CHOOSE c \in ListCalls : TRUE})
    /\ cursor = 0 /\ listed = <<>> /\ onStart = Units
    /\ tpc = IF call = "traverse" THEN "start" ELSE "idle"
    /\ traversal \in (IF call = "traverse" THEN TraverseCalls
                      ELSE {CHOOSE c \in TraverseCalls : TRUE})
    /\ queue = <<>> /\ visited = {} /\ nodes = <<>> /\ edges = <<>>

Clamp(n, low, high) == Greater(low, Lesser(n, high))

(***************************************************************************)
(* list                                                                    *)
(***************************************************************************)
Listable(x) == listing.type = "any" \/ Content[x].type = listing.type
Items == Ordered({x \in Units : Listable(x)}, LAMBDA x, y : x > y)
Limit == Clamp(listing.limit, 1, 100)

\* Mutant: a cursor that was deleted starts again from the newest memory.
StartFromTop(items) ==
    IF \E i \in DOMAIN items : items[i] = cursor
    THEN CHOOSE i \in DOMAIN items : items[i] = cursor ELSE 0

\* How many items come before the page: up to the cursor; where the cursor has
\* been deleted, up to where the binary search would insert it.
StartIndex(items) ==
    IF cursor = 0 THEN 0
    ELSE IF \E i \in DOMAIN items : items[i] = cursor
         THEN CHOOSE i \in DOMAIN items : items[i] = cursor
         ELSE Cardinality({i \in DOMAIN items : items[i] > cursor})

ListPage ==
    /\ lpc = "pages"
    /\ LET start == StartIndex(Items)
           end == Lesser(start + Limit, Len(Items))
           page == SubSeq(Items, start + 1, end)
       IN  /\ listed' = listed \o page
           /\ IF end < Len(Items) THEN cursor' = Last(page) /\ UNCHANGED lpc
              ELSE cursor' = 0 /\ lpc' = "done"
    /\ UNCHANGED <<listing, onStart>>

(***************************************************************************)
(* traverse                                                                *)
(***************************************************************************)
\* The edges stored with a unit; a memory without a unit has none.
Links(x) == IF x \in Units THEN row[x] ELSE <<>>

EdgeView(from, to, l) == [from |-> from, to |-> to, type |-> l.type]

\* inspect(Memory(id)): out_edges, and the edges of all units that lead to it.
OutEdges(x) == [i \in DOMAIN Links(x) |-> EdgeView(x, Links(x)[i].to, Links(x)[i])]
StoredEdges ==
    LET others == Ascending(Units)
    IN  FlattenSeq([k \in DOMAIN others |-> OutEdges(others[k])])
InEdges(x) ==
    ElementsAt(StoredEdges, {i \in DOMAIN StoredEdges : StoredEdges[i].to = x})

\* candidate_edges: an incoming edge is seen from the node it leads to.
Reversed(es) == [i \in DOMAIN es |-> EdgeView(es[i].to, es[i].from, es[i])]
CandidateEdges(x) ==
    CASE traversal.direction = "Outgoing" -> OutEdges(x)
      [] traversal.direction = "Incoming" -> Reversed(InEdges(x))
      [] traversal.direction = "Both" -> OutEdges(x) \o Reversed(InEdges(x))

\* The candidates of the types asked for.
Followed(x) ==
    LET es == CandidateEdges(x)
    IN  ElementsAt(es, {i \in DOMAIN es : es[i].type \in traversal.types})

Depth == Clamp(traversal.depth, 1, 5)

TraverseStart ==
    /\ tpc = "start"
    /\ IF traversal.start \in Units
       THEN /\ tpc' = "bfs"
            /\ visited' = {traversal.start}
            /\ queue' = <<[id |-> traversal.start, depth |-> 0]>>
       ELSE tpc' = "NotFound" /\ UNCHANGED <<visited, queue>>
    /\ UNCHANGED <<traversal, nodes, edges>>

\* One candidate edge: it is recorded; a node not seen yet is enqueued, and
\* reported if it has a unit.
Follow(acc, e) ==
    LET new == [id |-> e.to, depth |-> acc.depth + 1]
        unseen == e.to \notin acc.visited
    IN  [depth |-> acc.depth,
         visited |-> acc.visited \cup {e.to},
         queue |-> IF unseen THEN Append(acc.queue, new) ELSE acc.queue,
         nodes |-> IF unseen /\ e.to \in Units THEN Append(acc.nodes, new) ELSE acc.nodes,
         edges |-> Append(acc.edges, e)]

Expand(head) ==
    FoldLeft(Follow,
             [depth |-> head.depth, visited |-> visited, queue |-> queue, nodes |-> nodes,
              edges |-> edges],
             IF head.depth >= Depth \/ head.id \notin Units THEN <<>>
             ELSE Followed(head.id))

\* Mutant: nodes are taken from the end at which they are added.
PopNewest ==
    /\ tpc = "bfs" /\ queue # <<>>
    /\ LET acc == Expand(Last(queue))
       IN  /\ queue' = Front(queue) \o SubSeq(acc.queue, Len(queue) + 1, Len(acc.queue))
           /\ visited' = acc.visited /\ nodes' = acc.nodes /\ edges' = acc.edges
    /\ UNCHANGED <<tpc, traversal>>

TraversePop ==
    /\ tpc = "bfs" /\ queue # <<>>
    /\ LET acc == Expand(Head(queue))
       IN  /\ queue' = Tail(acc.queue)
           /\ visited' = acc.visited /\ nodes' = acc.nodes /\ edges' = acc.edges
    /\ UNCHANGED <<tpc, traversal>>

TraverseReturn ==
    /\ tpc = "bfs" /\ queue = <<>>
    /\ tpc' = "done"
    /\ UNCHANGED <<traversal, queue, visited, nodes, edges>>

TraverseStep == TraverseStart \/ TraversePop \/ TraverseReturn

(***************************************************************************)
(* Properties                                                              *)
(***************************************************************************)
BrowseTypeOK ==
    /\ lpc \in {"idle", "pages", "done"}
    /\ tpc \in {"idle", "start", "bfs", "done", "NotFound"}
    /\ cursor \in Ids \cup {0} /\ listed \in Seq(Ids)
    /\ visited \subseteq Ids
    /\ queue \in Seq([id : Ids, depth : 0..5]) /\ nodes \in Seq([id : Ids, depth : 1..5])

\* The pages of a listing, put together, are newest first and repeat nothing,
\* every page but the last is full, and when the last one says there is no more,
\* every memory that existed all the time has been listed: a concurrent delete,
\* even of the memory the cursor names, a memory put back after its delete and a
\* concurrent write, of an older id too, make the client neither miss nor repeat
\* another memory.
PagesAreExact ==
    /\ \A i, j \in DOMAIN listed : i < j => listed[i] > listed[j]
    /\ lpc = "pages" => Len(listed) % Limit = 0
    /\ lpc = "done" => \A x \in (onStart \cap Units) \ appeared :
                        Listable(x) => x \in ToSet(listed)

\* The edges between x and its neighbours in the direction and of the types asked
\* for, seen from x.
Nearby(x) ==
    LET own == {EdgeView(x, l.to, l) : l \in ToSet(row[x])}
        into == UNION {{EdgeView(x, y, l) : l \in {k \in ToSet(row[y]) : k.to = x}} : y \in Units}
        all == CASE traversal.direction = "Outgoing" -> own
                 [] traversal.direction = "Incoming" -> into
                 [] traversal.direction = "Both" -> own \cup into
    IN  {e \in all : e.type \in traversal.types}

\* The memories at most n such edges away from the start.
Ball ==
    LET next(S) == {e.to : e \in UNION {Nearby(x) : x \in S \cap Units}}
        ball[n \in Nat] == IF n = 0 THEN {traversal.start}
                           ELSE ball[n - 1] \cup next(ball[n - 1])
    IN  ball

\* traverse returns every existing memory within max_depth edges of the start
\* exactly once, at its distance, and exactly the edges of the memories nearer
\* than max_depth.
TraverseExact ==
    tpc = "done" =>
      /\ \A i, j \in DOMAIN nodes : i # j => nodes[i].id # nodes[j].id
      /\ ToSet(nodes) =
           {n \in [id : Units, depth : 1..Depth] : n.id \in Ball[n.depth] \ Ball[n.depth - 1]}
      /\ ToSet(edges) = UNION {Nearby(x) : x \in Ball[Depth - 1] \cap Units}
=============================================================================
