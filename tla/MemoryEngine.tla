---------------------------- MODULE MemoryEngine ----------------------------
(***************************************************************************)
(* The storage core of the engine: the redb tables, the in-process indexes *)
(* and the API calls that change them (write, delete, feedback, retrieve,  *)
(* consolidate, reindex), run by concurrent threads over one               *)
(* Arc<Engine>.                                                            *)
(*                                                                         *)
(* One action is one redb transaction, one critical section of an index    *)
(* mutex, or a read whose result is used later.  A thread keeps between    *)
(* them what the Rust function keeps in local variables: the unit it       *)
(* decoded, the snapshot it loaded, the ids still to process.  The only    *)
(* lock a call holds across two of these steps is a read lock on the       *)
(* parameters, so calls interleave freely.                                 *)
(*                                                                         *)
(* Abstractions.  A memory is its id.  A link is a target and a strength   *)
(* level 1..MaxLevel (0.12..1.0 in the code), the link types being left    *)
(* out.  usage_score is a level 0..MaxUsage.  The six inverted indexes are *)
(* one set of posted ids: every unit has at least its three temporal keys  *)
(* and all its posting lists are written and stripped together.            *)
(***************************************************************************)
EXTENDS Integers, FiniteSets

CONSTANTS
    Ids,        \* memory ids (ULIDs), ordered like the naturals
    Threads,    \* threads that call the engine, background worker included
    None,       \* absent row, absent value
    Ops,        \* the API calls explored
    MaxLevel,   \* highest link strength level
    MaxUsage,   \* highest usage level; a new memory has half of it
    Trigger,    \* summary_trigger_count
    Embeds,     \* outcomes of the embedder explored: TRUE, FALSE or both
    MaxBatch,   \* bound: ids in one delete call
    MaxCalls,   \* bound: API calls started
    MaxAfterFault,  \* bound: the same once there has been a fault
    MaxFaults   \* bound: process crashes and failed steps

Edge == [to : Ids, lvl : 1..MaxLevel]

Unit == [links : SUBSET Edge,
         usage : 0..MaxUsage,
         into  : Ids \cup {None},       \* lifecycle: Compressed{into}, or Active
         gen   : {"user", "cons"}]      \* provenance.generated_by

Table == [Ids -> {None} \cup Unit]

ASSUME EngineAssumption ==
    /\ Ids \subseteq Nat
    /\ None \notin Ids
    /\ None \notin Unit
    /\ \A S \in SUBSET Edge : S # None
    /\ \A p \in Ids \X Ids : p # None
    /\ MaxLevel \in Nat \ {0}
    /\ MaxUsage \in Nat
    /\ Embeds \subseteq BOOLEAN
    /\ {Trigger, MaxBatch, MaxCalls, MaxAfterFault, MaxFaults} \subseteq Nat

VARIABLES
    \* --- redb tables and the Tantivy directory: survive a crash
    memory_log,     \* ids with a raw record
    memory_kv,      \* id -> unit
    link_overlay,   \* id -> out-edges as spreading activation reads them
    dense_vectors,  \* ids with a persisted embedding
    postings,       \* ids posted in the inverted indexes
    context_links,  \* ids bound to some query context
    activation_log, \* what feedback rows say: <<id used, was it positive>>
    traces,         \* per retrieval: the edges that carried its results
    fulltext,       \* ids with a committed Tantivy document
    \* --- process memory: rebuilt by open
    dense_index,
    binary_index,
    \* --- threads, and what each holds in local variables
    th,
    \* --- identity and history
    issued,         \* ids handed out by MemoryId::generate
    context,        \* id -> preceding_memory_ids of its raw record (immutable)
    acked,          \* memories whose write call returned Ok
    gone,           \* memories a delete call has finished with
    calls, faults

disk == <<memory_log, memory_kv, link_overlay, dense_vectors, postings,
          context_links, activation_log, traces, fulltext>>
ram == <<dense_index, binary_index>>
hist == <<issued, context, acked, gone, calls, faults>>
vars == <<disk, ram, th, hist>>

Idle == [pc |-> "idle", op |-> "none", cur |-> None, todo |-> {}, scan |-> {},
         snap |-> [i \in Ids |-> None], buf |-> None, row |-> {}, vec |-> FALSE,
         pos |-> FALSE, known |-> FALSE, used |-> {}, path |-> None]

Steps == {"idle", "discover", "link", "persist", "fulltext", "enrich", "reput",
          "del_next", "remove", "cascade", "casc_get", "casc_put", "unindex", "unlink",
          "usage", "usage_put", "bind", "edge_get", "edge_put", "row_get",
          "row_put", "touch", "touch_put", "cycle", "flush_kv", "flush_row",
          "summary", "seal_row", "seal_get", "seal_put", "clear", "fts", "ram",
          "re_next"}

Thread == [pc : Steps,
           op : {"none", "write", "delete", "feedback", "retrieve",
                 "consolidate", "reindex"},
           cur : Ids \cup {None}, todo : SUBSET Ids, scan : SUBSET Ids,
           snap : Table, buf : {None} \cup Unit, row : SUBSET Edge,
           vec : BOOLEAN, pos : BOOLEAN, known : BOOLEAN, used : SUBSET Ids,
           path : {None} \cup (Ids \X Ids)]

Present(x) == memory_kv[x] # None
Visible == {x \in Ids : Present(x)}
Targets(l) == {e.to : e \in l}
Least(x, S) == x \in S /\ \A y \in S : x <= y

Init ==
    /\ memory_log = {}
    /\ memory_kv = [i \in Ids |-> None]
    /\ link_overlay = [i \in Ids |-> None]
    /\ dense_vectors = {} /\ postings = {} /\ context_links = {}
    /\ activation_log = {} /\ traces = {} /\ fulltext = {}
    /\ dense_index = {} /\ binary_index = {}
    /\ th = [t \in Threads |-> Idle]
    /\ issued = {}
    /\ context = [i \in Ids |-> {}]
    /\ acked = {} /\ gone = {}
    /\ calls = 0 /\ faults = 0

\* The thread is at a step of a call; what it holds next; where it goes.
At(t, l) == th[t].pc = l
Now(t, r) == th' = [th EXCEPT ![t] = r]
Goto(t, l) == Now(t, [th[t] EXCEPT !.pc = l])
Return(t) == Now(t, Idle)

\* A thread that is not in a call may start one, within the bounds.
CanStart(t, op) ==
    /\ At(t, "idle") /\ op \in Ops
    /\ calls < MaxCalls
    /\ faults > 0 => calls < MaxAfterFault

(***************************************************************************)
(* write, write_internal.  The same pipeline serves a new memory, the      *)
(* summary of a consolidation cycle and every record of a reindex.         *)
(***************************************************************************)
\* usage_score begins in the middle, at 0.5.
NewUnit(l) == [links |-> l, usage |-> MaxUsage \div 2, into |-> None, gen |-> "user"]

\* Embedding (which may fail: no vector, the write goes on) and insertion
\* into the in-memory indexes, before anything is persisted.
EmbedInto(id, ok) ==
    /\ dense_index' = IF ok THEN dense_index \cup {id} ELSE dense_index
    /\ binary_index' = binary_index \cup {id}

WriteStart(t) ==
    /\ CanStart(t, "write")
    /\ \E id \in Ids, ok \in Embeds :
        /\ Least(id, Ids \ issued)
        /\ issued' = issued \cup {id}
        /\ EmbedInto(id, ok)
        /\ Now(t, [Idle EXCEPT !.op = "write", !.pc = "discover", !.cur = id,
                               !.vec = ok])
    /\ calls' = calls + 1
    /\ UNCHANGED <<disk, context, acked, gone, faults>>

\* discover_candidates reads the posting lists of the new memory's keys ...
WriteDiscover(t) ==
    /\ At(t, "discover")
    /\ Now(t, [th[t] EXCEPT !.pc = "link", !.scan = postings \ {th[t].cur}])
    /\ UNCHANGED <<disk, ram, hist>>

\* ... load_memory_units drops the candidates that are gone by now or cannot be
\* read, and raw_to_indexed links the new memory to those that score high enough.
WriteLink(t) ==
    /\ At(t, "link")
    /\ \E S \in SUBSET {x \in th[t].scan : Present(x)} :
        Now(t, [th[t] EXCEPT !.pc = "persist", !.scan = {},
                             !.buf = NewUnit({[to |-> x, lvl |-> 1] : x \in S})])
    /\ UNCHANGED <<disk, ram, hist>>

\* Mutant: the skip_memory_log flag is read the wrong way round.
PersistFlagInverted(t) ==
    LET id == th[t].cur IN
    /\ memory_log' = IF th[t].op # "reindex" THEN memory_log
                     ELSE memory_log \cup {id}
    /\ memory_kv' = [memory_kv EXCEPT ![id] = th[t].buf]
    /\ link_overlay' = [link_overlay EXCEPT ![id] = th[t].buf.links]
    /\ dense_vectors' = dense_vectors \cup {id}
    /\ postings' = postings \cup {id}

\* Mutant: a summary is persisted without its raw record.
PersistSummaryUnlogged(t) ==
    LET id == th[t].cur IN
    /\ memory_log' = IF th[t].op = "write" THEN memory_log \cup {id}
                     ELSE memory_log
    /\ memory_kv' = [memory_kv EXCEPT ![id] = th[t].buf]
    /\ link_overlay' = [link_overlay EXCEPT ![id] = th[t].buf.links]
    /\ dense_vectors' = dense_vectors \cup {id}
    /\ postings' = postings \cup {id}

\* Mutant: the raw record is committed first, the unit is left to the re-put.
PersistLogOnly(t) ==
    LET id == th[t].cur IN
    /\ memory_log' = memory_log \cup {id}
    /\ link_overlay' = [link_overlay EXCEPT ![id] = th[t].buf.links]
    /\ dense_vectors' = dense_vectors \cup {id}
    /\ postings' = postings \cup {id}
    /\ UNCHANGED memory_kv

\* persist_memory_unit: one transaction over the log (unless reindexing), the
\* unit, the vector, the overlay row and the posting lists.
PersistUnit(t) ==
    LET id == th[t].cur IN
    /\ memory_log' = IF th[t].op = "reindex" THEN memory_log
                     ELSE memory_log \cup {id}
    /\ memory_kv' = [memory_kv EXCEPT ![id] = th[t].buf]
    /\ link_overlay' = [link_overlay EXCEPT ![id] = th[t].buf.links]
    /\ dense_vectors' = IF th[t].vec THEN dense_vectors \cup {id}
                        ELSE dense_vectors \ {id}
    /\ postings' = postings \cup {id}

WritePersist(t) ==
    /\ At(t, "persist")
    /\ \/ /\ th[t].op = "reindex" \/ th[t].cur \notin memory_log
          /\ PersistUnit(t)
          /\ Goto(t, "fulltext")
          /\ UNCHANGED <<context_links, activation_log, traces, fulltext>>
       \/ /\ th[t].op # "reindex" /\ th[t].cur \in memory_log   \* RecordExists
          /\ Return(t)
          /\ UNCHANGED disk
    /\ UNCHANGED <<ram, hist>>

\* Mutant: only the write call feeds the full-text index.
FulltextForWritesOnly(t) ==
    /\ At(t, "fulltext")
    /\ fulltext' = IF th[t].op = "write" THEN fulltext \cup {th[t].cur} ELSE fulltext
    /\ Goto(t, "enrich")
    /\ UNCHANGED <<memory_log, memory_kv, link_overlay, dense_vectors, postings,
                   context_links, activation_log, traces, ram, hist>>

WriteFulltext(t) ==
    /\ At(t, "fulltext")
    /\ fulltext' = fulltext \cup {th[t].cur}
    /\ Goto(t, "enrich")
    /\ UNCHANGED <<memory_log, memory_kv, link_overlay, dense_vectors, postings,
                   context_links, activation_log, traces, ram, hist>>

\* run_enrich_sync, then index_enriched_keys posts the goal, event and causal
\* keys, if enrichment found any.
WriteEnrich(t) ==
    /\ At(t, "enrich")
    /\ postings' \in {postings, postings \cup {th[t].cur}}
    /\ Goto(t, "reput")
    /\ UNCHANGED <<memory_log, memory_kv, link_overlay, dense_vectors,
                   context_links, activation_log, traces, fulltext, ram, hist>>

\* The enriched unit overwrites the row of memory_kv, whatever it holds now.
\* Then the pipeline's caller goes on.
WriteReput(t) ==
    /\ At(t, "reput")
    /\ memory_kv' = [memory_kv EXCEPT ![th[t].cur] = th[t].buf]
    /\ CASE th[t].op = "write" -> /\ Return(t)
                                  /\ acked' = acked \cup {th[t].cur}
         [] th[t].op = "reindex" ->
                /\ Now(t, [th[t] EXCEPT !.pc = "re_next",
                                        !.todo = @ \ {th[t].cur}])
                /\ UNCHANGED acked
         [] OTHER -> Goto(t, "seal_row") /\ UNCHANGED acked
    /\ UNCHANGED <<memory_log, link_overlay, dense_vectors, postings,
                   context_links, activation_log, traces, fulltext, ram,
                   issued, context, gone, calls, faults>>

\* A storage error that the code swallows instead of returning it: possible as
\* long as faults are.
Swallows == faults < MaxFaults

\* load_all_units, one read transaction, skips the rows it cannot read.
Loads == {S \in SUBSET Visible : S = Visible \/ Swallows}
Snapshot(S) == [x \in Ids |-> IF x \in S THEN memory_kv[x] ELSE None]

(***************************************************************************)
(* delete.  All units are loaded once; the link lists of that snapshot     *)
(* drive the in-edge cascade of every id of the batch.                     *)
(***************************************************************************)
DeleteStart(t) ==
    /\ CanStart(t, "delete")
    /\ \E S \in SUBSET issued, units \in Loads :
        /\ Cardinality(S) \in 1..MaxBatch
        /\ Now(t, [Idle EXCEPT !.op = "delete", !.pc = "del_next",
                               !.todo = S, !.snap = Snapshot(units)])
    /\ calls' = calls + 1
    /\ UNCHANGED <<disk, ram, issued, context, acked, gone, faults>>

PointsAt(u, x) == u # None /\ x \in Targets(u.links)

\* Look the next id up; one that is not there is skipped.
DeleteNext(t) ==
    /\ At(t, "del_next")
    /\ \/ th[t].todo = {} /\ Return(t)
       \/ \E x \in th[t].todo :
            Now(t, IF Present(x)
                   THEN [th[t] EXCEPT !.pc = "remove", !.cur = x, !.todo = @ \ {x}]
                   ELSE [th[t] EXCEPT !.todo = @ \ {x}])
    /\ UNCHANGED <<disk, ram, hist>>

\* State removal, one transaction: unit, vector and out-edges.
DeleteRemove(t) ==
    LET x == th[t].cur IN
    /\ At(t, "remove")
    /\ memory_kv' = [memory_kv EXCEPT ![x] = None]
    /\ dense_vectors' = dense_vectors \ {x}
    /\ link_overlay' = [link_overlay EXCEPT ![x] = None]
    /\ Now(t, [th[t] EXCEPT !.pc = "cascade",
                   !.scan = {y \in Ids \ {x} : PointsAt(th[t].snap[y], x)}])
    /\ UNCHANGED <<memory_log, postings, context_links, activation_log, traces,
                   fulltext, ram, hist>>

\* Mutant: the links to the victim are kept.
RemainingAll(t, y) == th[t].snap[y].links

\* What the snapshot says a unit keeps once its links to the victim are cut.
Remaining(t, y) == {e \in th[t].snap[y].links : e.to # th[t].cur}

\* put_outgoing for the next unit of the snapshot that points at the victim.
DeleteCascade(t) ==
    /\ At(t, "cascade")
    /\ \/ /\ th[t].scan = {}
          /\ Goto(t, "unindex")
          /\ UNCHANGED link_overlay
       \/ \E y \in th[t].scan :
            /\ Least(y, th[t].scan)
            /\ link_overlay' = [link_overlay EXCEPT ![y] = Remaining(t, y)]
            /\ Goto(t, "casc_get")
    /\ UNCHANGED <<memory_log, memory_kv, dense_vectors, postings, context_links,
                   activation_log, traces, fulltext, ram, hist>>

\* Mutant: a unit that has vanished is not taken off the list.
CascadeGetSticks(t) ==
    /\ At(t, "casc_get")
    /\ \E y \in th[t].scan :
        /\ Least(y, th[t].scan)
        /\ Now(t, IF Present(y)
                  THEN [th[t] EXCEPT !.pc = "casc_put",
                          !.buf = [memory_kv[y] EXCEPT !.links = Remaining(t, y)]]
                  ELSE [th[t] EXCEPT !.pc = "cascade"])
    /\ UNCHANGED <<disk, ram, hist>>

\* The unit itself is re-read, and given the snapshot's remaining links.
DeleteCascadeGet(t) ==
    /\ At(t, "casc_get")
    /\ \E y \in th[t].scan :
        /\ Least(y, th[t].scan)
        /\ Now(t, IF Present(y)
                  THEN [th[t] EXCEPT !.pc = "casc_put",
                          !.buf = [memory_kv[y] EXCEPT !.links = Remaining(t, y)]]
                  ELSE [th[t] EXCEPT !.pc = "cascade", !.scan = @ \ {y}])
    /\ UNCHANGED <<disk, ram, hist>>

DeleteCascadePut(t) ==
    /\ At(t, "casc_put")
    /\ \E y \in th[t].scan :
        /\ Least(y, th[t].scan)
        /\ memory_kv' = [memory_kv EXCEPT ![y] = th[t].buf]
        /\ Now(t, [th[t] EXCEPT !.pc = "cascade", !.scan = @ \ {y},
                                !.buf = None])
    /\ UNCHANGED <<memory_log, link_overlay, dense_vectors, postings,
                   context_links, activation_log, traces, fulltext, ram, hist>>

\* Mutant: the posting lists are forgotten.
UnindexForgotten(t) ==
    /\ At(t, "unindex")
    /\ Goto(t, "unlink")
    /\ UNCHANGED <<disk, ram, hist>>

\* remove_memory_from_indexes: one transaction over the six inverted indexes.
DeleteUnindex(t) ==
    /\ At(t, "unindex")
    /\ postings' = postings \ {th[t].cur}
    /\ Goto(t, "unlink")
    /\ UNCHANGED <<memory_log, memory_kv, link_overlay, dense_vectors,
                   context_links, activation_log, traces, fulltext, ram, hist>>

\* remove_memory_links, and the id counts as deleted.
DeleteUnlink(t) ==
    /\ At(t, "unlink")
    /\ context_links' = context_links \ {th[t].cur}
    /\ gone' = gone \cup {th[t].cur}
    /\ Now(t, [th[t] EXCEPT !.pc = "del_next", !.cur = None])
    /\ UNCHANGED <<memory_log, memory_kv, link_overlay, dense_vectors, postings,
                   activation_log, traces, fulltext, ram,
                   issued, context, acked, calls, faults>>

(***************************************************************************)
(* retrieve.  The search itself only reads; what it writes is the trace of *)
(* the retrieval and, one memory at a time, the activation state of the    *)
(* results, by reading the unit and putting it back.                       *)
(***************************************************************************)
RetrieveStart(t) ==
    /\ CanStart(t, "retrieve")
    /\ \E R \in SUBSET {x \in Visible : memory_kv[x].into = None} :
       \E P \in SUBSET {p \in Ids \X R :
                            link_overlay[p[1]] # None
                            /\ p[2] \in Targets(link_overlay[p[1]])} :
        /\ Cardinality(P) <= 1
        /\ traces' = traces \cup {P}
        /\ Now(t, [Idle EXCEPT !.op = "retrieve", !.pc = "touch", !.todo = R])
    /\ calls' = calls + 1
    /\ UNCHANGED <<memory_log, memory_kv, link_overlay, dense_vectors, postings,
                   context_links, activation_log, fulltext, ram,
                   issued, context, acked, gone, faults>>

\* Read the next result again; a unit deleted meanwhile is skipped.
RetrieveTouch(t) ==
    /\ At(t, "touch")
    /\ \/ th[t].todo = {} /\ Return(t)
       \/ \E x \in th[t].todo :
            Now(t, IF Present(x)
                   THEN [th[t] EXCEPT !.pc = "touch_put", !.cur = x,
                                   !.buf = memory_kv[x]]
                   ELSE [th[t] EXCEPT !.todo = @ \ {x}])
    /\ UNCHANGED <<disk, ram, hist>>

RetrieveTouchPut(t) ==
    /\ At(t, "touch_put")
    /\ memory_kv' = [memory_kv EXCEPT ![th[t].cur] = th[t].buf]
    /\ Now(t, [th[t] EXCEPT !.pc = "touch", !.todo = @ \ {th[t].cur},
                            !.cur = None, !.buf = None])
    /\ UNCHANGED <<memory_log, link_overlay, dense_vectors, postings,
                   context_links, activation_log, traces, fulltext, ram, hist>>

(***************************************************************************)
(* feedback.  The audit row first, then usage_score of each used memory,   *)
(* then, for a positive signal, the context links and the edge that        *)
(* carried a result (unit first, overlay row second).                      *)
(***************************************************************************)
\* The recorded edges that lead to one of U.
Carried(U) == {q \in UNION traces : q[2] \in U}

\* The audit row takes the caller's ids as they are: deleted memories and ids no
\* memory ever had included.  A positive signal looks the retrieval up that is named
\* with them; it may be unknown, or have left no fingerprint or no edge to a used memory.
FeedbackStart(t) ==
    /\ CanStart(t, "feedback")
    /\ \E U \in SUBSET Ids, pos \in BOOLEAN, known \in BOOLEAN :
       \E p \in {None} \cup Carried(U) :
        /\ known \/ p # None => pos /\ U # {}
        /\ known => traces # {}
        /\ activation_log' = activation_log \cup U \X {pos}
        /\ Now(t, [Idle EXCEPT !.op = "feedback", !.pc = "usage",
                               !.todo = U, !.used = U, !.pos = pos,
                               !.known = known, !.path = p])
    /\ calls' = calls + 1
    /\ UNCHANGED <<memory_log, memory_kv, link_overlay, dense_vectors, postings,
                   context_links, traces, fulltext, ram,
                   issued, context, acked, gone, faults>>

\* Mutant: no clamp.
AdjustUnclamped(u, pos) == [u EXCEPT !.usage = IF pos THEN @ + 1 ELSE @ - 1]

\* usage_score += delta, clamped to [0, 1].
Adjust(u, pos) ==
    [u EXCEPT !.usage = IF pos THEN (IF @ < MaxUsage THEN @ + 1 ELSE @)
                        ELSE (IF @ > 0 THEN @ - 1 ELSE @)]

FeedbackUsage(t) ==
    /\ At(t, "usage")
    /\ \/ /\ th[t].todo = {}
          /\ IF th[t].pos /\ th[t].used # {} THEN Goto(t, "bind") ELSE Return(t)
       \/ \E x \in th[t].todo :
            Now(t, IF Present(x)
                   THEN [th[t] EXCEPT !.pc = "usage_put", !.cur = x,
                                   !.buf = Adjust(memory_kv[x], th[t].pos)]
                   ELSE [th[t] EXCEPT !.todo = @ \ {x}])
    /\ UNCHANGED <<disk, ram, hist>>

FeedbackUsagePut(t) ==
    /\ At(t, "usage_put")
    /\ memory_kv' = [memory_kv EXCEPT ![th[t].cur] = th[t].buf]
    /\ Now(t, [th[t] EXCEPT !.pc = "usage", !.todo = @ \ {th[t].cur},
                            !.cur = None, !.buf = None])
    /\ UNCHANGED <<memory_log, link_overlay, dense_vectors, postings,
                   context_links, activation_log, traces, fulltext, ram, hist>>

\* strengthen_links binds every used memory to the fingerprint of the query,
\* and its errors are ignored; a retrieval without a stored fingerprint binds
\* nothing.
FeedbackBind(t) ==
    /\ At(t, "bind")
    /\ \E B \in SUBSET th[t].used :
        /\ B = th[t].used \/ Swallows
        /\ context_links' = IF th[t].known THEN context_links \cup B ELSE context_links
    /\ IF th[t].path # None THEN Goto(t, "edge_get") ELSE Return(t)
    /\ UNCHANGED <<memory_log, memory_kv, link_overlay, dense_vectors, postings,
                   activation_log, traces, fulltext, ram, hist>>

\* strengthen_edge raises every edge to the answer.
Raise(l, x) ==
    {IF e.to = x /\ e.lvl < MaxLevel THEN [e EXCEPT !.lvl = @ + 1] ELSE e : e \in l}

FeedbackEdgeGet(t) ==
    LET from == th[t].path[1]
        to   == th[t].path[2] IN
    /\ At(t, "edge_get")
    /\ Now(t, IF PointsAt(memory_kv[from], to)
              THEN [th[t] EXCEPT !.pc = "edge_put",
                      !.buf = [memory_kv[from] EXCEPT !.links = Raise(@, to)]]
              ELSE [th[t] EXCEPT !.pc = "row_get"])
    /\ UNCHANGED <<disk, ram, hist>>

FeedbackEdgePut(t) ==
    /\ At(t, "edge_put")
    /\ memory_kv' = [memory_kv EXCEPT ![th[t].path[1]] = th[t].buf]
    /\ Now(t, [th[t] EXCEPT !.pc = "row_get", !.buf = None])
    /\ UNCHANGED <<memory_log, link_overlay, dense_vectors, postings,
                   context_links, activation_log, traces, fulltext, ram, hist>>

FeedbackRowGet(t) ==
    LET from == th[t].path[1]
        to   == th[t].path[2] IN
    /\ At(t, "row_get")
    /\ IF link_overlay[from] # None /\ to \in Targets(link_overlay[from])
       THEN Now(t, [th[t] EXCEPT !.pc = "row_put",
                                 !.row = Raise(link_overlay[from], to)])
       ELSE Return(t)
    /\ UNCHANGED <<disk, ram, hist>>

FeedbackRowPut(t) ==
    /\ At(t, "row_put")
    /\ link_overlay' = [link_overlay EXCEPT ![th[t].path[1]] = th[t].row]
    /\ Return(t)
    /\ UNCHANGED <<memory_log, memory_kv, dense_vectors, postings,
                   context_links, activation_log, traces, fulltext, ram, hist>>

(***************************************************************************)
(* consolidate, every scope but Reindex: load all units, compute the cycle *)
(* on the copies, put every copy back (unit, then overlay row), then write *)
(* the summary.                                                            *)
(***************************************************************************)
ConsolidateStart(t) ==
    /\ CanStart(t, "consolidate")
    /\ \E units \in Loads :
        Now(t, [Idle EXCEPT !.op = "consolidate", !.pc = "cycle", !.snap = Snapshot(units)])
    /\ calls' = calls + 1
    /\ UNCHANGED <<disk, ram, issued, context, acked, gone, faults>>

\* The memories that positive feedback rows name, pairs of them that may be
\* co-activated (a row may name a memory twice, and rows of one hour combine), and
\* the targets of explicit rejections.
Hot == {x \in Ids : <<x, TRUE>> \in activation_log}
CoPairs == {p \in Hot \X Hot : p[1] <= p[2]}
Rejected == {x \in Ids : <<x, FALSE>> \in activation_log}

\* What a cycle takes from activation_log: the memories whose pairs have weight
\* enough, the pairs above the threshold that have no co-activation edge yet, and
\* the rejected ids; or nothing, if read_all fails, which is ignored.
Unread == [active |-> {}, built |-> {}, rejected |-> {}]
ReadLog(A) == {[active |-> A, built |-> B, rejected |-> Rejected] :
                  B \in SUBSET {p \in CoPairs : p[1] \in A /\ p[2] \in A}}
CycleInputs == (UNION {ReadLog(A) : A \in SUBSET Hot}) \cup {c \in {Unread} : Swallows}

\* ConsolidationWorker::run_cycle on the links of unit x, with input c: a
\* co-activated target is reinforced and a rejected end weakened, which restarts
\* the edge's forgetting curve ...
CoActivated(e, c) == e.to \in c.active
IsRejected(x, e, c) == x \in c.rejected \/ e.to \in c.rejected

Reinforce(e, c) ==
    IF CoActivated(e, c) /\ e.lvl < MaxLevel THEN [e EXCEPT !.lvl = @ + 1] ELSE e
Weaken(x, e, c) ==
    IF IsRejected(x, e, c) /\ e.lvl > 1 THEN [e EXCEPT !.lvl = @ - 1] ELSE e

Reviewed(x, e, c) == CoActivated(e, c) \/ (IsRejected(x, e, c) /\ e.lvl > 1)

\* ... while the others decay with the half-lives that have passed: one lowers
\* the level, not below the floor; two drop what was at the floor (an edge of
\* the observation zone) ...
Fade(l, age) ==
    {IF age > 0 /\ e.lvl > 1 THEN [e EXCEPT !.lvl = @ - 1] ELSE e :
        e \in {f \in l : age < 2 \/ f.lvl > 1}}

\* ... and a new co-activation edge is owned by the smaller id of its pair.
NewEdges(x, c) == {[to |-> y, lvl |-> 1] : y \in {z \in Ids : <<x, z>> \in c.built}}

RunCycle(x, l, c, age) ==
    {Weaken(x, Reinforce(e, c), c) : e \in {f \in l : Reviewed(x, f, c)}}
    \cup Fade({f \in l : ~ Reviewed(x, f, c)}, age)
    \cup NewEdges(x, c)

\* plan_summary_clusters: who may be summarised, given the loaded units.
Covered(units) ==
    UNION {context[s] : s \in {y \in Ids : units[y] # None /\ units[y].gen = "cons"}}

Candidates(units) ==
    {x \in Ids : /\ units[x] # None
                 /\ units[x].into = None
                 /\ units[x].gen = "user"
                 /\ x \notin Covered(units)}

\* B5: edges at a compressed source are redirected to the summary.
Redirect(l, C, s) == {IF e.to \in C THEN [e EXCEPT !.to = s] ELSE e : e \in l}

\* The loaded units after a cycle that compresses cluster C into summary s.
AfterCycle(units, c, age, C, s) ==
    [x \in Ids |->
        IF units[x] = None THEN None
        ELSE [units[x] EXCEPT
                !.links = Redirect(RunCycle(x, @, c, age), C, s),
                !.into  = IF x \in C THEN s ELSE @]]

\* No cluster reaches the trigger, or its summary is not confident enough.
ConsolidateCycle(t) ==
    /\ At(t, "cycle")
    /\ \E c \in CycleInputs, age \in 0..2 :
        Now(t, [th[t] EXCEPT
                   !.pc = "flush_kv",
                   !.snap = AfterCycle(@, c, age, {}, None),
                   !.todo = {x \in Ids : th[t].snap[x] # None}])
    /\ UNCHANGED <<disk, ram, hist>>

\* One cluster is compressed: build_summary_unit draws the summary's id.
ConsolidateCompress(t) ==
    /\ At(t, "cycle")
    /\ \E c \in CycleInputs, age \in 0..2,
          C \in SUBSET Candidates(th[t].snap), s \in Ids :
        /\ Cardinality(C) >= Trigger /\ C # {}
        /\ Least(s, Ids \ issued)
        /\ issued' = issued \cup {s}
        /\ context' = [context EXCEPT ![s] = C]
        /\ Now(t, [th[t] EXCEPT
                      !.pc = "flush_kv",
                      !.cur = s,
                      !.snap = AfterCycle(@, c, age, C, s),
                      !.todo = {x \in Ids : th[t].snap[x] # None}])
    /\ UNCHANGED <<disk, ram, acked, gone, calls, faults>>

\* Mutant: the cycle ends before its summary is written.
FlushKvDropsSummary(t) ==
    /\ At(t, "flush_kv")
    /\ \/ /\ th[t].todo = {}
          /\ Return(t)
          /\ UNCHANGED memory_kv
       \/ \E x \in th[t].todo :
            /\ Least(x, th[t].todo)
            /\ memory_kv' = [memory_kv EXCEPT ![x] = th[t].snap[x]]
            /\ Goto(t, "flush_row")
    /\ UNCHANGED <<memory_log, link_overlay, dense_vectors, postings,
                   context_links, activation_log, traces, fulltext, ram, hist>>

\* Persist loop: the unit, then its overlay row, in two transactions.
FlushKv(t) ==
    /\ At(t, "flush_kv")
    /\ \/ /\ th[t].todo = {}
          /\ IF th[t].cur = None THEN Return(t) ELSE Goto(t, "summary")
          /\ UNCHANGED memory_kv
       \/ \E x \in th[t].todo :
            /\ Least(x, th[t].todo)
            /\ memory_kv' = [memory_kv EXCEPT ![x] = th[t].snap[x]]
            /\ Goto(t, "flush_row")
    /\ UNCHANGED <<memory_log, link_overlay, dense_vectors, postings,
                   context_links, activation_log, traces, fulltext, ram, hist>>

\* Mutant: edge changes are not synced to the graph table.
FlushRowSkipped(t) ==
    /\ At(t, "flush_row")
    /\ \E x \in th[t].todo :
        /\ Least(x, th[t].todo)
        /\ Now(t, [th[t] EXCEPT !.pc = "flush_kv", !.todo = @ \ {x}])
    /\ UNCHANGED <<disk, ram, hist>>

FlushRow(t) ==
    /\ At(t, "flush_row")
    /\ \E x \in th[t].todo :
        /\ Least(x, th[t].todo)
        /\ link_overlay' = [link_overlay EXCEPT ![x] = th[t].snap[x].links]
        /\ Now(t, [th[t] EXCEPT !.pc = "flush_kv", !.todo = @ \ {x}])
    /\ UNCHANGED <<memory_log, memory_kv, dense_vectors, postings,
                   context_links, activation_log, traces, fulltext, ram, hist>>

\* write_internal for the summary, then three more transactions give it its
\* own links (none: every source is compressed) and its provenance.
SummaryWrite(t) ==
    /\ At(t, "summary")
    /\ \E ok \in Embeds :
        /\ EmbedInto(th[t].cur, ok)
        /\ Now(t, [th[t] EXCEPT !.pc = "discover", !.vec = ok])
    /\ UNCHANGED <<disk, hist>>

SealRow(t) ==
    /\ At(t, "seal_row")
    /\ link_overlay' = [link_overlay EXCEPT ![th[t].cur] = {}]
    /\ Goto(t, "seal_get")
    /\ UNCHANGED <<memory_log, memory_kv, dense_vectors, postings,
                   context_links, activation_log, traces, fulltext, ram, hist>>

SealGet(t) ==
    /\ At(t, "seal_get")
    /\ IF Present(th[t].cur)
       THEN Now(t, [th[t] EXCEPT !.pc = "seal_put",
                                 !.buf = [memory_kv[th[t].cur] EXCEPT
                                                !.links = {}, !.gen = "cons"]])
       ELSE Return(t)
    /\ UNCHANGED <<disk, ram, hist>>

SealPut(t) ==
    /\ At(t, "seal_put")
    /\ memory_kv' = [memory_kv EXCEPT ![th[t].cur] = th[t].buf]
    /\ Return(t)
    /\ UNCHANGED <<memory_log, link_overlay, dense_vectors, postings,
                   context_links, activation_log, traces, fulltext, ram, hist>>

(***************************************************************************)
(* consolidate(Reindex): read the log, clear the secondary tables, the     *)
(* full-text index and the in-memory indexes, replay the records in id     *)
(* order through write_internal.  DENSE_VECTORS, the context links and the *)
(* retrieval traces are not cleared.                                       *)
(***************************************************************************)
ReindexStart(t) ==
    /\ CanStart(t, "reindex")
    /\ Now(t, [Idle EXCEPT !.op = "reindex", !.pc = "clear", !.todo = memory_log])
    /\ calls' = calls + 1
    /\ UNCHANGED <<disk, ram, issued, context, acked, gone, faults>>

\* Mutant: the log is cleared with the other u128 tables.
ClearAllTables(t) ==
    /\ At(t, "clear")
    /\ memory_log' = {}
    /\ memory_kv' = [i \in Ids |-> None]
    /\ link_overlay' = [i \in Ids |-> None]
    /\ postings' = {} /\ dense_vectors' = {} /\ fulltext' = {}
    /\ activation_log' = {}
    /\ Goto(t, "fts")
    /\ UNCHANGED <<context_links, traces, ram, hist>>

ReindexClear(t) ==
    /\ At(t, "clear")
    /\ memory_kv' = [i \in Ids |-> None]
    /\ link_overlay' = [i \in Ids |-> None]
    /\ postings' = {}
    /\ activation_log' = {}
    /\ Goto(t, "fts")
    /\ UNCHANGED <<memory_log, dense_vectors, context_links, traces, fulltext,
                   ram, hist>>

\* Mutant: the full-text directory is not recreated.
FulltextKept(t) ==
    /\ At(t, "fts")
    /\ Goto(t, "ram")
    /\ UNCHANGED <<disk, ram, hist>>

ReindexFulltext(t) ==
    /\ At(t, "fts")
    /\ fulltext' = {}
    /\ Goto(t, "ram")
    /\ UNCHANGED <<memory_log, memory_kv, link_overlay, dense_vectors, postings,
                   context_links, activation_log, traces, ram, hist>>

ReindexRam(t) ==
    /\ At(t, "ram")
    /\ dense_index' = {} /\ binary_index' = {}
    /\ Goto(t, "re_next")
    /\ UNCHANGED <<disk, hist>>

\* reindex_one of the next record, up to its insertion in the indexes.
ReindexNext(t) ==
    /\ At(t, "re_next")
    /\ \/ /\ th[t].todo = {}
          /\ Return(t)
          /\ UNCHANGED ram
       \/ \E x \in th[t].todo, ok \in Embeds :
            /\ Least(x, th[t].todo)
            /\ EmbedInto(x, ok)
            /\ Now(t, [th[t] EXCEPT !.pc = "discover", !.cur = x, !.vec = ok])
    /\ UNCHANGED <<disk, hist>>

(***************************************************************************)
(* Faults.  A storage or index error that the code propagates with `?'     *)
(* ends the call where it is, and so does a panic on one (load_all_units   *)
(* expects its transaction); strengthen_edge, the last thing a feedback    *)
(* does, stops the same way, though the call returns Ok.  The errors that  *)
(* are swallowed and the call goes on: rows load_all_units cannot read     *)
(* (Loads), an unreadable activation_log (CycleInputs), a candidate that   *)
(* does not load (WriteLink), a context link that is not bound             *)
(* (FeedbackBind), the paths and the fingerprint of a retrieval (P = {},   *)
(* known = FALSE).  Within a write transaction (ReindexClear,              *)
(* DeleteUnindex, DeleteUnlink) and at open a row that cannot be read is   *)
(* taken to fail the whole step: redb refuses every access after an I/O    *)
(* error.  A crash ends all calls, and open rebuilds the in-memory indexes *)
(* from DENSE_VECTORS and MEMORY_KV.                                       *)
(***************************************************************************)
Fail(t) ==
    /\ ~ At(t, "idle")
    /\ faults < MaxFaults
    /\ faults' = faults + 1
    /\ Return(t)
    /\ UNCHANGED <<disk, ram, issued, context, acked, gone, calls>>

\* Mutant: open starts with empty in-memory indexes.
RestartEmpty ==
    /\ faults < MaxFaults
    /\ faults' = faults + 1
    /\ th' = [t \in Threads |-> Idle]
    /\ dense_index' = {} /\ binary_index' = {}
    /\ UNCHANGED <<disk, issued, context, acked, gone, calls>>

Restart ==
    /\ faults < MaxFaults
    /\ faults' = faults + 1
    /\ th' = [t \in Threads |-> Idle]
    /\ dense_index' = dense_vectors
    /\ binary_index' = Visible
    /\ UNCHANGED <<disk, issued, context, acked, gone, calls>>

WriteStep(t) == \/ WriteStart(t) \/ WriteDiscover(t) \/ WriteLink(t)
                \/ WritePersist(t) \/ WriteFulltext(t) \/ WriteEnrich(t) \/ WriteReput(t)
DeleteStep(t) == \/ DeleteStart(t) \/ DeleteNext(t) \/ DeleteRemove(t)
                 \/ DeleteCascade(t) \/ DeleteCascadeGet(t) \/ DeleteCascadePut(t)
                 \/ DeleteUnindex(t) \/ DeleteUnlink(t)
RetrieveStep(t) == RetrieveStart(t) \/ RetrieveTouch(t) \/ RetrieveTouchPut(t)
FeedbackStep(t) == \/ FeedbackStart(t) \/ FeedbackUsage(t) \/ FeedbackUsagePut(t)
                   \/ FeedbackBind(t) \/ FeedbackEdgeGet(t) \/ FeedbackEdgePut(t)
                   \/ FeedbackRowGet(t) \/ FeedbackRowPut(t)
ConsolidateStep(t) == \/ ConsolidateStart(t) \/ ConsolidateCycle(t)
                      \/ ConsolidateCompress(t) \/ FlushKv(t) \/ FlushRow(t)
                      \/ SummaryWrite(t) \/ SealRow(t) \/ SealGet(t) \/ SealPut(t)
ReindexStep(t) == \/ ReindexStart(t) \/ ReindexClear(t) \/ ReindexFulltext(t)
                  \/ ReindexRam(t) \/ ReindexNext(t)

Next ==
    \/ \E t \in Threads : \/ WriteStep(t) \/ DeleteStep(t) \/ RetrieveStep(t)
                          \/ FeedbackStep(t) \/ ConsolidateStep(t)
                          \/ ReindexStep(t) \/ Fail(t)
    \/ Restart

Spec == Init /\ [][Next]_vars

-----------------------------------------------------------------------------
(***************************************************************************)
(* Properties of every interleaving, with faults.                          *)
(***************************************************************************)

\* Every table, index row and thread holds values of its type.  The least
\* obvious part: usage stays in range and a put always has a unit to put.
TypeOK ==
    /\ memory_log \in SUBSET Ids
    /\ memory_kv \in Table
    /\ link_overlay \in [Ids -> {None} \cup SUBSET Edge]
    /\ dense_vectors \in SUBSET Ids /\ postings \in SUBSET Ids
    /\ context_links \in SUBSET Ids /\ fulltext \in SUBSET Ids
    /\ activation_log \in SUBSET (Ids \X BOOLEAN)
    /\ traces \in SUBSET SUBSET (Ids \X Ids)
    /\ dense_index \in SUBSET Ids /\ binary_index \in SUBSET Ids
    /\ th \in [Threads -> Thread]
    /\ issued \in SUBSET Ids
    /\ context \in [Ids -> SUBSET Ids]
    /\ acked \in SUBSET Ids /\ gone \in SUBSET Ids
    /\ calls \in Nat /\ faults \in Nat

\* Whatever a state table or the full-text index holds about a memory, its
\* raw record is in memory_log: nothing that stale snapshots, blind puts and
\* half-finished calls leave behind is beyond the reach of a reindex.
DerivedFromLog ==
    Visible \cup {x \in Ids : link_overlay[x] # None}
            \cup dense_vectors \cup postings \cup fulltext \subseteq memory_log

\* A memory whose write returned Ok keeps its raw record, whatever runs,
\* fails or crashes afterwards (memory_log is append-only).
AckedDurable == acked \subseteq memory_log

\* What a thread carries from one transaction to the next can be put back
\* safely however stale it has become: the ids it is about to write are
\* logged, and there is a unit where a unit is going to be put.
Carries(r, log) ==
    /\ \A x \in Ids : r.snap[x] # None => x \in log
    /\ r.op = "delete" => \A x \in r.scan : r.snap[x] # None
    /\ r.pc \in {"flush_kv", "flush_row"} => \A x \in r.todo : r.snap[x] # None
    /\ r.op = "reindex" => /\ r.todo \subseteq log
                           /\ r.cur # None => r.cur \in log
    /\ r.pc \in {"discover", "link", "persist", "summary", "remove", "cascade",
                 "casc_get", "casc_put", "unindex", "unlink"} => r.cur \in Ids
    /\ r.op = "delete" <=> r.pc \in {"del_next", "remove", "cascade", "casc_get",
                                     "casc_put", "unindex", "unlink"}
    /\ r.pc \in {"fulltext", "enrich", "reput", "seal_row", "seal_get",
                 "seal_put", "touch_put", "usage_put"} => r.cur \in log
    /\ r.pc \in {"edge_get", "edge_put", "row_get", "row_put"} => r.path # None
    /\ r.pc \in {"edge_put", "row_put"} => r.path[1] \in log
    /\ r.pc = "cycle" => r.op = "consolidate"
    /\ r.pc \in {"persist", "fulltext", "enrich", "reput", "casc_put",
                 "touch_put", "usage_put", "edge_put", "seal_put"} => r.buf # None
ThreadsCarryLogged == \A t \in Threads : Carries(th[t], memory_log)

\* The engine implements DurableMemory: a memory turns durable and visible in
\* one step, stays durable, and only durable memories are ever put back.
Durable == INSTANCE DurableMemory WITH durable <- memory_log, visible <- Visible
ImplementsDurableMemory == Durable!DMSpec

\* The steps of a call that is under way: the scheduler runs every thread,
\* while starting a call is up to the callers.
Run(t) == ~ At(t, "idle") /\
    \/ WriteStep(t) \/ DeleteStep(t) \/ RetrieveStep(t)
    \/ FeedbackStep(t) \/ ConsolidateStep(t) \/ ReindexStep(t)
FairSpec == Spec /\ \A t \in Threads : WF_vars(Run(t))

\* Every call returns, although the rows its loops visit may be deleted,
\* recreated or overwritten by other calls meanwhile.
CallsReturn == \A t \in Threads : ~ At(t, "idle") ~> At(t, "idle")

(***************************************************************************)
(* Properties of one caller at a time.                                     *)
(***************************************************************************)
Quiet == \A t \in Threads : At(t, "idle")

\* A visible memory can be found and expanded, in the middle of a call and
\* after a crash too: it is posted in the inverted indexes, has an overlay
\* row, and its code is in the in-memory index.
VisibleIsIndexed ==
    \A x \in Visible : x \in postings /\ link_overlay[x] # None /\ x \in binary_index

\* Between two records a reindex has replayed exactly the log's records it
\* no longer has to do, in the units, the postings, the full-text index and
\* the binary index alike, whatever state the earlier calls and crashes left.
ReindexReplays ==
    \A t \in Threads : At(t, "re_next") =>
        LET replayed == memory_log \ th[t].todo IN
        /\ Visible = replayed /\ postings = replayed
        /\ fulltext = replayed /\ binary_index = replayed

\* When no call is running, the edges retrieval reads (LINK_OVERLAY) are the
\* edges of the unit that consolidation reads.
OverlayAgrees ==
    Quiet => \A x \in Visible : link_overlay[x] = memory_kv[x].links

\* A deleted memory has left every state table.
DeletedIsGone ==
    Quiet => gone \cap (Visible \cup dense_vectors \cup postings
                        \cup {x \in Ids : link_overlay[x] # None}) = {}

\* ... and no edge of another memory leads to it.
EdgesInto(x) ==
    {y \in Ids : \/ link_overlay[y] # None /\ x \in Targets(link_overlay[y])
                 \/ PointsAt(memory_kv[y], x)}
NoEdgeToDeleted == Quiet => \A x \in gone : EdgesInto(x) = {}

\* The cascade of a delete cuts every edge to its victim, and nothing that
\* runs later draws one again, but for co-activation edges: they are built
\* from the audit rows, which outlive the memories they name.
CascadeCuts == Quiet => \A x \in gone : EdgesInto(x) # {} => x \in Hot

\* Every visible memory has its full-text document.
FulltextComplete == Quiet => Visible \subseteq fulltext

\* A source is compressed, and edges are redirected, only into a summary that
\* has its own raw record: the evidence chain has both its ends.  An edge that
\* leads to no record is a co-activation edge to an id that positive feedback
\* named, which nothing checks to be a memory's.
SummaryExists ==
    Quiet => \A x \in Visible :
                /\ memory_kv[x].into # None => memory_kv[x].into \in memory_log
                /\ Targets(memory_kv[x].links) \subseteq memory_log \cup Hot
=============================================================================
