# HIPPMEM: a TLA+ verification project

HIPPMEM is an embedded associative memory engine in Rust: it stores short texts
("memories"), links them to each other, recalls them by spreading activation over
those links and maintains the links in the background. This directory holds the
TLA+ model of the engine, the TLC runs that check it on small instances and the
TLAPS proofs that hold for every size. `PROJECT.json` lists components, runs,
mutants, findings, hazards and theorems, and maps every definition to its source lines.

## 1. Inventory

| part | state it keeps | operations | crates |
|---|---|---|---|
| storage | redb tables `MEMORY_LOG` (append-only raw records), `MEMORY_KV` (units), `LINK_OVERLAY` (out-edges), `DENSE_VECTORS`, six inverted indexes, `CONTEXT_LINKS`, `QUERY_CONTEXTS`, `RETRIEVAL_PATHS`, `ACTIVATION_LOG` | `persist_memory_unit`, `KvStore::put/get`, `put_outgoing`, `remove_memory_from_indexes`, `remove_memory_links` | hippmem-store |
| full-text index | a Tantivy directory beside the redb file, a writer with uncommitted adds | add, commit, flush, search | hippmem-store |
| vector indexes | dense vectors and binary codes in process memory | insert, search; rebuilt by `open` | hippmem-store |
| write path | local variables only | `write`, `write_batch`, `write_internal` | hippmem-engine, hippmem-write |
| delete | a snapshot of all units, for the duration of the call | `delete` | hippmem-engine |
| retrieval | trace of each retrieval, activation state of the results | `retrieve` | hippmem-engine, hippmem-retrieval |
| feedback | audit rows, `usage_score`, context links, edge strengths | `feedback` | hippmem-engine |
| consolidation | a snapshot of all units, for the duration of the cycle | Hebbian step, reverse Hebbian step, decay, compaction, summary, redirection | hippmem-consolidation, hippmem-engine |
| reindex | the records of the log, for the duration of the call | `consolidate(Reindex)` | hippmem-engine |
| lifecycle | the `Arc<Engine>`, the background worker and its stop flag | `open`, `close` | hippmem-engine |
| reading calls | none; a cursor travels with the client | `list`, `traverse`, `inspect`, `dump`, `explain` | hippmem-engine |
| recall and spreading | maps of loaded units and links, energies and traces, for the duration of a retrieval | channels, rank fusion, spreading, boosts, context correction, cut | hippmem-retrieval, hippmem-engine |
| association | the candidates of one write | key lookup, loading, scoring, edge building | hippmem-write |
| text understanding | none | extraction, embedding, summaries, time expressions | hippmem-model |
| front ends | none | CLI, server, gRPC | hippmem-engine/bin, hippmem-grpc |

How the parts interact: every call works directly on the shared redb database and on
three mutex-protected indexes. There is no lock around a call. A call is a series of
transactions, and between two of them it holds *decoded copies* of rows in local
variables, which it later puts back without reading the row again. The background
worker is one more thread that calls `consolidate`. Two tables hold the edges of a
memory (`MEMORY_KV`, read by consolidation; `LINK_OVERLAY`, read by retrieval) and are
kept equal by convention only.

What is hard here: stale copies written back over newer rows (consolidate, delete's
cascade, feedback, the re-put that ends a write); crashes between the transactions of
one call; the full-text directory, which commits apart from redb; a log without
tombstones next to a delete; audit rows that outlive the memories they name; a retrieval
that reads the store in several transactions while others change it; energies that meet on
cycles and over several paths; a cursor whose memory is deleted; calendar boundaries; two
threads that close one engine while its worker consolidates.

What makes each part correct: whatever is in a state table can be rebuilt from the log
(storage); a write is all or nothing as far as log and unit are concerned and is never
lost once acknowledged (write); a deleted memory is gone from every table and from every
other memory's edges (delete); both copies of the edges move together (feedback,
consolidation); a summary never loses its sources (summarisation); a reindex rebuilds
exactly the log from any state (reindex); every call ends (all); an answer is the best of
what was reached, along edges that exist, and holds nothing that was dead before the call
(retrieval); pages and traversals are exact (reading calls); a date means the right days
(temporal parser); no edge is confirmed at once on one coincidence (association); close
ends the worker, keeps every document and frees the store (lifecycle).

## 2. Modules

| module | models |
|---|---|
| `DurableMemory` | the abstract promise about the existence of a memory |
| `MemoryEngine` | the storage core with its six calls, crashes and failed steps; properties |
| `MCMemoryEngine` | the same for TLC (thread symmetry) |
| `MemoryEngineProofs` | the TLAPS proofs about `MemoryEngine` with any number of threads |
| `SerialProofs` | what each action does, as lemmas; the proofs for one caller with faults |
| `QuietProofs` | the proofs for one caller without faults |
| `DeleteProofs` | the proofs about deleted memories |
| `LinkGraph` | typed edges: what each call does to the links of the units; properties |
| `LinkGraphProofs` | the TLAPS proofs about `LinkGraph` |
| `ReadStore` | the store as a reading call sees it, changed by other threads between its reads |
| `Retrieval` | `retrieve`: recall channels, fusion, loading, spreading, boosts, ranking, paths; properties |
| `Browse` | `list` with its cursor, `traverse`, the edges of `inspect`; properties |
| `TimeQuery` | the temporal parser, its calendar and the temporal index keys; properties |
| `Association` | candidate search, scores and edges of a write; properties |
| `ReadCalls` | the composition: one of these calls on one `ReadStore` |
| `MCReadCalls` | the instance for TLC: contents, queries, stores, texts |
| `ReadCallsProofs` | the TLAPS proofs about `Association`, `Browse` and `TimeQuery` in the composition; lemmas on induction, folds, sorting, sequences and the store |
| `RetrievalProofs` | the TLAPS proofs about `Retrieval` in the composition, and about the types of all its calls |
| `Lifecycle` | open, handles, worker, batched full-text commits, close, crash; properties |
| `LifecycleProofs` | the TLAPS proofs about `Lifecycle` |

The models divide the work. `MemoryEngine` has every interleaving, crash and failed
step and abstracts an edge to a target and a level; `LinkGraph` takes a call as one step
and has the edges in detail. `ReadCalls` composes the calls that compute an answer from
what they read, with the values the other two leave open (which memories are returned,
which candidates are linked), and cuts the writers down to the changes a reader can see.
`Lifecycle` has the threads that share and close the engine and cuts a write down to one
document.

### MemoryEngine

State. One variable per table (the six inverted indexes are one set of posted ids,
because every unit has at least its three temporal keys and all its posting lists are
written in one transaction and stripped in one), the two in-process indexes, the
full-text documents, one record `th[t]` per thread with what the Rust function holds in
local variables (`snap` the loaded units, `todo` and `scan` the ids its loops still have
to visit, `buf` the decoded unit, `row` the decoded overlay row, `vec` whether an
embedding was obtained), and history (`issued`, `acked`, `gone`) used by properties.

Actions. One action is one redb transaction, one critical section of an index mutex, or
a read whose result is used later. `write_internal` is `WriteStart` (id, embedding,
in-memory indexes), `WriteDiscover`, `WriteLink`, `WritePersist`, `WriteFulltext`,
`WriteEnrich`, `WriteReput`; the summary of a cycle (`SummaryWrite`) and every record of
a reindex (`ReindexNext`) enter the same pipeline at `discover`, as in the code. `delete`
is `DeleteStart` (the one load of all units), then per id `DeleteNext`, `DeleteRemove`,
the cascade (`DeleteCascade`, `DeleteCascadeGet`, `DeleteCascadePut` per unit of the
snapshot that points at the victim), `DeleteUnindex`, `DeleteUnlink`. `feedback`,
`retrieve`, `consolidate` and `reindex` are split the same way. `Restart` is a crash
followed by `open`.

Errors. `Fail` ends a call at any step, where the code propagates an error with `?` (or
panics on it). Some errors the code swallows, and the call goes on with less: rows
`load_all_units` cannot read (`Loads`), an unreadable activation log (`CycleInputs`), a
candidate of a write that does not load (`WriteLink` links to any subset), a context link
that is not bound (`FeedbackBind`), a fingerprint or a path that is not stored (`known`,
`path`). `Swallows` allows them as long as a fault is left, so the runs and theorems
without faults have none; `faults` itself counts the calls that failed and the crashes.

Feedback takes the ids the caller names, as they are: ids of deleted memories and ids that
never were a memory's included, and any retrieval with them. A cycle therefore builds
co-activation edges to ids without a record, which `SummaryExists` and `CascadeCuts` except
by name (`Hot`: the ids that positive feedback rows name).

Data abstractions: a memory is its id; an edge is a target and a strength level (level 1
is the floor `min_retained_strength`); `usage_score` is a level; link types, observation
states, texts and scores are left out, so *which* candidates are linked, *which* memories
a query returns, *which* pairs reach the co-activation threshold and how many half-lives
have passed are free choices, every one of which the checks cover. A cycle forms at most
one summary cluster and a retrieval stores at most one propagation path. Binding the used
memories of a feedback call to a query is one step (the rows are independent), and
`commit_every` is 1, the default, so a document is committed when it is added. Keys that
are derived from the clock (activation log, retrieval id) are taken to be distinct.

### LinkGraph

State. `links[x]` is the set of out-edges of unit x; an edge has its target, the memory it
was built for (`orig`, which stays when the edge is redirected; the code keeps a note in
the evidence), type, strength level, activation count, day of the last activation and
observation state. `entries[x][d]` counts the activation entries that the feedback rows of
day d amount to for x (a row of n ids yields n - 1 for each), `rejected` the ids named by
rejections: consolidation reads both from the whole activation log in every cycle.

Actions. `Write` is `raw_to_indexed` with `build_edges` for any candidates and scores;
`FeedbackPositive` and `FeedbackRejected` add their row, the first may also review the
edge of a stored path (`strengthen_edge`); `Consolidate` is `run_cycle` (`Reinforce`,
`CoLinks`, `Weaken`, `Decay`) followed by `compact_edges`; `ConsolidateCompress` also
compresses a cluster and redirects the edges at it (B5); `Delete` removes a unit and the
edges at it; `Tick` is a day.

Data abstractions: one level of strength stands for one halving, one Hebbian delta and one
rejection; one link type stands for the protected set (co-activation builds it too) and
one for the rest; rows of one day are within the co-activation window and rows of
different days are not; positive signals weigh the same; activation counts are capped
where the half-life stops to double. Scores and the choice of candidates are free. Two
edges that are equal in every modelled field are one element. This merges no two edges:
by the invariant proved below two edges of one unit differ in target, type or `orig`, the
maps of a cycle leave these three alone, and redirection keeps the number of edges
(`RedirectFacts`).

### ReadStore, Retrieval, Browse, TimeQuery, Association, ReadCalls

State. `ReadStore` holds the lifecycle of every unit (`kind`), its edges in stored order
(`row`) and the ids the inverted indexes list (`indexed`), which may include ids without
a unit: a delete removes unit and row in one transaction (`Forget`) and the postings in a
later one (`Unindex`; `deleting` are the deletes in between). Its cascade, feedback and
consolidation put units and rows back without reading them again: `Put` writes any state
in which some thread may hold the unit (`copies`: what was ever stored, or the compressed
form of an active copy), `PutRow` any of the edge lists `Rows` allows, whatever the table
holds by then. A deleted memory can come back that way, compressed and with edges
(`VDeleteRace` is the same race seen from the writers). `appeared` collects the ids that
got a unit while the call ran, by a write or by such a put. `Write` stores the unit, its
edges and its postings at once, in no order of ids; the vector indexes list an id before,
which is a hit without a unit in the input. `Write`, `Forget`, `Put` and `PutRow` are the
changes of other threads, at most `MaxChanges` of them during a call; a delete that is half
done may finish besides. `row` is the table the call in question reads: the overlay for a
retrieval, where units and rows are put apart, the links of the units for the others, where
a put brings both. A reindex does not run meanwhile. Each call adds what the Rust function
keeps in local variables and is split at its reads.

`Retrieval` follows `Engine::retrieve` step by step: `RetrieveRecall` (all channels, their
limits, reciprocal-rank fusion, the fallback without hits), `RetrieveLoadSeeds` (units,
exclusion of compressed sources and summaries), `RetrieveLinks` (one transaction for each
seed), `RetrieveNeighbours` (their units, in one), `RetrievePrefetch` (one transaction for
each neighbour that is not excluded), `RetrieveEnergise` and `SpreadHop`
(`spread_multi_hop_fused`: fan-out, decay, type modifier, threshold, merge, cycle
elimination, traces; `Round` is the loop over the frontier, `Send` the loop over the
edges of a node, `Arrive` its body), `SpreadStop`, `RetrieveExtra`, `RetrieveRank` (boosts by question,
context correction, filter, cut, recorded paths). Numbers are thousandths, rounded down;
the parameters are the defaults of `AlgoParams`. What a text contains (entities, keys,
words, question signals) and the order of full-text and vector hits are inputs.

`Browse`: `ListPage` is one call with the cursor of the page before; `TraversePop` is one
round of the breadth-first loop on the snapshot `TraverseStart` took (`CandidateEdges` by
direction, `Followed` after the filter by type, `Follow` the body for one edge).
`TraverseExact` compares the answer, nodes and edges, with the balls around the start
(`Ball`), which are defined on sets and know no queue. `TimeQuery` walks a
reference calendar day by day (`NextDay`, with month lengths and leap years by their
rules) and asks one text per day (`Ask`); the closed formulas of the code are compared
with it. A text is its recognised form: two sides of a range, a date with or without a
year, a term. `Association`: `AssociateDiscover` (posting lists), `AssociateLoad` (a
transaction per candidate), `AssociateBuild` (the candidates most alike in text, scores,
edges). Similarities of signatures are inputs; ties at the candidate limit are broken in
any way, as by the hash set in the code.

### Lifecycle

State. One program counter per handle (`Arc<Engine>` in a thread), the worker thread with
its sleeping steps, the slot and mutex of `consolidation_worker`, the stop flag, and the
documents in the store, in the committed full-text index and with its writer. The mutex
guard of `close` is a temporary of an `if let` and lives until the join has returned:
`CloseTake` takes `guard`, `CloseJoin` gives it back. Adding a document and its commit may
fail after the store transaction (`WriteTextFails`, `WorkerTextFails`), as may
`flush_fulltext` and the flush of a close. An add that fails has not taken the document, or
it has and the commit failed; a failed commit leaves any part of its documents with the
writer. The write returns the error, the worker prints it, and the unit stays in the store.
`lost` is the set of documents that were in hand when such a step failed, when the process
crashed, or when the last handle was dropped without close: the documents the code accepts
to lose, and by `ClosedIsComplete` the only ones.

## 3. Runs

| run | instance | shows |
|---|---|---|
| `Concurrent` | 2 threads, 2 memories, all calls, 4 calls and 3 once there is a fault, 1 fault | `TypeOK`, `ThreadsCarryLogged`, `DerivedFromLog`, `AckedDurable`, and refinement of `DurableMemory` |
| `SerialFaults` | 1 thread, 3 memories, all calls, 4 calls, 1 fault, embedder may fail | `VisibleIsIndexed`, `ReindexReplays` |
| `Serial` | 1 thread, 3 memories, 6 calls, no fault | `OverlayAgrees`, `DeletedIsGone`, `CascadeCuts`, `SummaryExists`, `FulltextComplete` |
| `CallsReturn` | 2 threads, 2 memories, all calls, 3 calls | every call returns |
| `VDeleteBatch` | 1 thread, one delete of two ids | violation of `NoEdgeToDeleted` |
| `VDeleteRace` | 2 threads, delete during consolidation | violation of `DeletedIsGone` |
| `VReindexRevives` | 1 thread, delete then reindex | violation of `DeletedIsGone` |
| `VSummaryLost` | 1 thread, crash inside consolidation | violation of `SummaryExists` |
| `LinkGraph` | 4 memories, 5 calls, 2 days, degree limit 2 | `TypeOK`, `DuplicatesAreRedirected`, `DegreeBounded`, `ConfirmedSurvive`, `ProtectedHeld` |
| `VSelfLoop` | 3 memories | violation of `NoSelfLoop` |
| `ReadCalls` | 5 memories, stores per call, 7 queries, 1 change during a retrieval or a write, 2 during a listing, four stretches of 80 days | 16 properties of the reading calls |
| `Lifecycle` | 3 handles, 2 documents, intervals of 0 to 2 steps | `TypeOK`, `ClosedQuiesces`, `ClosedIsComplete`, `LockReleased`, and under fairness `CloseReturns`, `ConsolidationRecurs` |

Bounds. Two memories are enough for every pairwise conflict of the concurrent run: with
`Trigger = 1` a cluster of one source and its summary fit. The serial runs use three, so
that a cluster of two, its summary and edges between all of them occur; six calls allow
write, write, retrieve, feedback, consolidate, delete; four are enough for the two
properties of `SerialFaults`, which speak of the middle of one call in a store that two or
three others have filled. `MaxFaults = 1` puts one crash or failed step at every point of
every call and an error that is swallowed at every place where the code swallows one. With
`MaxAfterFault = 3` the concurrent run starts its fourth call only without a fault before it
(a fault may still come in the middle of the fourth). Two levels of strength and one step
of usage reach both ends of each range; `Serial` has a single level of usage, since none of
its properties tells usages apart. `CHECK_DEADLOCK FALSE` for all runs but
`Lifecycle`: a store whose callers have made their last call may stop.

The `Serial` properties are those the code keeps for one caller without faults; the
violation runs show where the repository's own statements go further than the code.
Other behaviours that break them, found the same way and not kept as runs: an overlay
row revived by the cascade of a batch (`DeletedIsGone`), a co-activation edge built to a
deleted memory (`NoEdgeToDeleted`; `CascadeCuts` is what remains true), a crash between
persist and full-text (`FulltextComplete`), two feedback calls on one edge
(`OverlayAgrees`).

`LinkGraph` uses four memories, so that a cluster of two, its summary and a memory with
edges to both occur, and five calls, enough to write three memories, give feedback on all
of them and consolidate; three levels allow an edge to fade, to be weakened and to be
reinforced, `DegreeLimit = 2` makes compaction cut, and a row of three ids pairs a memory
with itself. `MaxRejected = 1` loses nothing but calls: rejections only accumulate.

What `LinkGraph` shows against the documents, beside `VSelfLoop`: redirection produces
edges with one target and type (data-model.md:58 rules duplicates out;
`DuplicatesAreRedirected` is what remains); the degree limit cuts protected edges as well
(compaction.rs:33 calls them unaffected; `ConfirmedSurvive` names the exception); decay
does not advance `last_activated_at`, so every cycle applies the same elapsed time again.

What the properties do not say. `ThreadsCarryLogged` and the refinement rule out a put for
a memory without a record, not a put that undoes a newer one: `Restore` of `DurableMemory`
is any such put, and lost updates between threads (consolidation over feedback, the re-put
of a write over either) are what the code does. `OverlayAgrees`, `FulltextComplete` and
`SummaryExists` are for one caller and no fault: a crash between the two puts of a unit and
its row, or two feedbacks on one edge, leave the copies different; `VSummaryLost` shows the
third. `VisibleIsIndexed` covers postings, row and binary code, not the full-text index.
`CascadeCuts` is for one id per delete and excepts what positive feedback has named.

`ReadCalls` has twenty-five stores for a retrieval: every combination of few and many edges
(a cycle, two paths to one node, more edges than the fan-out) with an active, compressed,
summary or half-deleted memory in the middle of them, or two excluded ones at the ends. The queries use every channel, every
question type and 0 to 3 hops. A change may fall between any two reads; `Rows`
gives each memory one or two edge lists that others may store for it. In the half-deleted
stores another thread still holds the active unit. In a listing an id between the others is
not issued yet, so that an older id is written behind the cursor. `TopK`, `FanOut`,
`FallbackLimit`, `SeedPerChannel`, `MaxCandidates` and `ColdStartCount` are small enough
to cut. The stretches of days cover the turn of a year, a leap day (2000, 2024), the
missing one of 2100 and the first days of the epoch. `LocalDayCovered` takes every hour and every zone
from -12 to +14. Two documents and `commit_every` from 0 to 2 give full, partial and manual
batches, and a document that a failed commit has left behind when the next is added; three handles give two closes and a user at once.

What these runs show against the repository's statements, beside what the properties say:

* an answer two hops away records the path from the seed to the memory in between, not
  "guide -> answer" (retrieve_api.rs:552-568); `PathsAreTraversed` claims it for one hop;
* the trace kept for a node that several paths reach is the first one, not the
  "highest-energy path" (spreading.rs:282): `merged == propagated` cannot hold after a merge;
* links are loaded for seeds and their neighbours only, so `max_hops` above 2 adds nothing;
* an energy above the boost cap is lowered by a boost (`.min(cap)`), and merged energies
  are not clamped (docs/concepts.md:298);
* `ThisYear` is not capped by `RANGE_MAX_DAYS`; a range over the turn of the year
  ("11月到1月") is read as a single day; English dates without a year stay in this year;
  hour, day and week keys share one space of u32 keys;
* traverse reports an incoming edge with `from` and `to` exchanged, inspect does not;
* `strong_max` and `weak_max` are never read; the total that drives the cold start is the
  number of candidates plus one (staged.rs:62); goal, event and emotion keys are empty at
  write time, so these dimensions never match there;
* `close` need not hold the last reference (lib.rs:756-759): with clones the last handle
  releases the store. When every handle is dropped and none closed, the worker's clone
  keeps engine and lock.

Fairness. `FairSpec` of `MemoryEngine` assumes weak fairness of the steps of a call that is under way: the
operating system schedules every thread, no step waits for another thread except for
short mutex and redb write-transaction sections. Starting a call is never assumed.
`FairSpec` of `Lifecycle` assumes weak fairness of the worker thread and of a thread that
is inside `close`; no client has to call `close`, and a consolidation ends by `CallsReturn`.

## 4. Proofs

`MemoryEngineProofs` proves, for all sets of memories and threads and all bounds, under
`EngineAssumption` (ids are naturals, `None` is none of the values it stands beside, the
bounds are naturals):

* `TypeCorrect`, `StateIsDerivedFromLog`, `AckedMemoriesAreDurable`,
  `StaleCopiesAreSafe`: the four invariants of the `Concurrent` run;
* `EngineImplementsDurableMemory`: `Spec => Durable!DMSpec`.

`DerivedFromLog` is not inductive: a thread that is about to put a unit could put it for
an id without a record. The inductive invariant `IndInv` adds `Carries` for every thread:
every id in a snapshot is logged (it was visible when it was loaded, and the log never
shrinks), every id a loop is about to put has a unit in the snapshot, the current id of a
pipeline is logged from `persist` on. Each action has a lemma `<Action>Inv`; the frame
lemmas (`ThreadStep`, `DataFrame`, `PutUnit`, `PutRow`) carry what the action leaves
alone. The refinement proof shows each action to be a `Record`, `Withdraw` or `Restore`
step or to leave `memory_log` and `memory_kv` alone.

`LinkGraphProofs` proves the five properties of the `LinkGraph` run for every number of
memories and every value of the parameters, under `LinkGraphAssumption` (finitely many
ids, at least two levels, limits and threshold at least 1): `LinkTypeCorrect`,
`DuplicatesOnlyByRedirection`, `DegreesAreBounded`, `ConfirmedEdgesSurvive`,
`ProtectedEdgesHold`. Duplication is the property that needs strengthening. `IndInv` adds,
for every unit, `GoodLinks`: an edge whose target is not what it was built for leads to a
summary (otherwise a redirected edge could collide with one that a later cycle builds),
summaries are drawn ids (so a new one has no edges), and confirmed edges of one unit
differ in what they were built for (otherwise "this edge" would not be one edge). It also
says that deleted units have no links and that only drawn ids have activation entries.
The lemmas follow the code: `MapGood`, `CutGood`, `GrowGood` for a map that keeps the
identity of edges, a cut and an addition; one lemma for each function of the cycle;
`RedirectFacts` for B5, where distinct edges must stay distinct; `UnitStep` states what an
action does to one unit, and `Combine` gathers the units.

`SerialProofs`, `QuietProofs` and `DeleteProofs` prove the seven properties of `Serial` and
`SerialFaults` for every set of memories and every bound, under the conditions these runs
have, which are hypotheses of the theorems:

| theorem | one caller | no faults | single deletes, no reindex |
|---|---|---|---|
| `VisibleMemoriesAreIndexed`, `ReindexReplaysTheLog` | x | | |
| `OverlayFollowsUnits`, `VisibleMemoriesHaveDocuments`, `SummariesExist` | x | x | |
| `DeletedMemoriesAreGone` | x | | x |
| `CascadeCutsEdges` | x | x | x |

`OneCaller` (`Threads` has one element), `MaxFaults = 0`, `MaxBatch = 1` and
`"reindex" \notin Ops` are not conveniences: the code has no lock around a call and no
recovery between its transactions, and without the hypothesis each property is false, by
`VDeleteRace`, `VSummaryLost`, `VDeleteBatch` and `VReindexRevives` or by the behaviours
listed in section 3. None of the properties is inductive, for they speak of the time
between calls and a call breaks them half-way. Each has an invariant that says how far the
call has come: `IndexInv` (which ids the thread still holds are indexed, and what a reindex
has replayed), `OverlayInv` (`Lagging`: the one row that is behind its unit, and which step
will write it), `FulltextInv`, `SummaryInv` (every copy the thread will put back names only
memories with raw records and, as targets, ids that positive feedback named: `Sound`), `GoneInv` (what a delete under way has still to remove, and
that no put of the same call can name it), `CutInv` (no copy, table or snapshot has an edge
to a victim the cascade has passed, unless positive feedback named it). `DeletedMemoriesAreGone`
holds with faults because a delete that fails is not acknowledged; `CascadeCuts` does not:
a consolidation flush that fails between a unit and its overlay row can leave a pruned edge
in the row only, and the cascade of a later delete picks the units to cut by the edges in
`MEMORY_KV`, so it passes that row by. The
first part of `SerialProofs` states for every action what it changes and what the thread
holds afterwards; all later lemmas use the actions through these statements only.

`ReadCallsProofs` proves what `list`, `traverse`, the temporal parser and the candidate
search of a write promise, for every store, every input and every interleaving with other
threads:

* `EdgesCorroboratedAlways`: an edge rests on a shared entity, topic or time bucket and
  starts under observation when one dimension alone matched. `AssociateInv` says that the
  ids found and loaded stay candidates of the lookup (`Shared` does not depend on the store,
  so a later change cannot undo it); the arithmetic is `LoneScore`: importance, context and
  both signatures add at most 330, one dimension at most 200, together 530, below the mark
  of 550;
* `PagesAreExactAlways`: `PageInv` relates the pages so far to the cursor (what was listed
  is at least as new, and of what is at least as new and was there throughout (`Remained`)
  nothing is missing), which survives writes and puts, of older ids too, since what they
  bring has `appeared` (`UnitsAppear`), and deletes, that of the cursor's memory included
  (`StartAfterCursor`). `SortedBy` is the order lemma: picking for each k
  the element with k - 1 predecessors sorts a finite set;
* `CalendarAgreesAlways`, `TermsTileAlways`, `YearlessIsRecentAlways`,
  `RangesCappedAlways`, `LocalDayCoveredAlways`: for every day from 1970 on, every text and
  every time zone, where the run walks four stretches. `TimeInv` says that the date walked
  to is a date of the calendar and the day count the code's count for it. The code's
  formulas divide by 1460, 36524 and 146096 days; with the year written in its digits
  (`Digits`: quadricentury, century, leap cycle, year) every quotient is a linear form,
  `YearStep` and `MonthStep` compare one year or month with the next, and `YearFound` and
  `MonthFound` invert them;
* `TraverseExactAlways`: the snapshot does not change during the search, so the argument is
  about one fixed graph `w` (`Reads`), whose balls `NatRecursion` shows to exist. The
  property speaks of the end only. `TravInv` says, after every round: the queue holds
  visited nodes, each once and at its distance, in the order of their distances and of two
  neighbouring ones at most (`QueueOK`, without which a node could be met first on a longer
  way); the report is the visited units without the start, each once and at its distance
  (`NodesOK`); whatever is visited and not waiting has been expanded, and the edges
  recorded are the edges of just these nodes (`Expanded`). `AllWithin` is the heart: when
  the nearest waiting node is at distance h, the whole ball of radius h is visited, so a
  node not seen yet lies at h + 1 exactly (`Beyond`). Nodes without a unit are visited and
  queued and never expanded, as in the code. `FollowedAre` relates the lists of edges the
  code goes over, for each direction, to the sets of the property.

`RetrievalProofs` proves the seven properties of `retrieve`, for every store, query and
parameter and whatever other threads write, delete, compress or put back between its reads:
`TracesArePathsAlways`, `NoEnergyThroughExcludedAlways`, `SpreadClosedAlways`,
`MergedWithinBoundsAlways`, `ResultsRankedAlways`, `StaleOnlyByRaceAlways`,
`PathsAreTraversedAlways`. The invariant `RetInv` has seven parts, each for a reason:

* `StoreInv`: types of the store, and only ids that were handed out are held by other
  threads. A step of another thread alters the lifecycle of one memory at most, and a unit
  where there was none has `appeared` from then on (`StoreMoves`); what is gone need not
  stay gone;
* `RetTypes`: energies and scores are naturals at every stage (the ranking would be no
  order otherwise), and nothing is activated before spreading starts;
* `SpreadInv`: after each hop every activated node has a simple trace from a seed, the
  frontier is exactly the nodes of the last hop, and every older node has passed its energy
  on. `SpreadClosed` speaks of the end only; the invariant says it of all but the frontier;
* `MergeInv`: the node's energy lies between the greatest arrival and the sum, with the sum
  given as a function on sets of edges, since `merge_energy` is not associative and only
  the bounds are independent of the order;
* `CopyInv`: edges are loaded only for memories whose loaded copy is not excluded, one
  transaction after the other (`pending`). A memory that was not found when units were
  loaded may have edges all the same: the code loads a row without asking for the unit.
  Either it still has no unit or it has appeared during the call (`Missing`), which is the
  exception `NoEnergyThroughExcluded` makes: consolidation puts a deleted memory back as
  compressed, and the last load (`RetrieveExtra`) finds it so after it passed energy;
* `StaleInv`: each memory loaded alive and dead by now accounts for a change of its own;
* `ResultInv`: the answer as `RetrieveRank` leaves it.

The loops of the code are folds in the model, and TLAPS cannot apply the induction
principles of its library. `ReadCallsProofs` therefore states principles over *sets*
(`NatInduct`, `SubsetInduct`, from the well-foundedness of the naturals), proves that
recursions on finite sets and on the naturals define functions (`SubsetRecursion`,
`NatRecursion`), and states a fold as the sequence of its values after each pass
(`LoopPasses`; `FollowSteps` for the edges of a node in `traverse`, `ArriveSteps` and
`SendSteps` for spreading). Sums over sets (`Sums`), flattening (`FlattenedSet`) and sorting
by three keys (`LexSorts`) are built on these.

`ReadCallsTypeCorrect`, at the end of `RetrievalProofs`, puts the types together. Most of
them are parts of the invariants above, which is why it stands last: the type of `listed`
comes from `PageInv`, of `queue` and `nodes` from `TravInv`, of the energies from `RetTypes`.
`CallTypes` adds the rest. The one type that takes an argument is the strength of an edge a
write builds: that it does not exceed 1000 rests on the bounds of every part of the score
(`CandidateScore`).

Both modules use the assumptions on the constants that the code justifies: ids are finitely
many positive numbers (`ReadStoreAssumption`); limits, hops, strengths and days are
naturals, feature sets are finite (`RetrievalAssumption`, from the unsigned types and
`Vec`s of the code); a call starts at an id, with an unsigned limit or depth and in
one of the three directions (`BrowseAssumption`); a store's rows and the copies other threads hold belong to ids that were
handed out, and a unit in the store is among the copies (`StoresAssumption`); a stretch begins on a date of the calendar, counted
by the calendar's own years, leap days and months (`DayNumber`) and not by the code, and a
text has one of the recognised forms (`TimeQueryAssumption`). TLC evaluates all of them
on `MCReadCalls`.

`LifecycleProofs` proves the four invariants of the `Lifecycle` run for any handles,
documents and interval: `LifecycleTypeCorrect`, `ClosedEngineQuiesces`,
`ClosedEngineIsComplete`, `LockIsReleased`. None is inductive. `HandleInv` and `WorkerInv`
say that a running worker is in the slot or awaited by the close that holds the mutex
(without it a second close could pass the join), `DocInv` where a stored document can be (in the index, with the
writer, in the hands of a thread, or lost), `FlushInv` that somebody is left who flushes the
pending ones, or they are lost; a failed commit that keeps its documents keeps them
pending.

Only model-checked: liveness (`CallsReturn`, `CloseReturns`, `ConsolidationRecurs`), which
is beyond the prover. Every other property of the passing runs, the type invariants
included, is the statement of a theorem.

## 5. Plan

1. (done) storage core, its refinement and proofs.
2. (done) Typed edges: creation limits, deduplication, Hebbian steps, decay, compaction
   with the protected set, redirection, degree limits, and their proofs.
3. (done) Engine lifecycle: open, background worker, close, batched full-text commits.
4. (done) Retrieval with fusion and spreading, paging and traversal, the temporal parser,
   association scores, composed over one changing store.
5. Activation log and context links: keys derived from the clock, two retrievals within a
   millisecond.
6. Forgetting curve: strength as a function of time against repeated cycles.
7. (done) Proofs of the index, overlay, summary and delete invariants of one caller, of
   spreading and ranking, of paging, of the calendar, of breadth-first traversal and of the
   types of the reading calls.

## 6. Not modelled

Text understanding (tokenisers, extraction rules, HTTP backends): only success or failure
reaches the engine, and in `ReadCalls` the features they extract, as inputs. Distances of
vectors and BM25 scores: their order is an input. `dump` and `explain`, which format what
they load. Floating point: scores are integers in thousandths, rounded down. The evaluation harness, CLI,
server and gRPC glue: they hold no state. redb and Tantivy themselves: a transaction is
atomic and durable at commit, which is what the code relies on.
