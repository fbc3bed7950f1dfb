---------------------------- MODULE DeleteProofs ----------------------------
(***************************************************************************)
(* Proofs about delete, for an engine with one caller that deletes one     *)
(* memory at a time and does not reindex: a deleted memory has left every  *)
(* state table, and no edge leads to it but those that co-activation       *)
(* draws.                                                                  *)
(***************************************************************************)
EXTENDS QuietProofs, FiniteSetTheorems

-----------------------------------------------------------------------------
(***************************************************************************)
(* Deleted memories.                                                       *)
(***************************************************************************)
\* The steps of a delete between its state removal and its return.
Cascading == {"cascade", "casc_get", "casc_put", "unindex", "unlink"}

\* A finished delete has emptied every table, and no table but the postings has
\* a row of a memory without a unit.
GoneTables ==
    /\ gone \subseteq memory_log
    /\ \A x \in gone : ~ Present(x) /\ x \notin postings
    /\ dense_vectors \subseteq Visible
    /\ \A x \in Ids : link_overlay[x] # None => Present(x)

\* A delete of one memory works on the units as they are: its snapshot is still
\* fresh when it removes the victim, and those that lose a link are there.
GoneHeld(r) ==
    /\ r.op # "reindex"
    /\ r.pc = "del_next" => /\ \A x, y \in r.todo : x = y
                            /\ r.todo # {} => FreshSnapshot(r.snap)
    /\ r.pc = "remove" => r.todo = {} /\ FreshSnapshot(r.snap) /\ Present(r.cur)
    /\ r.pc \in Cascading => /\ r.todo = {} /\ ~ Present(r.cur)
                             /\ r.cur \in memory_log
                             /\ \A y \in r.scan : Present(y)
    /\ r.pc = "unlink" => r.cur \notin postings
    /\ r.pc = "row_put" => Present(r.path[1])

\* The invariant of deletes.
GoneInv(t) == GoneTables /\ GoneHeld(th[t])

\* A step that shows and hides no memory.
LEMMA GoneTablesStep ==
  ASSUME IndInv, GoneTables, Visible' = Visible,
         UNCHANGED <<memory_log, gone, dense_vectors>>,
         postings' \subseteq postings \cup Visible,
         \A x \in Ids : link_overlay'[x] = link_overlay[x] \/ Present(x)
  PROVE  GoneTables'
<1>1. \A x \in Ids : Present(x)' <=> Present(x)
  BY DEF Visible
<1>2. gone \subseteq Ids
  BY Tables
<1>3. gone' \subseteq memory_log' /\ dense_vectors' \subseteq Visible'
  BY DEF GoneTables
<1>4. \A x \in gone' : ~ Present(x)' /\ x \notin postings'
  BY <1>1, <1>2 DEF GoneTables, Visible
<1>5. \A x \in Ids : link_overlay'[x] # None => Present(x)'
  BY <1>1 DEF GoneTables
<1> QED BY <1>3, <1>4, <1>5 DEF GoneTables

\* A thread that is not deleting holds nothing of a victim.
LEMMA NotDeleting ==
  ASSUME NEW t \in Threads, th'[t].op # "reindex",
         th'[t].pc \notin {"del_next", "remove", "row_put"} \cup Cascading
  PROVE  GoneHeld(th[t])'
BY DEF GoneHeld, Cascading

\* A call that returns leaves the tables as they are.
LEMMA ReturnGone ==
  ASSUME NEW t \in Threads, GoneTables', th'[t] = Idle
  PROVE  GoneInv(t)'
BY DEF GoneInv, GoneHeld, Cascading, Idle

\* Only finitely many ids have been drawn.
LEMMA IssuedStep ==
  ASSUME IndInv, IsFiniteSet(issued), [Next]_vars
  PROVE  IsFiniteSet(issued)'
<1>1. SUFFICES issued' = issued \/ \E x : issued' = issued \cup {x}
  BY FS_AddElement
<1>2. ASSUME NEW t \in Threads, WriteStep(t)
      PROVE  issued' = issued \/ \E x : issued' = issued \cup {x}
  BY <1>2, WriteStartEffect, WriteDiscoverEffect, WriteLinkEffect,
     WritePersistEffect, WriteFulltextEffect, WriteEnrichEffect, WriteReputEffect
  DEF WriteStep, hist
<1>3. ASSUME NEW t \in Threads, DeleteStep(t)
      PROVE  issued' = issued \/ \E x : issued' = issued \cup {x}
  BY <1>3, DeleteStartEffect, DeleteNextEffect, DeleteRemoveEffect,
     DeleteCascadeEffect, DeleteCascadeGetEffect, DeleteCascadePutEffect,
     DeleteUnindexEffect, DeleteUnlinkEffect
  DEF DeleteStep, hist
<1>4. ASSUME NEW t \in Threads, RetrieveStep(t)
      PROVE  issued' = issued \/ \E x : issued' = issued \cup {x}
  BY <1>4, RetrieveStartEffect, RetrieveTouchEffect, RetrieveTouchPutEffect
  DEF RetrieveStep, hist
<1>5. ASSUME NEW t \in Threads, FeedbackStep(t)
      PROVE  issued' = issued \/ \E x : issued' = issued \cup {x}
  BY <1>5, FeedbackStartEffect, FeedbackUsageEffect, FeedbackUsagePutEffect,
     FeedbackBindEffect, FeedbackEdgeGetEffect, FeedbackEdgePutEffect,
     FeedbackRowGetEffect, FeedbackRowPutEffect
  DEF FeedbackStep, hist
<1>6. ASSUME NEW t \in Threads, ConsolidateStep(t)
      PROVE  issued' = issued \/ \E x : issued' = issued \cup {x}
  BY <1>6, ConsolidateStartEffect, ConsolidateCycleEffect,
     ConsolidateCompressEffect, FlushKvEffect, FlushRowEffect, SummaryWriteEffect,
     SealRowEffect, SealGetEffect, SealPutEffect
  DEF ConsolidateStep, hist
<1>7. ASSUME NEW t \in Threads, ReindexStep(t)
      PROVE  issued' = issued \/ \E x : issued' = issued \cup {x}
  BY <1>7, ReindexStartEffect, ReindexClearEffect, ReindexFulltextEffect,
     ReindexRamEffect, ReindexNextEffect
  DEF ReindexStep, hist
<1>8. ASSUME NEW t \in Threads, Fail(t) PROVE issued' = issued
  BY <1>8, FailEffect
<1>9. Restart \/ UNCHANGED vars => issued' = issued
  BY DEF Restart, vars, hist
<1> QED BY <1>2, <1>3, <1>4, <1>5, <1>6, <1>7, <1>8, <1>9
       DEF Next

\* The ids drawn are finitely many at all times.
LEMMA IssuedFinite == Spec => []IsFiniteSet(issued)
<1>1. Init => IsFiniteSet(issued)
  BY FS_EmptySet DEF Init
<1>2. IndInv /\ IsFiniteSet(issued) /\ [Next]_vars => IsFiniteSet(issued)'
  BY IssuedStep
<1> QED BY <1>1, <1>2, Invariance, PTL DEF Spec

\* A batch of one.
LEMMA BatchOfOne ==
  ASSUME IsFiniteSet(issued), MaxBatch = 1, NEW S \in SUBSET issued,
         Cardinality(S) \in 1..MaxBatch
  PROVE  \A x, y \in S : x = y
<1>1. IsFiniteSet(S)
  BY FS_Subset
<1>2. Cardinality(S) = 1
  OBVIOUS
<1>3. PICK x : S = {x}
  BY <1>1, <1>2, FS_Singleton
<1> QED BY <1>3

\* Without the reindex call no reindex step is taken.
LEMMA NoReindex ==
  ASSUME NEW t \in Threads, "reindex" \notin Ops, IndInv, IndexInv(t), GoneInv(t)
  PROVE  ~ ReindexStep(t)
<1>1. ~ ReindexStart(t)
  BY Zenon DEF ReindexStart, CanStart
<1>2. th[t].pc \notin {"clear", "fts", "ram", "re_next"}
  BY DEF IndexInv, Replaying, GoneInv, GoneHeld
<1> QED BY <1>1, <1>2, ReindexClearEffect, ReindexFulltextEffect, ReindexRamEffect,
           ReindexNextEffect DEF ReindexStep

\* Only a new record shows a memory, and a new record is no deleted memory's.
LEMMA WritePersistGone ==
  ASSUME IndInv, NEW t \in Threads, IndexInv(t), GoneInv(t), WritePersist(t)
  PROVE  GoneInv(t)'
<1>1. th[t].cur \in Ids /\ th[t].buf # None /\ th[t].op # "reindex" /\ GoneTables
  BY WritePersistEffect, Locals DEF GoneInv, GoneHeld
<1>2. CASE /\ th[t].cur \notin memory_log /\ th'[t].pc = "fulltext" /\ PersistUnit(t)
           /\ UNCHANGED <<gone, th[t].op>>
  <2>1. /\ memory_log' = memory_log \cup {th[t].cur}
        /\ \A x \in Ids : memory_kv'[x] = IF x = th[t].cur THEN th[t].buf ELSE memory_kv[x]
        /\ \A x \in Ids : x # th[t].cur => link_overlay'[x] = link_overlay[x]
        /\ dense_vectors' \subseteq dense_vectors \cup {th[t].cur}
        /\ postings' = postings \cup {th[t].cur}
    BY <1>1, <1>2, Tables DEF PersistUnit
  <2>2. gone' \subseteq memory_log' /\ gone' \subseteq Ids /\ th[t].cur \notin gone'
    BY <1>1, <1>2, <2>1, Tables DEF GoneTables
  <2>3. \A x \in gone' : ~ Present(x)' /\ x \notin postings'
    BY <1>1, <1>2, <2>1, <2>2 DEF GoneTables, Present
  <2>4. dense_vectors' \subseteq Visible'
    BY <1>1, <2>1 DEF GoneTables, Visible, Present
  <2>5. \A x \in Ids : link_overlay'[x] # None => Present(x)'
    BY <1>1, <2>1 DEF GoneTables, Present
  <2>6. GoneTables'
    BY <2>2, <2>3, <2>4, <2>5 DEF GoneTables
  <2>7. GoneHeld(th[t])'
    BY <1>1, <1>2, NotDeleting DEF Cascading
  <2> QED BY <2>6, <2>7 DEF GoneInv
<1>3. CASE th'[t] = Idle /\ UNCHANGED <<disk, hist>>
  <2>1. GoneTables'
    BY <1>1, <1>3 DEF GoneTables, Visible, Present, disk, hist
  <2> QED BY <1>3, <2>1, ReturnGone
<1> QED BY <1>1, <1>2, <1>3, WritePersistEffect DEF hist

\* A delete of one memory starts from the units as they are.
LEMMA DeleteStartGone ==
  ASSUME IsFiniteSet(issued), MaxBatch = 1, IndInv, NEW t \in Threads,
         IndexInv(t), GoneInv(t), DeleteStart(t)
  PROVE  GoneInv(t)'
<1>1. GoneTables'
  BY DeleteStartEffect DEF GoneInv, GoneTables, Visible, Present, disk
<1>2. PICK S \in SUBSET issued :
        /\ Cardinality(S) \in 1..MaxBatch
        /\ th'[t].pc = "del_next" /\ th'[t].op = "delete" /\ th'[t].todo = S
        /\ FreshSnapshot(th'[t].snap)
  BY DeleteStartEffect
<1>3. \A x, y \in S : x = y
  BY <1>2, BatchOfOne
<1>4. FreshSnapshot(th[t].snap)'
  BY <1>2, DeleteStartEffect DEF FreshSnapshot, disk
<1>5. GoneHeld(th[t])'
  BY <1>2, <1>3, <1>4, DeleteStartEffect DEF GoneHeld, Cascading, disk
<1> QED BY <1>1, <1>5 DEF GoneInv

\* The victim is looked up in the table the snapshot was taken from.
LEMMA DeleteNextGone ==
  ASSUME IndInv, NEW t \in Threads, IndexInv(t), GoneInv(t), DeleteNext(t)
  PROVE  GoneInv(t)'
<1>1. GoneTables' /\ UNCHANGED memory_kv
  BY DeleteNextEffect DEF GoneInv, GoneTables, Visible, Present, disk, hist
<1>2. /\ th[t].op # "reindex" /\ th[t].pc = "del_next"
      /\ \A x, y \in th[t].todo : x = y
      /\ th[t].todo # {} => FreshSnapshot(th[t].snap)
  BY DeleteNextEffect DEF GoneInv, GoneHeld
<1>3. CASE th'[t] = Idle
  BY <1>1, <1>3, ReturnGone
<1>4. ASSUME NEW x \in th[t].todo, Present(x), th'[t].pc = "remove", th'[t].cur = x,
             th'[t].todo = th[t].todo \ {x}, UNCHANGED <<th[t].op, th[t].snap>>
      PROVE  GoneInv(t)'
  <2>1. /\ th'[t].todo = {} /\ FreshSnapshot(th[t].snap)'
        /\ memory_kv'[th'[t].cur] # None
    BY <1>1, <1>2, <1>4 DEF Present, FreshSnapshot
  <2> QED BY <1>1, <1>2, <1>4, <2>1 DEF GoneInv, GoneHeld, Present, Cascading
<1>5. ASSUME NEW x \in th[t].todo, th'[t].todo = th[t].todo \ {x},
             UNCHANGED <<th[t].pc, th[t].op, th[t].snap>>
      PROVE  GoneInv(t)'
  <2>1. th'[t].todo = {}
    BY <1>2, <1>5
  <2> QED BY <1>1, <1>2, <1>5, <2>1 DEF GoneInv, GoneHeld, Cascading
<1> QED BY <1>3, <1>4, <1>5, DeleteNextEffect

\* The state removal takes the unit, the vector and the row together.
LEMMA DeleteRemoveGone ==
  ASSUME IndInv, NEW t \in Threads, IndexInv(t), GoneInv(t), DeleteRemove(t)
  PROVE  GoneInv(t)'
<1>1. /\ th[t].cur \in Ids /\ th[t].pc = "remove" /\ th[t].op # "reindex" /\ GoneTables
      /\ th[t].todo = {} /\ FreshSnapshot(th[t].snap) /\ Present(th[t].cur)
  BY DeleteRemoveEffect, Locals DEF GoneInv, GoneHeld
<1>2. /\ \A x \in Ids : memory_kv'[x] = IF x = th[t].cur THEN None ELSE memory_kv[x]
      /\ \A x \in Ids : link_overlay'[x] = IF x = th[t].cur THEN None ELSE link_overlay[x]
      /\ dense_vectors' = dense_vectors \ {th[t].cur}
      /\ UNCHANGED <<memory_log, postings, gone>>
  BY <1>1, DeleteRemoveEffect, Tables DEF hist
<1>3. gone' \subseteq memory_log' /\ gone' \subseteq Ids
  BY <1>1, <1>2, Tables DEF GoneTables
<1>4. \A x \in gone' : ~ Present(x)' /\ x \notin postings'
  BY <1>1, <1>2, <1>3 DEF GoneTables, Present
<1>5. dense_vectors' \subseteq Visible'
  BY <1>1, <1>2 DEF GoneTables, Visible, Present
<1>6. \A x \in Ids : link_overlay'[x] # None => Present(x)'
  BY <1>1, <1>2 DEF GoneTables, Present
<1>7. /\ th'[t].pc = "cascade" /\ UNCHANGED <<th[t].op, th[t].cur, th[t].todo>>
      /\ \A y \in th'[t].scan : y \in Ids \ {th[t].cur} /\ memory_kv[y] # None
  BY <1>1, DeleteRemoveEffect DEF PointsAt, FreshSnapshot
<1>8. th[t].cur \in memory_log'
  BY <1>1, <1>2 DEF IndInv, DataInv, DerivedFromLog, Visible
<1>9. GoneHeld(th[t])'
  BY <1>1, <1>2, <1>7, <1>8 DEF GoneHeld, Present, Cascading
<1> QED BY <1>3, <1>4, <1>5, <1>6, <1>9 DEF GoneInv, GoneTables

\* A cascade writes rows of memories that are there.
LEMMA DeleteCascadeGone ==
  ASSUME IndInv, NEW t \in Threads, IndexInv(t), GoneInv(t), DeleteCascade(t)
  PROVE  GoneInv(t)'
<1>1. /\ th[t].op # "reindex" /\ GoneTables /\ th[t].cur \in Ids
      /\ th[t].todo = {} /\ ~ Present(th[t].cur) /\ th[t].cur \in memory_log
      /\ th[t].scan \subseteq Ids /\ \A y \in th[t].scan : Present(y)
  BY DeleteCascadeEffect, Locals DEF GoneInv, GoneHeld, Cascading
<1>2. \A x \in Ids : link_overlay'[x] = link_overlay[x] \/ Present(x)
  BY <1>1, DeleteCascadeEffect, Tables
<1>3. /\ th'[t].pc \in {"unindex", "casc_get"}
      /\ UNCHANGED <<th[t].op, th[t].cur, th[t].todo, th[t].scan>>
      /\ UNCHANGED <<memory_log, memory_kv, dense_vectors, postings, gone>>
  BY DeleteCascadeEffect DEF hist
<1>4. GoneTables'
  BY <1>1, <1>2, <1>3, GoneTablesStep DEF Visible, Present
<1>5. GoneHeld(th[t])'
  BY <1>1, <1>3 DEF GoneHeld, Cascading, Present
<1> QED BY <1>4, <1>5 DEF GoneInv

\* Re-reading a unit changes no table.
LEMMA DeleteCascadeGetGone ==
  ASSUME IndInv, NEW t \in Threads, IndexInv(t), GoneInv(t), DeleteCascadeGet(t)
  PROVE  GoneInv(t)'
<1>1. /\ th[t].op # "reindex" /\ th[t].todo = {} /\ ~ Present(th[t].cur)
      /\ th[t].cur \in memory_log /\ \A y \in th[t].scan : Present(y)
  BY DeleteCascadeGetEffect DEF GoneInv, GoneHeld, Cascading
<1>2. /\ th'[t].pc \in {"cascade", "casc_put"} /\ th'[t].scan \subseteq th[t].scan
      /\ UNCHANGED <<th[t].op, th[t].cur, th[t].todo>>
      /\ UNCHANGED <<memory_log, memory_kv, link_overlay, dense_vectors, postings, gone>>
  BY DeleteCascadeGetEffect DEF hist, disk
<1>3. GoneTables'
  BY <1>2 DEF GoneInv, GoneTables, Visible, Present
<1>4. GoneHeld(th[t])'
  BY <1>1, <1>2 DEF GoneHeld, Cascading, Present
<1> QED BY <1>3, <1>4 DEF GoneInv

\* Putting it back hides and shows nothing.
LEMMA DeleteCascadePutGone ==
  ASSUME IndInv, NEW t \in Threads, IndexInv(t), GoneInv(t), DeleteCascadePut(t)
  PROVE  GoneInv(t)'
<1>1. /\ th[t].op # "reindex" /\ th[t].todo = {} /\ ~ Present(th[t].cur)
      /\ th[t].cur \in memory_log /\ \A y \in th[t].scan : Present(y)
      /\ th[t].scan \subseteq Ids /\ th[t].buf # None /\ th[t].cur \in Ids
      /\ GoneTables
  BY DeleteCascadePutEffect, Locals DEF GoneInv, GoneHeld, Cascading
<1>2. PICK y \in th[t].scan : memory_kv' = [memory_kv EXCEPT ![y] = th[t].buf]
  BY DeleteCascadePutEffect
<1>3. Visible' = Visible /\ \A x \in Ids : Present(x)' <=> Present(x)
  BY <1>1, <1>2, PutVisible
<1>4. /\ th'[t].pc = "cascade" /\ th'[t].scan \subseteq th[t].scan
      /\ UNCHANGED <<th[t].op, th[t].cur, th[t].todo>>
      /\ UNCHANGED <<memory_log, link_overlay, dense_vectors, postings, gone>>
  BY DeleteCascadePutEffect DEF hist
<1>5. GoneTables'
  BY <1>1, <1>3, <1>4, GoneTablesStep
<1>6. /\ memory_kv'[th[t].cur] = None /\ \A y1 \in th'[t].scan : memory_kv'[y1] # None
  BY <1>1, <1>3, <1>4 DEF Present
<1>7. GoneHeld(th[t])'
  BY <1>1, <1>4, <1>6 DEF GoneHeld, Cascading, Present
<1> QED BY <1>5, <1>7 DEF GoneInv

\* The victim leaves the posting lists ...
LEMMA DeleteUnindexGone ==
  ASSUME IndInv, NEW t \in Threads, IndexInv(t), GoneInv(t), DeleteUnindex(t)
  PROVE  GoneInv(t)'
<1>1. /\ th[t].op # "reindex" /\ th[t].todo = {} /\ ~ Present(th[t].cur)
      /\ th[t].cur \in memory_log /\ \A y \in th[t].scan : Present(y)
  BY DeleteUnindexEffect DEF GoneInv, GoneHeld, Cascading
<1>2. GoneTables'
  BY DeleteUnindexEffect DEF GoneInv, GoneTables, Visible, Present, hist
<1>3. GoneHeld(th[t])'
  BY <1>1, DeleteUnindexEffect DEF GoneHeld, Cascading, Present
<1> QED BY <1>2, <1>3 DEF GoneInv

\* ... and counts as deleted only then.
LEMMA DeleteUnlinkGone ==
  ASSUME IndInv, NEW t \in Threads, IndexInv(t), GoneInv(t), DeleteUnlink(t)
  PROVE  GoneInv(t)'
<1>1. /\ th[t].op # "reindex" /\ th[t].todo = {} /\ ~ Present(th[t].cur)
      /\ th[t].cur \in memory_log /\ th[t].cur \notin postings
  BY DeleteUnlinkEffect DEF GoneInv, GoneHeld, Cascading
<1>2. GoneTables'
  BY <1>1, DeleteUnlinkEffect DEF GoneInv, GoneTables, Visible, Present
<1>3. GoneHeld(th[t])'
  BY <1>1, DeleteUnlinkEffect DEF GoneHeld, Cascading
<1> QED BY <1>2, <1>3 DEF GoneInv

\* Feedback reads the row of a memory that is there ...
LEMMA FeedbackRowGetGone ==
  ASSUME IndInv, NEW t \in Threads, IndexInv(t), GoneInv(t), FeedbackRowGet(t)
  PROVE  GoneInv(t)'
<1>1. GoneTables /\ GoneTables' /\ UNCHANGED memory_kv
  BY FeedbackRowGetEffect DEF GoneInv, GoneTables, Visible, Present, disk, hist
<1>2. th[t].op # "reindex" /\ th[t].path[1] \in Ids
  BY FeedbackRowGetEffect, Locals DEF GoneInv, GoneHeld
<1>3. CASE th'[t] = Idle
  BY <1>1, <1>3, ReturnGone
<1>4. CASE /\ link_overlay[th[t].path[1]] # None /\ th'[t].pc = "row_put"
           /\ UNCHANGED <<th[t].op, th[t].path>>
  <2>1. memory_kv'[th'[t].path[1]] # None
    BY <1>1, <1>2, <1>4 DEF GoneTables, Present
  <2> QED BY <1>1, <1>2, <1>4, <2>1 DEF GoneInv, GoneHeld, Present, Cascading
<1> QED BY <1>3, <1>4, FeedbackRowGetEffect

\* The steps that write a row of the overlay outside delete and persist.
RowWrite(t) == FeedbackRowPut(t) \/ FlushRow(t) \/ SealRow(t)

\* ... and writes it back, as a cycle writes the rows of the units it loaded.
LEMMA RowWriteGone ==
  ASSUME IndInv, NEW t \in Threads, IndexInv(t), GoneInv(t), RowWrite(t)
  PROVE  GoneInv(t)'
<1>1. /\ GoneTables /\ th[t].op # "reindex"
      /\ UNCHANGED <<memory_log, memory_kv, dense_vectors, postings, gone>>
  BY FeedbackRowPutEffect, FlushRowEffect, SealRowEffect
  DEF RowWrite, GoneInv, GoneHeld, hist
<1>2. PICK x, l : x \in Ids /\ Present(x) /\ link_overlay' = [link_overlay EXCEPT ![x] = l]
  <2>1. CASE FeedbackRowPut(t)
    BY <2>1, FeedbackRowPutEffect, Locals DEF GoneInv, GoneHeld
  <2>2. CASE SealRow(t)
    BY <2>2, SealRowEffect, Locals DEF IndexInv, IndexHeld
  <2>3. CASE FlushRow(t)
    <3>1. /\ th[t].pc = "flush_row" /\ th[t].todo \subseteq Ids
          /\ \A x \in th[t].todo : th[t].snap[x] # None
      BY <2>3, FlushRowEffect, Locals, EngineAssumption
    <3>2. \A x \in th[t].todo : Present(x)
      BY <3>1 DEF IndexInv, IndexHeld
    <3> QED BY <2>3, <3>1, <3>2, FlushRowEffect, SMTT(30)
  <2> QED BY <2>1, <2>2, <2>3 DEF RowWrite
<1>3. GoneTables'
  BY <1>1, <1>2, GoneTablesStep, Tables DEF Visible, Present
<1>4. th'[t].op # "reindex" /\ th'[t].pc \in {"idle", "flush_kv", "seal_get"}
  BY <1>1, FeedbackRowPutEffect, FlushRowEffect, SealRowEffect DEF RowWrite, Idle
<1> QED BY <1>3, <1>4, NotDeleting DEF GoneInv, Cascading

\* The steps of a write that touch no table of memories.
WriteQuiet(t) == WriteStart(t) \/ WriteDiscover(t) \/ WriteLink(t)
                 \/ WriteFulltext(t)

\* They keep the deleted memories gone.
LEMMA WriteQuietGone ==
  ASSUME IndInv, NEW t \in Threads, IndexInv(t), GoneInv(t), WriteQuiet(t)
  PROVE  GoneInv(t)'
<1>1. /\ GoneTables /\ th[t].op # "reindex"
      /\ UNCHANGED <<memory_log, memory_kv, link_overlay, dense_vectors, postings, gone>>
  BY WriteStartEffect, WriteDiscoverEffect, WriteLinkEffect, WriteFulltextEffect
  DEF WriteQuiet, GoneInv, GoneHeld, disk, hist
<1>2. GoneTables'
  BY <1>1 DEF GoneTables, Visible, Present
<1>3. th'[t].op # "reindex" /\ th'[t].pc \in {"discover", "link", "persist", "enrich"}
  <2>1. CASE WriteStart(t)
    BY <1>1, <2>1, WriteStartEffect DEF Idle
  <2>2. CASE WriteDiscover(t)
    BY <1>1, <2>2, WriteDiscoverEffect DEF Idle
  <2>3. CASE WriteLink(t)
    BY <1>1, <2>3, WriteLinkEffect DEF Idle
  <2>4. CASE WriteFulltext(t)
    BY <1>1, <2>4, WriteFulltextEffect DEF Idle
  <2> QED BY <2>1, <2>2, <2>3, <2>4 DEF WriteQuiet
<1> QED BY <1>2, <1>3, NotDeleting DEF GoneInv, Cascading

\* The steps of a retrieval or feedback that touch no table of memories.
ReadQuiet(t) == RetrieveStart(t) \/ RetrieveTouch(t) \/ FeedbackStart(t)
                \/ FeedbackUsage(t) \/ FeedbackBind(t) \/ FeedbackEdgeGet(t)

\* They keep the deleted memories gone.
LEMMA ReadQuietGone ==
  ASSUME IndInv, NEW t \in Threads, IndexInv(t), GoneInv(t), ReadQuiet(t)
  PROVE  GoneInv(t)'
<1>1. /\ GoneTables /\ th[t].op # "reindex"
      /\ UNCHANGED <<memory_log, memory_kv, link_overlay, dense_vectors, postings, gone>>
  BY RetrieveStartEffect, RetrieveTouchEffect, FeedbackStartEffect,
     FeedbackUsageEffect, FeedbackBindEffect, FeedbackEdgeGetEffect
  DEF ReadQuiet, GoneInv, GoneHeld, disk, hist
<1>2. GoneTables'
  BY <1>1 DEF GoneTables, Visible, Present
<1>3. /\ th'[t].op # "reindex"
      /\ th'[t].pc \in {"idle", "touch", "touch_put", "usage", "usage_put", "bind",
                        "edge_get", "edge_put", "row_get"}
  <2>1. CASE RetrieveStart(t)
    BY <1>1, <2>1, RetrieveStartEffect DEF Idle
  <2>2. CASE RetrieveTouch(t)
    BY <1>1, <2>2, RetrieveTouchEffect DEF Idle
  <2>3. CASE FeedbackStart(t)
    BY <1>1, <2>3, FeedbackStartEffect DEF Idle
  <2>4. CASE FeedbackUsage(t)
    BY <1>1, <2>4, FeedbackUsageEffect DEF Idle
  <2>5. CASE FeedbackBind(t)
    BY <1>1, <2>5, FeedbackBindEffect DEF Idle
  <2>6. CASE FeedbackEdgeGet(t)
    BY <1>1, <2>6, FeedbackEdgeGetEffect DEF Idle
  <2> QED BY <2>1, <2>2, <2>3, <2>4, <2>5, <2>6 DEF ReadQuiet
<1> QED BY <1>2, <1>3, NotDeleting DEF GoneInv, Cascading

\* The steps of a consolidation that touch no table of memories.
CycleQuiet(t) == ConsolidateStart(t) \/ ConsolidateCycle(t) \/ ConsolidateCompress(t)
                 \/ SummaryWrite(t) \/ SealGet(t)

\* They keep the deleted memories gone.
LEMMA CycleQuietGone ==
  ASSUME IndInv, NEW t \in Threads, IndexInv(t), GoneInv(t), CycleQuiet(t)
  PROVE  GoneInv(t)'
<1>1. /\ GoneTables /\ th[t].op # "reindex"
      /\ UNCHANGED <<memory_log, memory_kv, link_overlay, dense_vectors, postings, gone>>
  BY ConsolidateStartEffect, ConsolidateCycleEffect, ConsolidateCompressEffect,
     SummaryWriteEffect, SealGetEffect
  DEF CycleQuiet, GoneInv, GoneHeld, disk, hist
<1>2. GoneTables'
  BY <1>1 DEF GoneTables, Visible, Present
<1>3. /\ th'[t].op # "reindex"
      /\ th'[t].pc \in {"idle", "cycle", "flush_kv", "discover", "seal_put"}
  <2>1. CASE ConsolidateStart(t)
    BY <1>1, <2>1, ConsolidateStartEffect DEF Idle
  <2>2. CASE ConsolidateCycle(t)
    BY <1>1, <2>2, ConsolidateCycleEffect DEF Idle
  <2>3. CASE ConsolidateCompress(t)
    BY <1>1, <2>3, ConsolidateCompressEffect DEF Idle
  <2>4. CASE SummaryWrite(t)
    BY <1>1, <2>4, SummaryWriteEffect DEF Idle
  <2>5. CASE SealGet(t)
    <3>1. \/ th'[t].pc = "seal_put" /\ UNCHANGED <<th[t].op>>
          \/ th'[t] = Idle
      BY <2>5, SealGetEffect, Zenon
    <3> QED BY <1>1, <3>1 DEF Idle
  <2> QED BY <2>1, <2>2, <2>3, <2>4, <2>5 DEF CycleQuiet
<1> QED BY <1>2, <1>3, NotDeleting DEF GoneInv, Cascading

\* Enrichment posts a memory that is there.
LEMMA WriteEnrichGone ==
  ASSUME IndInv, NEW t \in Threads, IndexInv(t), GoneInv(t), WriteEnrich(t)
  PROVE  GoneInv(t)'
<1>1. /\ GoneTables /\ th[t].op # "reindex" /\ th[t].cur \in Ids /\ Present(th[t].cur)
  BY WriteEnrichEffect, Locals DEF GoneInv, GoneHeld, IndexInv, IndexHeld
<1>2. GoneTables'
  BY <1>1, WriteEnrichEffect, GoneTablesStep DEF Visible, Present, hist
<1>3. th'[t].op # "reindex" /\ th'[t].pc = "reput"
  BY <1>1, WriteEnrichEffect
<1> QED BY <1>2, <1>3, NotDeleting DEF GoneInv, Cascading

\* A put of a unit hides and shows nothing.
LEMMA PutsGone ==
  ASSUME IndInv, NEW t \in Threads, IndexInv(t), GoneInv(t), Puts(t)
  PROVE  GoneInv(t)'
<1>1. CASE DeleteCascadePut(t)
  BY <1>1, DeleteCascadePutGone
<1>2. ASSUME ~ DeleteCascadePut(t) PROVE GoneInv(t)'
  <2>1. /\ GoneTables /\ th[t].op # "reindex" /\ Visible' = Visible
        /\ UNCHANGED <<memory_log, link_overlay, dense_vectors, postings, gone>>
    BY <1>2, PutsKeepVisible, WriteReputEffect, RetrieveTouchPutEffect,
       FeedbackUsagePutEffect, FeedbackEdgePutEffect, FlushKvEffect, SealPutEffect
    DEF Puts, GoneInv, GoneHeld, hist
  <2>2. GoneTables'
    BY <2>1, GoneTablesStep
  <2>3. /\ th'[t].op # "reindex"
        /\ th'[t].pc \notin {"del_next", "remove", "row_put"} \cup Cascading
    BY <1>2, <2>1, WriteReputEffect, RetrieveTouchPutEffect, FeedbackUsagePutEffect,
       FeedbackEdgePutEffect, FlushKvEffect, SealPutEffect
    DEF Puts, Idle, Cascading
  <2> QED BY <2>2, <2>3, NotDeleting DEF GoneInv
<1> QED BY <1>1, <1>2

\* A lone caller that deletes one memory at a time and never reindexes keeps the
\* deleted memories gone, through failed steps and crashes too.
LEMMA NextGone ==
  ASSUME NEW t \in Threads, Threads = {t}, "reindex" \notin Ops, MaxBatch = 1,
         IsFiniteSet(issued), IndInv, IndexInv(t), GoneInv(t), [Next]_vars
  PROVE  GoneInv(t)'
<1>1. CASE WriteStep(t)
  BY <1>1, WriteQuietGone, WritePersistGone, WriteEnrichGone, PutsGone
  DEF WriteStep, WriteQuiet, Puts
<1>2. CASE DeleteStep(t)
  BY <1>2, DeleteStartGone, DeleteNextGone, DeleteRemoveGone, DeleteCascadeGone,
     DeleteCascadeGetGone, DeleteCascadePutGone, DeleteUnindexGone, DeleteUnlinkGone
  DEF DeleteStep
<1>3. CASE RetrieveStep(t)
  BY <1>3, ReadQuietGone, PutsGone DEF RetrieveStep, ReadQuiet, Puts
<1>4. CASE FeedbackStep(t)
  BY <1>4, ReadQuietGone, PutsGone, FeedbackRowGetGone, RowWriteGone
  DEF FeedbackStep, ReadQuiet, Puts, RowWrite
<1>5. CASE ConsolidateStep(t)
  BY <1>5, CycleQuietGone, PutsGone, RowWriteGone
  DEF ConsolidateStep, CycleQuiet, Puts, RowWrite
<1>6. CASE ReindexStep(t)
  BY <1>6, NoReindex
<1>7. CASE Fail(t)
  <2>1. GoneTables'
    BY <1>7, FailEffect DEF GoneInv, GoneTables, Visible, Present, disk
  <2> QED BY <1>7, <2>1, FailEffect, ReturnGone
<1>8. CASE Restart
  <2>1. GoneTables' /\ th'[t] = Idle
    BY <1>8 DEF Restart, GoneInv, GoneTables, Visible, Present, disk
  <2> QED BY <2>1, ReturnGone
<1>9. CASE UNCHANGED vars
  BY <1>9 DEF GoneInv, GoneTables, GoneHeld, FreshSnapshot, Visible, Present, vars, disk, hist
<1> QED BY <1>1, <1>2, <1>3, <1>4, <1>5, <1>6, <1>7, <1>8, <1>9 DEF Next

\* The invariant of deletes, one memory at a time.
LEMMA GoneInvariance ==
  ASSUME NEW t \in Threads, Threads = {t}, "reindex" \notin Ops, MaxBatch = 1
  PROVE  Spec => []GoneInv(t)
<1>1. Init => GoneInv(t)
  BY DEF Init, GoneInv, GoneTables, GoneHeld, Present, Cascading, Idle
<1>2. IsFiniteSet(issued) /\ IndInv /\ IndexInv(t) /\ GoneInv(t) /\ [Next]_vars
        => GoneInv(t)'
  BY NextGone
<1> QED BY <1>1, <1>2, IssuedFinite, Invariance, IndexInvariance, PTL DEF Spec

\* One caller, deletes of one memory, no reindex: between two calls a deleted
\* memory is in no state table, whatever failed or crashed meanwhile.
THEOREM DeletedMemoriesAreGone ==
  ASSUME OneCaller, "reindex" \notin Ops, MaxBatch = 1
  PROVE  Spec => []DeletedIsGone
<1>1. PICK t \in Threads : Threads = {t}
  BY DEF OneCaller
<1>2. IndInv /\ GoneInv(t) => DeletedIsGone
  BY Tables DEF GoneInv, GoneTables, DeletedIsGone, Visible, Present
<1> QED BY <1>1, <1>2, GoneInvariance, Invariance, PTL

-----------------------------------------------------------------------------
(***************************************************************************)
(* Edges to deleted memories.                                              *)
(***************************************************************************)
\* The log holds only ids that have been drawn, and so does a write on its way
\* to the log: a summary's id is new.
Drawn(t) ==
    /\ memory_log \subseteq issued
    /\ th[t].pc \in {"discover", "link", "persist", "summary"} => th[t].cur \in issued
    /\ th[t].pc \in {"cycle", "flush_kv", "flush_row"} => th[t].cur \in issued \cup {None}

\* Every step of a lone caller keeps it so.
LEMMA NextDrawn ==
  ASSUME NEW t \in Threads, Threads = {t}, IndInv, IndexInv(t), Drawn(t),
         [Next]_vars
  PROVE  Drawn(t)'
<1>1. CASE WriteStep(t)
  <2>1. CASE WriteStart(t)
    BY <2>1, WriteStartEffect DEF Drawn, disk, hist, Idle
  <2>2. CASE WriteDiscover(t)
    BY <2>2, WriteDiscoverEffect DEF Drawn, disk, hist, Idle
  <2>3. CASE WriteLink(t)
    <3>1. th[t].pc = "link" /\ th'[t].pc = "persist" /\ UNCHANGED <<disk, hist, th[t].cur>>
      BY <2>3, WriteLinkEffect, Zenon
    <3> QED BY <3>1 DEF Drawn, disk, hist
  <2>4. CASE WritePersist(t)
    <3>1. th[t].pc = "persist" /\ UNCHANGED issued
      BY <2>4, WritePersistEffect DEF hist
    <3>2. memory_log' \subseteq memory_log \cup {th[t].cur}
      BY <2>4, WritePersistEffect DEF PersistUnit, disk
    <3>3. th'[t].pc = "fulltext" \/ th'[t] = Idle
      BY <2>4, WritePersistEffect
    <3> QED BY <3>1, <3>2, <3>3 DEF Drawn, Idle
  <2>5. CASE WriteFulltext(t)
    BY <2>5, WriteFulltextEffect DEF Drawn, disk, hist, Idle
  <2>6. CASE WriteEnrich(t)
    BY <2>6, WriteEnrichEffect DEF Drawn, disk, hist, Idle
  <2>7. CASE WriteReput(t)
    BY <2>7, WriteReputEffect DEF Drawn, disk, hist, Idle
  <2> QED BY <1>1, <2>1, <2>2, <2>3, <2>4, <2>5, <2>6, <2>7 DEF WriteStep
<1>2. CASE DeleteStep(t)
  <2>1. CASE DeleteStart(t)
    BY <2>1, DeleteStartEffect DEF Drawn, disk, hist, Idle
  <2>2. CASE DeleteNext(t)
    BY <2>2, DeleteNextEffect DEF Drawn, disk, hist, Idle
  <2>3. CASE DeleteRemove(t)
    BY <2>3, DeleteRemoveEffect DEF Drawn, disk, hist, Idle
  <2>4. CASE DeleteCascade(t)
    BY <2>4, DeleteCascadeEffect DEF Drawn, disk, hist, Idle
  <2>5. CASE DeleteCascadeGet(t)
    BY <2>5, DeleteCascadeGetEffect DEF Drawn, disk, hist, Idle
  <2>6. CASE DeleteCascadePut(t)
    BY <2>6, DeleteCascadePutEffect DEF Drawn, disk, hist, Idle
  <2>7. CASE DeleteUnindex(t)
    BY <2>7, DeleteUnindexEffect DEF Drawn, disk, hist, Idle
  <2>8. CASE DeleteUnlink(t)
    BY <2>8, DeleteUnlinkEffect DEF Drawn, disk, hist, Idle
  <2> QED BY <1>2, <2>1, <2>2, <2>3, <2>4, <2>5, <2>6, <2>7, <2>8 DEF DeleteStep
<1>3. CASE RetrieveStep(t)
  <2>1. CASE RetrieveStart(t)
    BY <2>1, RetrieveStartEffect DEF Drawn, disk, hist, Idle
  <2>2. CASE RetrieveTouch(t)
    BY <2>2, RetrieveTouchEffect DEF Drawn, disk, hist, Idle
  <2>3. CASE RetrieveTouchPut(t)
    BY <2>3, RetrieveTouchPutEffect DEF Drawn, disk, hist, Idle
  <2> QED BY <1>3, <2>1, <2>2, <2>3 DEF RetrieveStep
<1>4. CASE FeedbackStep(t)
  <2>1. CASE FeedbackStart(t)
    BY <2>1, FeedbackStartEffect DEF Drawn, disk, hist, Idle
  <2>2. CASE FeedbackUsage(t)
    BY <2>2, FeedbackUsageEffect DEF Drawn, disk, hist, Idle
  <2>3. CASE FeedbackUsagePut(t)
    BY <2>3, FeedbackUsagePutEffect DEF Drawn, disk, hist, Idle
  <2>4. CASE FeedbackBind(t)
    BY <2>4, FeedbackBindEffect DEF Drawn, disk, hist, Idle
  <2>5. CASE FeedbackEdgeGet(t)
    BY <2>5, FeedbackEdgeGetEffect DEF Drawn, disk, hist, Idle
  <2>6. CASE FeedbackEdgePut(t)
    BY <2>6, FeedbackEdgePutEffect DEF Drawn, disk, hist, Idle
  <2>7. CASE FeedbackRowGet(t)
    BY <2>7, FeedbackRowGetEffect DEF Drawn, disk, hist, Idle
  <2>8. CASE FeedbackRowPut(t)
    BY <2>8, FeedbackRowPutEffect DEF Drawn, disk, hist, Idle
  <2> QED BY <1>4, <2>1, <2>2, <2>3, <2>4, <2>5, <2>6, <2>7, <2>8 DEF FeedbackStep
<1>5. CASE ConsolidateStep(t)
  <2>1. CASE ConsolidateStart(t)
    BY <2>1, ConsolidateStartEffect DEF Drawn, disk, hist, Idle
  <2>2. CASE ConsolidateCycle(t)
    BY <2>2, ConsolidateCycleEffect DEF Drawn, disk, hist, Idle
  <2>3. CASE ConsolidateCompress(t)
    BY <2>3, ConsolidateCompressEffect DEF Drawn, disk, hist, Idle
  <2>4. CASE FlushKv(t)
    BY <2>4, FlushKvEffect DEF Drawn, disk, hist, Idle
  <2>5. CASE FlushRow(t)
    BY <2>5, FlushRowEffect DEF Drawn, disk, hist, Idle
  <2>6. CASE SummaryWrite(t)
    BY <2>6, SummaryWriteEffect DEF Drawn, disk, hist, Idle
  <2>7. CASE SealRow(t)
    BY <2>7, SealRowEffect DEF Drawn, disk, hist, Idle
  <2>8. CASE SealGet(t)
    <3>1. th'[t].pc = "seal_put" \/ th'[t] = Idle
      BY <2>8, SealGetEffect, Zenon
    <3> QED BY <2>8, <3>1, SealGetEffect DEF Drawn, disk, hist, Idle
  <2>9. CASE SealPut(t)
    BY <2>9, SealPutEffect DEF Drawn, disk, hist, Idle
  <2> QED BY <1>5, <2>1, <2>2, <2>3, <2>4, <2>5, <2>6, <2>7, <2>8, <2>9
          DEF ConsolidateStep
<1>6. CASE ReindexStep(t)
  <2>1. CASE ReindexStart(t)
    BY <2>1, ReindexStartEffect DEF Drawn, disk, hist, Idle
  <2>2. CASE ReindexClear(t)
    BY <2>2, ReindexClearEffect DEF Drawn, disk, hist, Idle
  <2>3. CASE ReindexFulltext(t)
    BY <2>3, ReindexFulltextEffect DEF Drawn, disk, hist, Idle
  <2>4. CASE ReindexRam(t)
    BY <2>4, ReindexRamEffect DEF Drawn, disk, hist, Idle
  <2>5. CASE ReindexNext(t)
    <3>1. th[t].op = "reindex"
      BY <2>5, ReindexNextEffect DEF IndexInv, Replaying
    <3>2. th[t].todo \subseteq memory_log
      BY <3>1, ThreadFacts DEF IndInv, Carries
    <3> QED BY <2>5, <3>2, ReindexNextEffect DEF Drawn, disk, hist, Idle
  <2> QED BY <1>6, <2>1, <2>2, <2>3, <2>4, <2>5 DEF ReindexStep
<1>7. CASE Fail(t)
  BY <1>7, FailEffect DEF Drawn, disk, Idle
<1>8. CASE Restart
  BY <1>8 DEF Restart, Drawn, disk, Idle
<1>9. CASE UNCHANGED vars
  BY <1>9 DEF vars, disk, hist, Drawn
<1> QED BY <1>1, <1>2, <1>3, <1>4, <1>5, <1>6, <1>7, <1>8, <1>9 DEF Next

\* The invariant of drawn ids.
LEMMA DrawnInvariance ==
  ASSUME NEW t \in Threads, Threads = {t}
  PROVE  Spec => []Drawn(t)
<1>1. Init => Drawn(t)
  BY DEF Init, Drawn, Idle
<1>2. IndInv /\ IndexInv(t) /\ Drawn(t) /\ [Next]_vars => Drawn(t)'
  BY NextDrawn
<1> QED BY <1>1, <1>2, Invariance, IndexInvariance, PTL DEF Spec

\* A list of links leads to a deleted memory only if it is co-activated.
Clear(l) == Targets(l) \cap gone \subseteq Hot

\* Where a thread holds a unit to put, and where a loaded snapshot.
Buffered == {"persist", "fulltext", "enrich", "reput", "casc_put", "touch_put",
             "usage_put", "edge_put", "seal_put"}
Loaded == {"remove", "cascade", "casc_get", "casc_put", "cycle", "flush_kv", "flush_row"}

\* Neither the unit nor the row of y leads to x.
Free(x, y) == /\ memory_kv[y] # None => x \notin Targets(memory_kv[y].links)
              /\ link_overlay[y] # None => x \notin Targets(link_overlay[y])

\* All units and rows are clear of deleted memories ...
CutTables ==
    \A x \in Ids : /\ memory_kv[x] # None => Clear(memory_kv[x].links)
                   /\ link_overlay[x] # None => Clear(link_overlay[x])

\* ... and so is what a thread will write ...
CutHeld(r) ==
    /\ r.pc \in Buffered => Clear(r.buf.links)
    /\ r.pc \in Loaded => \A x \in Ids : r.snap[x] # None => Clear(r.snap[x].links)
    /\ r.pc = "row_put" => Clear(r.row)

\* ... while a cascade frees one memory after the other of links to its victim.
CutVictim(r) ==
    /\ r.pc \in Cascading => \A y \in Ids \ r.scan : Free(r.cur, y)
    /\ r.pc \in {"casc_get", "casc_put"} => \A y \in r.scan : 
            Least(y, r.scan) /\ link_overlay[y] # None => r.cur \notin Targets(link_overlay[y])
    /\ r.pc = "casc_put" => r.cur \notin Targets(r.buf.links)
    /\ r.pc \in {"unindex", "unlink"} => r.scan = {}

\* The invariant of the cascade.
CutInv(t) == CutTables /\ CutHeld(th[t]) /\ CutVictim(th[t])

\* Rows of feedback are only added, so a co-activated memory stays one.
LEMMA HotGrows ==
  ASSUME activation_log \subseteq activation_log'
  PROVE  Hot \subseteq Hot'
BY DEF Hot

\* What has become clear before the step is clear after it.
LEMMA ClearStays ==
  ASSUME UNCHANGED gone, Hot \subseteq Hot', NEW l, Clear(l)
  PROVE  Targets(l) \cap gone' \subseteq Hot'
BY DEF Clear

\* The tables stay clear if what is written is.
LEMMA TablesCut ==
  ASSUME CutTables, UNCHANGED gone, activation_log \subseteq activation_log',
         \A x \in Ids : /\ \/ memory_kv'[x] \in {None, memory_kv[x]}
                           \/ Clear(memory_kv'[x].links)
                        /\ \/ link_overlay'[x] \in {None, link_overlay[x]}
                           \/ Clear(link_overlay'[x])
  PROVE  CutTables'
<1>1. Hot \subseteq Hot'
  BY HotGrows
<1>2. ASSUME NEW x \in Ids, memory_kv'[x] # None
      PROVE  Targets(memory_kv'[x].links) \cap gone' \subseteq Hot'
  <2>1. Clear(memory_kv'[x].links)
    BY <1>2 DEF CutTables
  <2> QED BY <1>1, <2>1, ClearStays
<1>3. ASSUME NEW x \in Ids, link_overlay'[x] # None
      PROVE  Targets(link_overlay'[x]) \cap gone' \subseteq Hot'
  <2>1. Clear(link_overlay'[x])
    BY <1>3 DEF CutTables
  <2> QED BY <1>1, <2>1, ClearStays
<1> QED BY <1>2, <1>3 DEF CutTables, Clear

\* A thread outside delete: what it holds is clear.
LEMMA HeldCut ==
  ASSUME NEW t \in Threads, UNCHANGED gone, activation_log \subseteq activation_log',
         th'[t].pc \notin Cascading,
         th'[t].pc \in Buffered => Clear(th'[t].buf.links),
         th'[t].pc \in Loaded =>
            \A x \in Ids : th'[t].snap[x] # None => Clear(th'[t].snap[x].links),
         th'[t].pc = "row_put" => Clear(th'[t].row)
  PROVE  CutHeld(th[t])' /\ CutVictim(th[t])'
<1>1. Hot \subseteq Hot'
  BY HotGrows
<1>2. th'[t].pc \in Buffered => Targets(th'[t].buf.links) \cap gone' \subseteq Hot'
  BY <1>1, ClearStays
<1>3. th'[t].pc \in Loaded =>
        \A x \in Ids : th'[t].snap[x] # None
                         => Targets(th'[t].snap[x].links) \cap gone' \subseteq Hot'
  BY <1>1, ClearStays
<1>4. th'[t].pc = "row_put" => Targets(th'[t].row) \cap gone' \subseteq Hot'
  BY <1>1, ClearStays
<1>5. CutHeld(th[t])'
  BY <1>2, <1>3, <1>4 DEF CutHeld, Clear
<1>6. CutVictim(th[t])'
  BY DEF CutVictim, Cascading
<1> QED BY <1>5, <1>6

\* A thread that holds nothing.
LEMMA NothingHeld ==
  ASSUME NEW t \in Threads,
         th'[t].pc \notin Cascading \cup Buffered \cup Loaded \cup {"row_put"}
  PROVE  CutHeld(th[t])' /\ CutVictim(th[t])'
BY DEF CutHeld, CutVictim, Cascading

\* The steps that write no unit and no row, and hold none afterwards ...
EmptyHanded(t) == \/ WriteStart(t) \/ WriteDiscover(t) \/ RetrieveStart(t)
                  \/ FeedbackStart(t) \/ FeedbackBind(t) \/ SummaryWrite(t)

\* ... draw no edge.
LEMMA EmptyHandedCut ==
  ASSUME IndInv, NEW t \in Threads, IndexInv(t), CutInv(t), EmptyHanded(t)
  PROVE  CutInv(t)'
<1>1. /\ UNCHANGED <<memory_kv, link_overlay, gone>>
      /\ activation_log \subseteq activation_log'
  <2>1. CASE WriteStart(t)
    BY <2>1, WriteStartEffect DEF disk, hist
  <2>2. CASE WriteDiscover(t)
    BY <2>2, WriteDiscoverEffect DEF disk, hist
  <2>3. CASE RetrieveStart(t)
    BY <2>3, RetrieveStartEffect DEF disk, hist
  <2>4. CASE FeedbackStart(t)
    BY <2>4, FeedbackStartEffect DEF disk, hist
  <2>5. CASE FeedbackBind(t)
    BY <2>5, FeedbackBindEffect DEF disk, hist
  <2>6. CASE SummaryWrite(t)
    BY <2>6, SummaryWriteEffect DEF disk, hist
  <2> QED BY <2>1, <2>2, <2>3, <2>4, <2>5, <2>6 DEF EmptyHanded
<1>2. th'[t].pc \in {"idle", "discover", "link", "touch", "usage", "edge_get"}
  <2>1. CASE WriteStart(t)
    BY <2>1, WriteStartEffect DEF Idle
  <2>2. CASE WriteDiscover(t)
    BY <2>2, WriteDiscoverEffect DEF Idle
  <2>3. CASE RetrieveStart(t)
    BY <2>3, RetrieveStartEffect DEF Idle
  <2>4. CASE FeedbackStart(t)
    BY <2>4, FeedbackStartEffect DEF Idle
  <2>5. CASE FeedbackBind(t)
    BY <2>5, FeedbackBindEffect DEF Idle
  <2>6. CASE SummaryWrite(t)
    BY <2>6, SummaryWriteEffect DEF Idle
  <2> QED BY <2>1, <2>2, <2>3, <2>4, <2>5, <2>6 DEF EmptyHanded
<1>3. CutTables'
  BY <1>1, TablesCut DEF CutInv
<1>4. CutHeld(th[t])' /\ CutVictim(th[t])'
  BY <1>2, NothingHeld DEF Cascading, Buffered, Loaded
<1> QED BY <1>3, <1>4 DEF CutInv

\* Linking picks candidates that are there, hence not deleted.
LEMMA WriteLinkCut ==
  ASSUME IndInv, NEW t \in Threads, IndexInv(t), GoneInv(t), CutInv(t), WriteLink(t)
  PROVE  CutInv(t)'
<1>1. /\ UNCHANGED <<memory_kv, link_overlay, gone, activation_log>>
      /\ th'[t].pc = "persist" /\ th[t].scan \subseteq Ids
  BY WriteLinkEffect, Locals DEF disk, hist
<1>2. PICK S \in SUBSET {x \in th[t].scan : Present(x)} :
        th'[t].buf = NewUnit({[to |-> x, lvl |-> 1] : x \in S})
  BY WriteLinkEffect
<1>3. PICK l : l = {[to |-> x, lvl |-> 1] : x \in S}
  OBVIOUS
<1>4. Targets(l) = S /\ S \cap gone = {}
  BY <1>3, FreshTargets DEF GoneInv, GoneTables
<1>5. Clear(th'[t].buf.links)
  <2>1. th'[t].buf.links = l
    BY <1>2, <1>3 DEF NewUnit
  <2> QED BY <1>4, <2>1 DEF Clear
<1>6. CutTables'
  BY <1>1, TablesCut DEF CutInv
<1>7. CutHeld(th[t])' /\ CutVictim(th[t])'
  BY <1>1, <1>5, HeldCut DEF Cascading, Loaded
<1> QED BY <1>6, <1>7 DEF CutInv

\* The new unit and its row are those links.
LEMMA WritePersistCut ==
  ASSUME IndInv, NEW t \in Threads, IndexInv(t), CutInv(t), WritePersist(t)
  PROVE  CutInv(t)'
<1>1. th[t].cur \in Ids /\ th[t].buf # None /\ th[t].pc = "persist" /\ UNCHANGED gone
  BY WritePersistEffect, Locals DEF hist
<1>2. Clear(th[t].buf.links)
  BY <1>1 DEF CutInv, CutHeld, Buffered
<1>3. CASE th'[t].pc = "fulltext" /\ PersistUnit(t) /\ UNCHANGED <<activation_log, th[t].buf>>
  <2>1. \A x \in Ids : IF x = th[t].cur
                       THEN memory_kv'[x] = th[t].buf /\ link_overlay'[x] = th[t].buf.links
                       ELSE memory_kv'[x] = memory_kv[x] /\ link_overlay'[x] = link_overlay[x]
    BY <1>1, <1>3, Tables DEF PersistUnit
  <2>2. \A x \in Ids : /\ memory_kv'[x] = memory_kv[x] \/ Clear(memory_kv'[x].links)
                       /\ link_overlay'[x] = link_overlay[x] \/ Clear(link_overlay'[x])
    BY <1>2, <2>1
  <2>3. CutTables'
    BY <1>1, <1>3, <2>2, TablesCut DEF CutInv
  <2>4. CutHeld(th[t])' /\ CutVictim(th[t])'
    BY <1>1, <1>2, <1>3, HeldCut DEF Cascading, Loaded
  <2> QED BY <2>3, <2>4 DEF CutInv
<1>4. CASE th'[t] = Idle /\ UNCHANGED disk
  <2>1. CutTables'
    BY <1>1, <1>4, TablesCut DEF CutInv, disk
  <2>2. CutHeld(th[t])' /\ CutVictim(th[t])'
    BY <1>4, NothingHeld DEF Idle, Cascading, Buffered, Loaded
  <2> QED BY <2>1, <2>2 DEF CutInv
<1> QED BY <1>3, <1>4, WritePersistEffect

\* The steps of the pipeline between persist and the second put ...
Enriching(t) == WriteFulltext(t) \/ WriteEnrich(t)

\* ... keep the unit they hold.
LEMMA EnrichingCut ==
  ASSUME IndInv, NEW t \in Threads, IndexInv(t), CutInv(t), Enriching(t)
  PROVE  CutInv(t)'
<1>1. /\ UNCHANGED <<memory_kv, link_overlay, gone, activation_log, th[t].buf>>
      /\ th[t].pc \in {"fulltext", "enrich"} /\ th'[t].pc \in {"enrich", "reput"}
  BY WriteFulltextEffect, WriteEnrichEffect DEF Enriching, hist
<1>2. Clear(th'[t].buf.links)
  BY <1>1 DEF CutInv, CutHeld, Buffered
<1>3. CutTables'
  BY <1>1, TablesCut DEF CutInv
<1>4. CutHeld(th[t])' /\ CutVictim(th[t])'
  BY <1>1, <1>2, HeldCut DEF Cascading, Loaded
<1> QED BY <1>3, <1>4 DEF CutInv

\* The steps that put a held unit and drop it ...
Drops(t) == \/ WriteReput(t) \/ RetrieveTouchPut(t) \/ FeedbackUsagePut(t)
            \/ FeedbackEdgePut(t) \/ SealPut(t)

\* ... put a clear one.
LEMMA DropsCut ==
  ASSUME IndInv, NEW t \in Threads, IndexInv(t), CutInv(t), Drops(t)
  PROVE  CutInv(t)'
<1>1. /\ UNCHANGED <<link_overlay, gone, activation_log>>
      /\ th[t].pc \in Buffered
  BY WriteReputEffect, RetrieveTouchPutEffect, FeedbackUsagePutEffect,
     FeedbackEdgePutEffect, SealPutEffect
  DEF Drops, hist, Buffered
<1>2. PICK y \in Ids : memory_kv' = [memory_kv EXCEPT ![y] = th[t].buf]
  BY WriteReputEffect, RetrieveTouchPutEffect, FeedbackUsagePutEffect,
     FeedbackEdgePutEffect, SealPutEffect, Locals
  DEF Drops
<1>3. Clear(th[t].buf.links)
  BY <1>1 DEF CutInv, CutHeld
<1>4. \A x \in Ids : memory_kv'[x] = memory_kv[x] \/ Clear(memory_kv'[x].links)
  BY <1>2, <1>3, Tables
<1>5. CutTables'
  BY <1>1, <1>4, TablesCut DEF CutInv
<1>6. th'[t].pc \in {"idle", "re_next", "seal_row", "touch", "usage", "row_get"}
  <2>1. CASE WriteReput(t)
    BY <2>1, WriteReputEffect DEF Idle
  <2>2. CASE RetrieveTouchPut(t)
    BY <2>2, RetrieveTouchPutEffect DEF Idle
  <2>3. CASE FeedbackUsagePut(t)
    BY <2>3, FeedbackUsagePutEffect DEF Idle
  <2>4. CASE FeedbackEdgePut(t)
    BY <2>4, FeedbackEdgePutEffect DEF Idle
  <2>5. CASE SealPut(t)
    BY <2>5, SealPutEffect DEF Idle
  <2> QED BY <2>1, <2>2, <2>3, <2>4, <2>5 DEF Drops
<1>7. CutHeld(th[t])' /\ CutVictim(th[t])'
  BY <1>6, NothingHeld DEF Cascading, Buffered, Loaded
<1> QED BY <1>5, <1>7 DEF CutInv

\* A retrieval puts back the unit it has read ...
LEMMA RetrieveTouchCut ==
  ASSUME IndInv, NEW t \in Threads, IndexInv(t), CutInv(t), RetrieveTouch(t)
  PROVE  CutInv(t)'
<1>1. UNCHANGED <<memory_kv, link_overlay, gone, activation_log>>
  BY RetrieveTouchEffect DEF disk, hist
<1>2. CutTables'
  BY <1>1, TablesCut DEF CutInv
<1>3. CASE th'[t] = Idle \/ th'[t].pc = "touch"
  BY <1>2, <1>3, NothingHeld DEF CutInv, Idle, Cascading, Buffered, Loaded
<1>4. ASSUME NEW x \in th[t].todo, Present(x), th'[t].pc = "touch_put",
             th'[t].buf = memory_kv[x]
      PROVE  CutInv(t)'
  <2>1. Clear(th'[t].buf.links)
    BY <1>4, RetrieveTouchEffect, Locals DEF CutInv, CutTables, Present
  <2> QED BY <1>1, <1>2, <1>4, <2>1, HeldCut DEF CutInv, Cascading, Loaded
<1> QED BY <1>3, <1>4, RetrieveTouchEffect

\* ... and feedback one with another usage.
LEMMA FeedbackUsageCut ==
  ASSUME IndInv, NEW t \in Threads, IndexInv(t), CutInv(t), FeedbackUsage(t)
  PROVE  CutInv(t)'
<1>1. UNCHANGED <<memory_kv, link_overlay, gone, activation_log>>
  BY FeedbackUsageEffect DEF disk, hist
<1>2. CutTables'
  BY <1>1, TablesCut DEF CutInv
<1>3. CASE th'[t] = Idle \/ th'[t].pc \in {"usage", "bind"}
  BY <1>2, <1>3, NothingHeld DEF CutInv, Idle, Cascading, Buffered, Loaded
<1>4. ASSUME NEW x \in th[t].todo, Present(x), th'[t].pc = "usage_put",
             th'[t].buf = Adjust(memory_kv[x], th[t].pos)
      PROVE  CutInv(t)'
  <2>1. x \in Ids /\ memory_kv[x] \in Unit /\ Clear(memory_kv[x].links)
    BY <1>4, Locals, Tables DEF CutInv, CutTables, Present
  <2>2. Clear(th'[t].buf.links)
    BY <1>4, <2>1, AdjustLinks
  <2> QED BY <1>1, <1>2, <1>4, <2>2, HeldCut DEF CutInv, Cascading, Loaded
<1> QED BY <1>3, <1>4, FeedbackUsageEffect

\* A strengthened edge leads where it led, in the unit ...
LEMMA FeedbackEdgeGetCut ==
  ASSUME IndInv, NEW t \in Threads, IndexInv(t), CutInv(t), FeedbackEdgeGet(t)
  PROVE  CutInv(t)'
<1>1. UNCHANGED <<memory_kv, link_overlay, gone, activation_log>>
  BY FeedbackEdgeGetEffect DEF disk, hist
<1>2. CutTables'
  BY <1>1, TablesCut DEF CutInv
<1>3. CASE th'[t].pc = "row_get"
  BY <1>2, <1>3, NothingHeld DEF CutInv, Cascading, Buffered, Loaded
<1>4. CASE /\ PointsAt(memory_kv[th[t].path[1]], th[t].path[2])
           /\ th'[t].pc = "edge_put"
           /\ th'[t].buf = [memory_kv[th[t].path[1]] EXCEPT !.links = Raise(@, th[t].path[2])]
  <2>1. th[t].path[1] \in Ids
    BY FeedbackEdgeGetEffect, Locals
  <2>2. /\ memory_kv[th[t].path[1]] \in Unit
        /\ Clear(memory_kv[th[t].path[1]].links)
    BY <1>4, <2>1, Tables DEF PointsAt, CutInv, CutTables
  <2>3. PICK l : l = Raise(memory_kv[th[t].path[1]].links, th[t].path[2])
    OBVIOUS
  <2>4. Targets(l) = Targets(memory_kv[th[t].path[1]].links)
    BY <2>2, <2>3, RaiseTargets DEF Unit
  <2>5. th'[t].buf.links = l
    BY <1>4, <2>2, <2>3 DEF Unit
  <2>6. Clear(th'[t].buf.links)
    BY <2>2, <2>4, <2>5 DEF Clear
  <2> QED BY <1>1, <1>2, <1>4, <2>6, HeldCut DEF CutInv, Cascading, Loaded
<1> QED BY <1>3, <1>4, FeedbackEdgeGetEffect

\* ... and in the row.
LEMMA FeedbackRowGetCut ==
  ASSUME IndInv, NEW t \in Threads, IndexInv(t), CutInv(t), FeedbackRowGet(t)
  PROVE  CutInv(t)'
<1>1. UNCHANGED <<memory_kv, link_overlay, gone, activation_log>>
  BY FeedbackRowGetEffect DEF disk, hist
<1>2. CutTables'
  BY <1>1, TablesCut DEF CutInv
<1>3. CASE th'[t] = Idle
  BY <1>2, <1>3, NothingHeld DEF CutInv, Idle, Cascading, Buffered, Loaded
<1>4. CASE /\ link_overlay[th[t].path[1]] # None /\ th'[t].pc = "row_put"
           /\ th'[t].row = Raise(link_overlay[th[t].path[1]], th[t].path[2])
  <2>1. th[t].path[1] \in Ids
    BY FeedbackRowGetEffect, Locals
  <2>2. /\ link_overlay[th[t].path[1]] \in SUBSET Edge
        /\ Clear(link_overlay[th[t].path[1]])
    BY <1>4, <2>1, Tables DEF CutInv, CutTables
  <2>3. Targets(th'[t].row) = Targets(link_overlay[th[t].path[1]])
    BY <1>4, <2>2, RaiseTargets
  <2>4. Clear(th'[t].row)
    BY <2>2, <2>3 DEF Clear
  <2> QED BY <1>1, <1>2, <1>4, <2>4, HeldCut DEF CutInv, Cascading, Buffered, Loaded
<1> QED BY <1>3, <1>4, FeedbackRowGetEffect

\* The row is written back.
LEMMA FeedbackRowPutCut ==
  ASSUME IndInv, NEW t \in Threads, IndexInv(t), CutInv(t), FeedbackRowPut(t)
  PROVE  CutInv(t)'
<1>1. /\ th[t].pc = "row_put" /\ th'[t] = Idle /\ th[t].path[1] \in Ids
      /\ UNCHANGED <<memory_kv, gone, activation_log>>
      /\ link_overlay' = [link_overlay EXCEPT ![th[t].path[1]] = th[t].row]
  BY FeedbackRowPutEffect, Locals DEF hist
<1>2. Clear(th[t].row)
  BY <1>1 DEF CutInv, CutHeld
<1>3. \A x \in Ids : link_overlay'[x] = link_overlay[x] \/ Clear(link_overlay'[x])
  BY <1>1, <1>2, Tables
<1>4. CutTables'
  BY <1>1, <1>3, TablesCut DEF CutInv
<1> QED BY <1>1, <1>4, NothingHeld DEF CutInv, Idle, Cascading, Buffered, Loaded

\* A cycle starts from clear units ...
LEMMA ConsolidateStartCut ==
  ASSUME IndInv, NEW t \in Threads, IndexInv(t), CutInv(t), ConsolidateStart(t)
  PROVE  CutInv(t)'
<1>1. UNCHANGED <<memory_kv, link_overlay, gone, activation_log>>
  BY ConsolidateStartEffect DEF disk
<1>2. CutTables'
  BY <1>1, TablesCut DEF CutInv
<1>3. /\ th'[t].pc = "cycle"
      /\ \A x \in Ids : th'[t].snap[x] # None => th'[t].snap[x] = memory_kv[x]
  BY ConsolidateStartEffect DEF FreshSnapshot
<1>4. \A x \in Ids : th'[t].snap[x] # None => Clear(th'[t].snap[x].links)
  BY <1>3 DEF CutInv, CutTables
<1> QED BY <1>1, <1>2, <1>3, <1>4, HeldCut DEF CutInv, Cascading, Buffered

\* ... and draws edges to co-activated memories ...
LEMMA ConsolidateCycleCut ==
  ASSUME IndInv, NEW t \in Threads, IndexInv(t), CutInv(t), ConsolidateCycle(t)
  PROVE  CutInv(t)'
<1>1. /\ UNCHANGED <<memory_kv, link_overlay, gone, activation_log>>
      /\ th[t].pc = "cycle" /\ th'[t].pc = "flush_kv" /\ th[t].snap \in Table
  BY ConsolidateCycleEffect, Locals DEF disk, hist
<1>2. CutTables'
  BY <1>1, TablesCut DEF CutInv
<1>3. PICK c \in CycleInputs, age \in 0..2 :
        th'[t].snap = AfterCycle(th[t].snap, c, age, {}, None)
  BY ConsolidateCycleEffect
<1>4. \A x \in Ids : th'[t].snap[x] # None => th[t].snap[x] # None
  BY <1>1, <1>3, CycleKeepsUnits
<1>5. ASSUME NEW x \in Ids, th'[t].snap[x] # None
      PROVE  Clear(th'[t].snap[x].links)
  <2>1. th[t].snap[x] # None /\ Clear(th[t].snap[x].links) /\ {} \in SUBSET Ids
    BY <1>1, <1>4, <1>5 DEF CutInv, CutHeld, Loaded
  <2>2. Derives(AfterCycle(th[t].snap, c, age, {}, None)[x], th[t].snap[x],
                IF {} = {} THEN {} ELSE {None})
    BY <1>1, <2>1, CycleTargets
  <2>3. Derives(th'[t].snap[x], th[t].snap[x], {})
    BY <1>3, <2>2
  <2> QED BY <2>1, <2>3 DEF Derives, Clear
<1>6. CutHeld(th[t])' /\ CutVictim(th[t])'
  BY <1>1, <1>5, HeldCut DEF Cascading, Buffered
<1> QED BY <1>2, <1>6 DEF CutInv

\* ... and to the summary, whose id no deleted memory has.
LEMMA ConsolidateCompressCut ==
  ASSUME IndInv, NEW t \in Threads, IndexInv(t), GoneInv(t), Drawn(t),
         CutInv(t), ConsolidateCompress(t)
  PROVE  CutInv(t)'
<1>1. /\ UNCHANGED <<memory_kv, link_overlay, gone, activation_log>>
      /\ th[t].pc = "cycle" /\ th'[t].pc = "flush_kv" /\ th[t].snap \in Table
  BY ConsolidateCompressEffect, Locals DEF disk, hist
<1>2. CutTables'
  BY <1>1, TablesCut DEF CutInv
<1>3. PICK c \in CycleInputs, age \in 0..2, C \in SUBSET Ids, s \in Ids :
        s \notin issued /\ th'[t].snap = AfterCycle(th[t].snap, c, age, C, s)
  <2>1. PICK c \in CycleInputs, age \in 0..2, C \in SUBSET Ids :
          th'[t].snap = AfterCycle(th[t].snap, c, age, C, th'[t].cur)
    BY ConsolidateCompressEffect
  <2>2. PICK s \in Ids : s \notin issued /\ s = th'[t].cur
    BY ConsolidateCompressEffect
  <2>3. th'[t].snap = AfterCycle(th[t].snap, c, age, C, s)
    BY <2>1, <2>2
  <2> QED BY <2>2, <2>3, Zenon
<1>4. \A x \in Ids : th'[t].snap[x] # None => th[t].snap[x] # None
  <2>1. \A x \in Ids : AfterCycle(th[t].snap, c, age, C, s)[x] # None
                         <=> th[t].snap[x] # None
    BY <1>1, CompressKeepsUnits, ZenonT(40)
  <2> QED BY <1>3, <2>1
<1>5. ASSUME NEW x \in Ids, th'[t].snap[x] # None
      PROVE  Clear(th'[t].snap[x].links)
  <2>1. th[t].snap[x] # None /\ Clear(th[t].snap[x].links) /\ s \notin gone
    BY <1>1, <1>3, <1>4, <1>5 DEF CutInv, CutHeld, Loaded, Drawn, GoneInv, GoneTables
  <2>2. Derives(AfterCycle(th[t].snap, c, age, C, s)[x], th[t].snap[x],
                IF C = {} THEN {} ELSE {s})
    BY <1>1, <2>1, CycleTargets
  <2>3. Derives(th'[t].snap[x], th[t].snap[x], IF C = {} THEN {} ELSE {s})
    BY <1>3, <2>2
  <2> QED BY <2>1, <2>3 DEF Derives, Clear
<1>6. CutHeld(th[t])' /\ CutVictim(th[t])'
  BY <1>1, <1>5, HeldCut DEF Cascading, Buffered
<1> QED BY <1>2, <1>6 DEF CutInv

\* The copies are put back ...
LEMMA FlushKvCut ==
  ASSUME IndInv, NEW t \in Threads, IndexInv(t), CutInv(t), FlushKv(t)
  PROVE  CutInv(t)'
<1>1. /\ th[t].pc = "flush_kv" /\ UNCHANGED <<link_overlay, gone, activation_log>>
      /\ th[t].todo \subseteq Ids
  BY FlushKvEffect, Locals DEF hist
<1>2. \A x \in Ids : th[t].snap[x] # None => Clear(th[t].snap[x].links)
  BY <1>1 DEF CutInv, CutHeld, Loaded
<1>3. \A x \in th[t].todo : th[t].snap[x] # None
  BY <1>1, Locals, EngineAssumption
<1>4. \A x \in Ids : memory_kv'[x] = memory_kv[x] \/ Clear(memory_kv'[x].links)
  BY <1>1, <1>2, <1>3, FlushKvEffect, Tables
<1>5. CutTables'
  BY <1>1, <1>4, TablesCut DEF CutInv
<1>6. \/ th'[t].pc \in {"idle", "summary"}
      \/ th'[t].pc = "flush_row" /\ UNCHANGED <<th[t].snap>>
  BY FlushKvEffect DEF Idle
<1>7. CASE th'[t].pc \in {"idle", "summary"}
  BY <1>5, <1>7, NothingHeld DEF CutInv, Cascading, Buffered, Loaded
<1>8. CASE th'[t].pc = "flush_row" /\ UNCHANGED <<th[t].snap>>
  BY <1>1, <1>2, <1>5, <1>8, HeldCut DEF CutInv, Cascading, Buffered
<1> QED BY <1>6, <1>7, <1>8

\* ... each with its row.
LEMMA FlushRowCut ==
  ASSUME IndInv, NEW t \in Threads, IndexInv(t), CutInv(t), FlushRow(t)
  PROVE  CutInv(t)'
<1>1. /\ th[t].pc = "flush_row" /\ UNCHANGED <<memory_kv, gone, activation_log>>
      /\ th[t].todo \subseteq Ids /\ th'[t].pc = "flush_kv" /\ UNCHANGED <<th[t].snap>>
  BY FlushRowEffect, Locals DEF hist
<1>2. \A x \in Ids : th[t].snap[x] # None => Clear(th[t].snap[x].links)
  BY <1>1 DEF CutInv, CutHeld, Loaded
<1>3. \A x \in th[t].todo : th[t].snap[x] # None
  BY <1>1, Locals, EngineAssumption
<1>4. \A x \in Ids : link_overlay'[x] = link_overlay[x] \/ Clear(link_overlay'[x])
  BY <1>1, <1>2, <1>3, FlushRowEffect, Tables
<1>5. CutTables'
  BY <1>1, <1>4, TablesCut DEF CutInv
<1> QED BY <1>1, <1>2, <1>5, HeldCut DEF CutInv, Cascading, Buffered

\* A summary has no edges of its own, in the row ...
LEMMA SealRowCut ==
  ASSUME IndInv, NEW t \in Threads, IndexInv(t), CutInv(t), SealRow(t)
  PROVE  CutInv(t)'
<1>1. /\ th'[t].pc = "seal_get" /\ UNCHANGED <<memory_kv, gone, activation_log>>
      /\ th[t].cur \in Ids /\ link_overlay' = [link_overlay EXCEPT ![th[t].cur] = {}]
  BY SealRowEffect, Locals DEF hist
<1>2. Clear({})
  BY DEF Clear, Targets
<1>3. \A x \in Ids : link_overlay'[x] = link_overlay[x] \/ Clear(link_overlay'[x])
  BY <1>1, <1>2, Tables
<1>4. CutTables'
  BY <1>1, <1>3, TablesCut DEF CutInv
<1> QED BY <1>1, <1>4, NothingHeld DEF CutInv, Cascading, Buffered, Loaded

\* ... and in the unit.
LEMMA SealGetCut ==
  ASSUME IndInv, NEW t \in Threads, IndexInv(t), CutInv(t), SealGet(t)
  PROVE  CutInv(t)'
<1>1. UNCHANGED <<memory_kv, link_overlay, gone, activation_log>>
  BY SealGetEffect DEF disk, hist
<1>2. CutTables'
  BY <1>1, TablesCut DEF CutInv
<1>3. CASE th'[t] = Idle
  BY <1>2, <1>3, NothingHeld DEF CutInv, Idle, Cascading, Buffered, Loaded
<1>4. CASE /\ Present(th[t].cur) /\ th'[t].pc = "seal_put"
           /\ th'[t].buf = [memory_kv[th[t].cur] EXCEPT !.links = {}, !.gen = "cons"]
  <2>1. memory_kv[th[t].cur] \in Unit
    BY <1>4, SealGetEffect, Locals, Tables DEF Present
  <2>2. th'[t].buf.links = {}
    BY <1>4, <2>1 DEF Unit
  <2>3. Clear(th'[t].buf.links)
    BY <2>2 DEF Clear, Targets
  <2> QED BY <1>1, <1>2, <1>4, <2>3, HeldCut DEF CutInv, Cascading, Loaded
<1> QED BY <1>3, <1>4, SealGetEffect

\* A delete starts from the table ...
LEMMA DeleteStartCut ==
  ASSUME IndInv, NEW t \in Threads, IndexInv(t), CutInv(t), DeleteStart(t)
  PROVE  CutInv(t)'
<1>1. /\ th'[t].pc = "del_next"
      /\ UNCHANGED <<memory_kv, link_overlay, gone, activation_log>>
  BY DeleteStartEffect DEF disk
<1>2. CutTables'
  BY <1>1, TablesCut DEF CutInv
<1> QED BY <1>1, <1>2, NothingHeld DEF CutInv, Cascading, Buffered, Loaded

\* ... which still is the snapshot when a victim is found.
LEMMA DeleteNextCut ==
  ASSUME IndInv, NEW t \in Threads, IndexInv(t), GoneInv(t), CutInv(t), DeleteNext(t)
  PROVE  CutInv(t)'
<1>1. UNCHANGED <<memory_kv, link_overlay, gone, activation_log>>
  BY DeleteNextEffect DEF disk, hist
<1>2. CutTables'
  BY <1>1, TablesCut DEF CutInv
<1>3. CASE th'[t] = Idle \/ th'[t].pc = "del_next"
  BY <1>2, <1>3, NothingHeld DEF CutInv, Idle, Cascading, Buffered, Loaded
<1>4. ASSUME NEW x \in th[t].todo, th'[t].pc = "remove", UNCHANGED <<th[t].snap>>
      PROVE  CutInv(t)'
  <2>1. FreshSnapshot(th[t].snap)
    BY DeleteNextEffect DEF GoneInv, GoneHeld
  <2>2. \A y \in Ids : th'[t].snap[y] # None => Clear(th'[t].snap[y].links)
    BY <1>4, <2>1 DEF CutInv, CutTables, FreshSnapshot
  <2> QED BY <1>1, <1>2, <1>4, <2>2, HeldCut DEF CutInv, Cascading, Buffered
<1> QED BY <1>3, <1>4, DeleteNextEffect

\* The snapshot names every memory with an edge to the victim, in its unit or row.
LEMMA DeleteRemoveCut ==
  ASSUME IndInv, NEW t \in Threads, IndexInv(t), OverlayInv(t),
         GoneInv(t), CutInv(t), DeleteRemove(t), MaxFaults = 0
  PROVE  CutInv(t)'
<1>1. /\ th[t].pc = "remove" /\ th[t].cur \in Ids /\ th[t].snap = memory_kv
      /\ th'[t].pc = "cascade" /\ UNCHANGED <<th[t].cur, th[t].snap>>
      /\ th'[t].scan = {y \in Ids \ {th[t].cur} : PointsAt(th[t].snap[y], th[t].cur)}
      /\ UNCHANGED <<gone, activation_log>>
  BY DeleteRemoveEffect, Locals DEF hist, GoneInv, GoneHeld, FreshSnapshot
<1>2. /\ \A x \in Ids : memory_kv'[x] = IF x = th[t].cur THEN None ELSE memory_kv[x]
      /\ \A x \in Ids : link_overlay'[x] = IF x = th[t].cur THEN None ELSE link_overlay[x]
  BY <1>1, DeleteRemoveEffect, Tables
<1>3. CutTables'
  BY <1>1, <1>2, TablesCut DEF CutInv
<1>4. \A x \in Ids : th[t].snap[x] # None => Clear(th[t].snap[x].links)
  BY <1>1 DEF CutInv, CutHeld, Loaded
<1>5. CutHeld(th[t])'
  BY <1>1, <1>4 DEF CutHeld, Clear, Hot, Buffered
<1>6. ASSUME NEW y \in Ids \ th'[t].scan, y # th[t].cur
      PROVE  /\ memory_kv[y] # None => th[t].cur \notin Targets(memory_kv[y].links)
             /\ link_overlay[y] # None => th[t].cur \notin Targets(link_overlay[y])
  <2>1. memory_kv[y] # None => th[t].cur \notin Targets(memory_kv[y].links)
    BY <1>1, <1>6 DEF PointsAt
  <2>2. link_overlay[y] # None => memory_kv[y] # None
    BY DEF GoneInv, GoneTables, Present
  <2>3. memory_kv[y] # None => link_overlay[y] = memory_kv[y].links
    BY <1>1, NoneLags DEF Visible, Present
  <2> QED BY <2>1, <2>2, <2>3
<1>7. \A y \in Ids \ th'[t].scan : Free(th[t].cur, y)'
  BY <1>1, <1>2, <1>6 DEF Free
<1>8. CutVictim(th[t])'
  BY <1>1, <1>7 DEF CutVictim, Cascading, Free
<1> QED BY <1>3, <1>5, <1>8 DEF CutInv

\* The row of the next of them loses the edge ...
LEMMA DeleteCascadeCut ==
  ASSUME IndInv, NEW t \in Threads, IndexInv(t), CutInv(t), DeleteCascade(t)
  PROVE  CutInv(t)'
<1>1. /\ th[t].pc = "cascade" /\ th[t].scan \subseteq Ids /\ th[t].cur \in Ids
      /\ UNCHANGED <<memory_kv, gone, activation_log>>
      /\ UNCHANGED <<th[t].cur, th[t].scan, th[t].snap>>
      /\ th'[t].pc \in {"unindex", "casc_get"}
      /\ th'[t].pc = "unindex" => th[t].scan = {}
  BY DeleteCascadeEffect, Locals DEF hist
<1>2. \A x \in Ids : th[t].snap[x] # None => Clear(th[t].snap[x].links)
  BY <1>1 DEF CutInv, CutHeld, Loaded
<1>3. \A y \in Ids \ th[t].scan : Free(th[t].cur, y)
  BY <1>1 DEF CutInv, CutVictim, Cascading
<1>4. CutHeld(th[t])'
  BY <1>1, <1>2 DEF CutHeld, Clear, Hot, Buffered
<1>5. CASE th[t].scan = {} /\ th'[t].pc = "unindex" /\ UNCHANGED link_overlay
  <2>1. CutTables'
    BY <1>1, <1>5, TablesCut DEF CutInv
  <2>2. CutVictim(th[t])'
    BY <1>1, <1>3, <1>5 DEF CutVictim, Free
  <2> QED BY <1>4, <2>1, <2>2 DEF CutInv
<1>6. ASSUME NEW y \in th[t].scan, Least(y, th[t].scan), th'[t].pc = "casc_get",
             link_overlay' = [link_overlay EXCEPT ![y] = Remaining(t, y)]
      PROVE  CutInv(t)'
  <2>1. th[t].snap[y] # None
    BY <1>1, Locals, EngineAssumption
  <2>2. /\ Targets(Remaining(t, y)) \subseteq Targets(th[t].snap[y].links)
        /\ th[t].cur \notin Targets(Remaining(t, y))
    BY DEF Remaining, Targets
  <2>3. Clear(Remaining(t, y))
    BY <1>1, <1>2, <2>1, <2>2 DEF Clear
  <2>4. \A x \in Ids : link_overlay'[x] = IF x = y THEN Remaining(t, y) ELSE link_overlay[x]
    BY <1>1, <1>6, Tables
  <2>5. CutTables'
    BY <1>1, <2>3, <2>4, TablesCut DEF CutInv
  <2>6. \A z \in Ids \ th'[t].scan : Free(th[t].cur, z)'
    BY <1>1, <1>3, <2>4 DEF Free
  <2>7. \A z \in th'[t].scan : 
            Least(z, th'[t].scan) /\ link_overlay'[z] # None
              => th'[t].cur \notin Targets(link_overlay'[z])
    BY <1>1, <1>6, <2>2, <2>4, LeastUnique
  <2>8. CutVictim(th[t])'
    BY <1>1, <1>6, <2>6, <2>7 DEF CutVictim, Free
  <2> QED BY <1>4, <2>5, <2>8 DEF CutInv
<1> QED BY <1>5, <1>6, DeleteCascadeEffect

\* ... then its unit, re-read ...
LEMMA DeleteCascadeGetCut ==
  ASSUME IndInv, NEW t \in Threads, IndexInv(t), GoneInv(t), CutInv(t), DeleteCascadeGet(t)
  PROVE  CutInv(t)'
<1>1. UNCHANGED <<memory_kv, link_overlay, gone, activation_log>>
  BY DeleteCascadeGetEffect DEF disk, hist
<1>2. CutTables'
  BY <1>1, TablesCut DEF CutInv
<1>3. /\ th[t].pc = "casc_get" /\ th[t].scan \subseteq Ids /\ th[t].cur \in Ids
      /\ \A y \in th[t].scan : Present(y)
  BY DeleteCascadeGetEffect, Locals DEF GoneInv, GoneHeld, Cascading
<1>4. PICK y \in th[t].scan :
        /\ Least(y, th[t].scan) /\ Present(y) /\ th'[t].pc = "casc_put"
        /\ th'[t].buf = [memory_kv[y] EXCEPT !.links = Remaining(t, y)]
        /\ UNCHANGED <<th[t].cur, th[t].scan, th[t].snap>>
  BY <1>3, DeleteCascadeGetEffect
<1>5. \A x \in Ids : th[t].snap[x] # None => Clear(th[t].snap[x].links)
  BY <1>3 DEF CutInv, CutHeld, Loaded
<1>6. th[t].snap[y] # None /\ memory_kv[y] \in Unit
  BY <1>3, <1>4, Locals, Tables, EngineAssumption DEF Present
<1>7. th'[t].buf.links = Remaining(t, y)
  BY <1>4, <1>6 DEF Unit
<1>8. /\ Targets(Remaining(t, y)) \subseteq Targets(th[t].snap[y].links)
      /\ th[t].cur \notin Targets(Remaining(t, y))
  BY DEF Remaining, Targets
<1>9. Clear(th'[t].buf.links)
  BY <1>3, <1>5, <1>6, <1>7, <1>8 DEF Clear
<1>10. CutHeld(th[t])'
  BY <1>1, <1>4, <1>5, <1>9 DEF CutHeld, Clear, Hot
<1>11. CutVictim(th[t])'
  BY <1>1, <1>3, <1>4, <1>7, <1>8 DEF CutInv, CutVictim, Free, Cascading
<1> QED BY <1>2, <1>10, <1>11 DEF CutInv

\* ... and put back.
LEMMA DeleteCascadePutCut ==
  ASSUME IndInv, NEW t \in Threads, IndexInv(t), CutInv(t), DeleteCascadePut(t)
  PROVE  CutInv(t)'
<1>1. /\ th[t].pc = "casc_put" /\ th[t].scan \subseteq Ids /\ th[t].cur \in Ids
      /\ UNCHANGED <<link_overlay, gone, activation_log>>
      /\ th'[t].pc = "cascade" /\ UNCHANGED <<th[t].cur, th[t].snap>>
  BY DeleteCascadePutEffect, Locals DEF hist
<1>2. PICK y \in th[t].scan :
        /\ Least(y, th[t].scan) /\ memory_kv' = [memory_kv EXCEPT ![y] = th[t].buf]
        /\ th'[t].scan = th[t].scan \ {y}
  BY DeleteCascadePutEffect
<1>3. /\ Clear(th[t].buf.links) /\ th[t].cur \notin Targets(th[t].buf.links)
      /\ \A x \in Ids : th[t].snap[x] # None => Clear(th[t].snap[x].links)
  BY <1>1 DEF CutInv, CutHeld, CutVictim, Buffered, Loaded
<1>4. /\ \A z \in Ids \ th[t].scan : Free(th[t].cur, z)
      /\ link_overlay[y] # None => th[t].cur \notin Targets(link_overlay[y])
  BY <1>1, <1>2 DEF CutInv, CutVictim, Cascading
<1>5. \A x \in Ids : memory_kv'[x] = IF x = y THEN th[t].buf ELSE memory_kv[x]
  BY <1>1, <1>2, Tables
<1>6. CutTables'
  BY <1>1, <1>3, <1>5, TablesCut DEF CutInv
<1>7. CutHeld(th[t])'
  BY <1>1, <1>3 DEF CutHeld, Clear, Hot, Buffered
<1>8. \A z \in Ids \ th'[t].scan : Free(th[t].cur, z)'
  BY <1>1, <1>2, <1>3, <1>4, <1>5 DEF Free
<1>9. CutVictim(th[t])'
  BY <1>1, <1>8 DEF CutVictim, Free
<1> QED BY <1>6, <1>7, <1>9 DEF CutInv

\* When all have lost it, nothing leads to the victim ...
LEMMA DeleteUnindexCut ==
  ASSUME IndInv, NEW t \in Threads, IndexInv(t), CutInv(t), DeleteUnindex(t)
  PROVE  CutInv(t)'
<1>1. /\ th[t].pc = "unindex" /\ th'[t].pc = "unlink"
      /\ UNCHANGED <<th[t].cur, th[t].scan>>
      /\ UNCHANGED <<memory_kv, link_overlay, gone, activation_log>>
  BY DeleteUnindexEffect DEF hist
<1>2. CutTables'
  BY <1>1, TablesCut DEF CutInv
<1>3. CutHeld(th[t])'
  BY <1>1 DEF CutHeld, Buffered, Loaded
<1>4. CutVictim(th[t])'
  BY <1>1 DEF CutInv, CutVictim, Cascading, Free
<1> QED BY <1>2, <1>3, <1>4 DEF CutInv

\* ... which then counts as deleted.
LEMMA DeleteUnlinkCut ==
  ASSUME IndInv, NEW t \in Threads, IndexInv(t), CutInv(t), DeleteUnlink(t)
  PROVE  CutInv(t)'
<1>1. /\ th[t].pc = "unlink" /\ th'[t].pc = "del_next" /\ gone' = gone \cup {th[t].cur}
      /\ UNCHANGED <<memory_kv, link_overlay, activation_log>>
  BY DeleteUnlinkEffect
<1>2. \A y \in Ids : Free(th[t].cur, y)
  BY <1>1 DEF CutInv, CutVictim, Cascading
<1>3. Hot' = Hot
  BY <1>1 DEF Hot
<1>4. CutTables'
  BY <1>1, <1>2, <1>3 DEF CutInv, CutTables, Clear, Free
<1>5. CutHeld(th[t])' /\ CutVictim(th[t])'
  BY <1>1, NothingHeld DEF Cascading, Buffered, Loaded
<1> QED BY <1>4, <1>5 DEF CutInv

\* A lone caller that deletes one memory at a time, never reindexes and never
\* fails keeps every list of links clear.
LEMMA NextCut ==
  ASSUME NEW t \in Threads, Threads = {t}, MaxFaults = 0, "reindex" \notin Ops,
         IndInv, IndexInv(t), OverlayInv(t), GoneInv(t), Drawn(t), CutInv(t),
         [Next]_vars
  PROVE  CutInv(t)'
<1>1. CASE WriteStep(t)
  BY <1>1, EmptyHandedCut, WriteLinkCut, WritePersistCut, EnrichingCut, DropsCut
  DEF WriteStep, EmptyHanded, Enriching, Drops
<1>2. CASE DeleteStep(t)
  BY <1>2, DeleteStartCut, DeleteNextCut, DeleteRemoveCut, DeleteCascadeCut,
     DeleteCascadeGetCut, DeleteCascadePutCut, DeleteUnindexCut, DeleteUnlinkCut
  DEF DeleteStep
<1>3. CASE RetrieveStep(t)
  BY <1>3, EmptyHandedCut, RetrieveTouchCut, DropsCut
  DEF RetrieveStep, EmptyHanded, Drops
<1>4. CASE FeedbackStep(t)
  BY <1>4, EmptyHandedCut, FeedbackUsageCut, FeedbackEdgeGetCut, FeedbackRowGetCut,
     FeedbackRowPutCut, DropsCut
  DEF FeedbackStep, EmptyHanded, Drops
<1>5. CASE ConsolidateStep(t)
  BY <1>5, EmptyHandedCut, ConsolidateStartCut, ConsolidateCycleCut,
     ConsolidateCompressCut, FlushKvCut, FlushRowCut, SealRowCut, SealGetCut, DropsCut
  DEF ConsolidateStep, EmptyHanded, Drops
<1>6. CASE ReindexStep(t)
  BY <1>6, NoReindex
<1>7. CASE Fail(t) \/ Restart
  BY <1>7, NoFaults
<1>8. CASE UNCHANGED vars
  <2>1. UNCHANGED <<memory_kv, link_overlay, gone, activation_log, th>>
    BY <1>8 DEF vars, disk, hist
  <2> QED BY <2>1 DEF CutInv, CutTables, CutHeld, CutVictim, Clear, Hot, Free
<1> QED BY <1>1, <1>2, <1>3, <1>4, <1>5, <1>6, <1>7, <1>8 DEF Next

\* The invariant of the cascade.
LEMMA CutInvariance ==
  ASSUME NEW t \in Threads, Threads = {t}, MaxFaults = 0, "reindex" \notin Ops,
         MaxBatch = 1
  PROVE  Spec => []CutInv(t)
<1>1. ASSUME Init PROVE CutInv(t)
  <2>1. /\ th[t] = Idle /\ gone = {}
        /\ \A x \in Ids : memory_kv[x] = None /\ link_overlay[x] = None
    BY <1>1 DEF Init
  <2> QED BY <2>1
          DEF CutInv, CutTables, CutHeld, CutVictim, Cascading, Buffered, Loaded, Idle
<1>2. /\ IndInv /\ IndexInv(t) /\ OverlayInv(t) /\ GoneInv(t) /\ Drawn(t) /\ CutInv(t)
      /\ [Next]_vars
      => CutInv(t)'
  BY NextCut
<1> QED BY <1>1, <1>2, Invariance, IndexInvariance, SerialInvariance, GoneInvariance,
           DrawnInvariance, PTL DEF Spec

\* One caller, no faults, deletes of one memory, no reindex: between two calls
\* every edge to a deleted memory leads to one that positive feedback named; the
\* cascade has cut all the others, in units and rows.
THEOREM CascadeCutsEdges ==
  ASSUME OneCaller, MaxFaults = 0, "reindex" \notin Ops, MaxBatch = 1
  PROVE  Spec => []CascadeCuts
<1>1. PICK t \in Threads : Threads = {t}
  BY DEF OneCaller
<1>2. ASSUME IndInv, CutInv(t), NEW x \in gone, EdgesInto(x) # {}
      PROVE  x \in Hot
  <2>1. x \in Ids
    BY <1>2, Tables
  <2> QED BY <1>2, <2>1 DEF EdgesInto, PointsAt, CutInv, CutTables, Clear
<1>3. IndInv /\ CutInv(t) => CascadeCuts
  BY <1>2 DEF CascadeCuts
<1> QED BY <1>1, <1>3, CutInvariance, Invariance, PTL
=============================================================================
