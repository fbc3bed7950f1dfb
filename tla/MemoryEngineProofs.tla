------------------------- MODULE MemoryEngineProofs -------------------------
(***************************************************************************)
(* Proofs about MemoryEngine for every set of memories and threads, every  *)
(* set of calls and every bound.                                           *)
(***************************************************************************)
EXTENDS MemoryEngine, TLAPS

\* The part of the invariant about tables, indexes and history.
DataType ==
    /\ memory_log \in SUBSET Ids
    /\ memory_kv \in Table
    /\ link_overlay \in [Ids -> {None} \cup SUBSET Edge]
    /\ dense_vectors \in SUBSET Ids /\ postings \in SUBSET Ids
    /\ context_links \in SUBSET Ids /\ fulltext \in SUBSET Ids
    /\ activation_log \in SUBSET (Ids \X BOOLEAN)
    /\ traces \in SUBSET SUBSET (Ids \X Ids)
    /\ dense_index \in SUBSET Ids /\ binary_index \in SUBSET Ids
    /\ issued \in SUBSET Ids
    /\ context \in [Ids -> SUBSET Ids]
    /\ acked \in SUBSET Ids /\ gone \in SUBSET Ids
    /\ calls \in Nat /\ faults \in Nat

DataInv == DataType /\ DerivedFromLog /\ AckedDurable

\* The part about what the threads carry.
ThreadInv == th \in [Threads -> Thread] /\ ThreadsCarryLogged

IndInv == DataInv /\ ThreadInv

-----------------------------------------------------------------------------
(***************************************************************************)
(* Frame lemmas: what a step leaves alone stays true.                      *)
(***************************************************************************)

\* Nothing a thread carries is invalidated by a longer log.
LEMMA CarriesMono ==
  ASSUME NEW r \in Thread, NEW log, NEW log2, log \subseteq log2, Carries(r, log)
  PROVE  Carries(r, log2)
BY DEF Carries

\* A step of thread t preserves what every thread carries, if what t carries
\* afterwards is well formed and the log has not shrunk.
LEMMA ThreadStep ==
  ASSUME ThreadInv, NEW t \in Threads, NEW r \in Thread, Now(t, r),
         memory_log \subseteq memory_log', Carries(r, memory_log')
  PROVE  ThreadInv'
<1>1. th' = [th EXCEPT ![t] = r]
  BY DEF Now
<1>2. th' \in [Threads -> Thread]
  BY <1>1 DEF ThreadInv
<1>3. ASSUME NEW u \in Threads PROVE Carries(th'[u], memory_log')
  <2>1. CASE u = t
    BY <1>1, <2>1 DEF ThreadInv
  <2>2. CASE u # t
    <3>1. th'[u] = th[u] /\ th[u] \in Thread /\ Carries(th[u], memory_log)
      BY <1>1, <2>2 DEF ThreadInv, ThreadsCarryLogged
    <3> QED BY <3>1, CarriesMono
  <2> QED BY <2>1, <2>2
<1> QED BY <1>2, <1>3 DEF ThreadInv, ThreadsCarryLogged

\* A step that touches no table, no index and no history.
LEMMA DataFrame ==
  ASSUME DataInv, UNCHANGED <<disk, ram, hist>>
  PROVE  DataInv' /\ memory_log' = memory_log
BY DEF DataInv, DataType, DerivedFromLog, AckedDurable, Visible, Present,
       disk, ram, hist

\* A unit is put for a logged memory.
LEMMA PutUnit ==
  ASSUME DataInv, NEW x \in memory_log, NEW u \in Unit,
         memory_kv' = [memory_kv EXCEPT ![x] = u],
         UNCHANGED <<memory_log, link_overlay, dense_vectors, postings,
                     context_links, activation_log, traces, fulltext, ram, hist>>
  PROVE  DataInv'
<1>1. DataType'
  BY DEF DataInv, DataType, Table, ram, hist
<1>2. Visible' \subseteq Visible \cup {x}
  BY DEF DataInv, DataType, Table, Visible, Present
<1>3. DerivedFromLog' /\ AckedDurable'
  BY <1>2 DEF DataInv, DerivedFromLog, AckedDurable, hist
<1> QED BY <1>1, <1>3 DEF DataInv

\* A row of the graph overlay is put for a logged memory.
LEMMA PutRow ==
  ASSUME DataInv, NEW x \in memory_log, NEW l \in SUBSET Edge,
         link_overlay' = [link_overlay EXCEPT ![x] = l],
         UNCHANGED <<memory_log, memory_kv, dense_vectors, postings,
                     context_links, activation_log, traces, fulltext, ram, hist>>
  PROVE  DataInv'
<1>1. DataType'
  BY DEF DataInv, DataType, Table, ram, hist
<1>2. Visible' = Visible
  BY DEF Visible, Present
<1>3. DerivedFromLog' /\ AckedDurable'
  BY <1>2 DEF DataInv, DataType, DerivedFromLog, AckedDurable, hist
<1> QED BY <1>1, <1>3 DEF DataInv

\* The program points, as facts the provers can use without the enumeration.
LEMMA StepNames ==
  /\ "idle" \in Steps /\ "discover" \in Steps /\ "link" \in Steps /\ "persist" \in Steps
  /\ "fulltext" \in Steps /\ "enrich" \in Steps /\ "reput" \in Steps /\ "del_next" \in Steps
  /\ "remove" \in Steps /\ "cascade" \in Steps /\ "casc_get" \in Steps /\ "casc_put" \in Steps
  /\ "unindex" \in Steps /\ "unlink" \in Steps /\ "usage" \in Steps /\ "usage_put" \in Steps
  /\ "bind" \in Steps /\ "edge_get" \in Steps /\ "edge_put" \in Steps /\ "row_get" \in Steps
  /\ "row_put" \in Steps /\ "touch" \in Steps /\ "touch_put" \in Steps /\ "cycle" \in Steps
  /\ "flush_kv" \in Steps /\ "flush_row" \in Steps /\ "summary" \in Steps /\ "seal_row" \in Steps
  /\ "seal_get" \in Steps /\ "seal_put" \in Steps /\ "clear" \in Steps /\ "fts" \in Steps
  /\ "ram" \in Steps /\ "re_next" \in Steps
BY DEF Steps

\* What an idle thread carries: nothing.
LEMMA IdleOK ==
  /\ Idle \in Thread
  /\ \A log : Carries(Idle, log)
<1>1. Idle \in Thread
  BY EngineAssumption DEF Idle, Thread, Steps, Table
<1>2. \A log : Carries(Idle, log)
  BY DEF Carries, Idle
<1> QED BY <1>1, <1>2

\* A call that returns leaves a thread that carries nothing.
LEMMA ReturnStep ==
  ASSUME ThreadInv, NEW t \in Threads, Return(t), memory_log \subseteq memory_log'
  PROVE  ThreadInv'
BY IdleOK, ThreadStep DEF Return

\* An empty store with idle threads satisfies the invariant.
LEMMA InitInv == Init => IndInv
<1> SUFFICES ASSUME Init PROVE IndInv
  OBVIOUS
<1>1. DataType
  BY DEF Init, DataType, Table
<1>2. Visible = {}
  BY DEF Init, Visible, Present
<1>3. DerivedFromLog /\ AckedDurable
  BY <1>2 DEF Init, DerivedFromLog, AckedDurable
<1>4. ThreadInv
  BY IdleOK DEF Init, ThreadInv, ThreadsCarryLogged
<1> QED BY <1>1, <1>3, <1>4 DEF IndInv, DataInv

\* What is known of the thread that takes a step.
LEMMA ThreadFacts ==
  ASSUME ThreadInv, NEW t \in Threads
  PROVE  th[t] \in Thread /\ Carries(th[t], memory_log)
BY DEF ThreadInv, ThreadsCarryLogged

\* A step that only moves a thread on, and reads.
LEMMA ReadStep ==
  ASSUME IndInv, NEW t \in Threads, NEW r \in Thread, Now(t, r),
         Carries(r, memory_log), UNCHANGED <<disk, ram, hist>>
  PROVE  IndInv'
BY ThreadStep, DataFrame DEF IndInv

\* A call that ends without writing preserves the invariant.
LEMMA ReadReturn ==
  ASSUME IndInv, NEW t \in Threads, Return(t), UNCHANGED <<disk, ram, hist>>
  PROVE  IndInv'
BY IdleOK, ReadStep DEF Return

-----------------------------------------------------------------------------
(***************************************************************************)
(* The write pipeline.                                                     *)
(***************************************************************************)
\* Drawing an id and embedding touch the in-memory indexes only.
LEMMA WriteStartInv ==
  ASSUME IndInv, NEW t \in Threads, WriteStart(t)
  PROVE  IndInv'
<1>1. PICK id \in Ids, ok \in Embeds :
        /\ issued' = issued \cup {id}
        /\ EmbedInto(id, ok)
        /\ Now(t, [Idle EXCEPT !.op = "write", !.pc = "discover", !.cur = id, !.vec = ok])
  BY Zenon DEF WriteStart
<1>2. calls' = calls + 1 /\ UNCHANGED <<disk, context, acked, gone, faults>>
  BY Zenon DEF WriteStart
<1>3. DataInv'
  BY <1>1, <1>2 DEF IndInv, DataInv, DataType, DerivedFromLog, AckedDurable,
                    Visible, Present, disk, EmbedInto
<1>4. [Idle EXCEPT !.op = "write", !.pc = "discover", !.cur = id, !.vec = ok] \in Thread
  BY IdleOK, EngineAssumption, StepNames DEF Thread
<1>5. Carries([Idle EXCEPT !.op = "write", !.pc = "discover", !.cur = id, !.vec = ok],
              memory_log')
  BY DEF Carries, Idle
<1>6. ThreadInv'
  BY <1>1, <1>2, <1>4, <1>5, ThreadStep DEF IndInv, disk
<1> QED BY <1>3, <1>6 DEF IndInv

\* The candidates of discovery are posted memories.
LEMMA WriteDiscoverInv ==
  ASSUME IndInv, NEW t \in Threads, WriteDiscover(t)
  PROVE  IndInv'
<1>1. /\ th[t].pc = "discover" /\ UNCHANGED <<disk, ram, hist>>
      /\ Now(t, [th[t] EXCEPT !.pc = "link", !.scan = postings \ {th[t].cur}])
  BY Zenon DEF WriteDiscover, At
<1>2. th[t] \in Thread /\ Carries(th[t], memory_log)
  BY ThreadFacts DEF IndInv
<1>3. PICK c : c = postings \ {th[t].cur}
  OBVIOUS
<1>4. c \in SUBSET Ids
  BY <1>3 DEF IndInv, DataInv, DataType
<1>5. [th[t] EXCEPT !.pc = "link", !.scan = c] \in Thread
  BY <1>2, <1>4, StepNames DEF Thread
<1>6. Carries([th[t] EXCEPT !.pc = "link", !.scan = c], memory_log)
  BY <1>1, <1>2 DEF Carries, Thread
<1> QED BY <1>1, <1>3, <1>5, <1>6, ReadStep

\* The linked unit is built in the thread: from here on it has one to persist.
LEMMA WriteLinkInv ==
  ASSUME IndInv, NEW t \in Threads, WriteLink(t)
  PROVE  IndInv'
<1>1. PICK S \in SUBSET {x \in th[t].scan : Present(x)} :
        Now(t, [th[t] EXCEPT !.pc = "persist", !.scan = {},
                             !.buf = NewUnit({[to |-> x, lvl |-> 1] : x \in S})])
  BY Zenon DEF WriteLink
<1>2. th[t].pc = "link" /\ UNCHANGED <<disk, ram, hist>>
  BY Zenon DEF WriteLink, At
<1>3. th[t] \in Thread /\ Carries(th[t], memory_log)
  BY ThreadFacts DEF IndInv
<1>4. PICK b : b = NewUnit({[to |-> x, lvl |-> 1] : x \in S})
  OBVIOUS
<1>5. b \in Unit /\ b # None
  <2>1. S \in SUBSET Ids
    BY <1>3 DEF Thread
  <2> QED BY <1>4, <2>1, EngineAssumption DEF NewUnit, Unit, Edge
<1>6. [th[t] EXCEPT !.pc = "persist", !.scan = {}, !.buf = b] \in Thread
  BY <1>3, <1>5, StepNames DEF Thread
<1>7. Carries([th[t] EXCEPT !.pc = "persist", !.scan = {}, !.buf = b], memory_log)
  BY <1>2, <1>3, <1>5 DEF Carries, Thread
<1> QED BY <1>1, <1>2, <1>4, <1>6, <1>7, ReadStep

\* persist_memory_unit writes every row together with the raw record, or,
\* in a reindex, for an id that came from the log.
LEMMA WritePersistInv ==
  ASSUME IndInv, NEW t \in Threads, WritePersist(t)
  PROVE  IndInv'
<1>1. th[t] \in Thread /\ Carries(th[t], memory_log)
  BY ThreadFacts DEF IndInv
<1>2. th[t].pc = "persist" /\ UNCHANGED <<ram, hist>>
  BY Zenon DEF WritePersist, At
<1>3. CASE /\ PersistUnit(t)
           /\ Goto(t, "fulltext")
           /\ UNCHANGED <<context_links, activation_log, traces, fulltext>>
  <2>1. th[t].cur \in Ids /\ th[t].buf \in Unit /\ th[t].buf.links \in SUBSET Edge
    BY <1>1, <1>2 DEF Carries, Thread, Unit
  <2>2. th[t].cur \in memory_log'
    BY <1>1, <1>2, <1>3, <2>1, EngineAssumption DEF Carries, PersistUnit
  <2>3. memory_log \subseteq memory_log' /\ memory_log' \subseteq memory_log \cup {th[t].cur}
    BY <1>3 DEF PersistUnit
  <2>4. DataType'
    BY <1>2, <1>3, <2>1, <2>3 DEF IndInv, DataInv, DataType, PersistUnit, Table, ram, hist
  <2>5. Visible' \subseteq Visible \cup {th[t].cur}
    BY <1>3, <2>1 DEF IndInv, DataInv, DataType, PersistUnit, Table, Visible, Present
  <2>6. {x \in Ids : link_overlay'[x] # None}
            \subseteq {x \in Ids : link_overlay[x] # None} \cup {th[t].cur}
    BY <1>3, <2>1 DEF IndInv, DataInv, DataType, PersistUnit
  <2>7. dense_vectors' \cup postings' \cup fulltext' \subseteq
            dense_vectors \cup postings \cup fulltext \cup {th[t].cur}
    BY <1>3 DEF PersistUnit
  <2>8. DerivedFromLog' /\ AckedDurable'
    BY <1>2, <2>2, <2>3, <2>5, <2>6, <2>7
    DEF IndInv, DataInv, DerivedFromLog, AckedDurable, hist
  <2>9. [th[t] EXCEPT !.pc = "fulltext"] \in Thread
    BY <1>1, StepNames DEF Thread
  <2>10. Carries(th[t], memory_log')
    BY <1>1, <2>3, CarriesMono
  <2>11. Carries([th[t] EXCEPT !.pc = "fulltext"], memory_log')
    BY <1>1, <1>2, <2>2, <2>10 DEF Carries, Thread
  <2>12. ThreadInv'
    BY <1>3, <2>3, <2>9, <2>11, ThreadStep DEF IndInv, Goto
  <2> QED BY <2>4, <2>8, <2>12 DEF IndInv, DataInv
<1>4. CASE Return(t) /\ UNCHANGED disk
  BY <1>2, <1>4, ReadReturn
<1> QED BY <1>3, <1>4 DEF WritePersist

\* The document added to the full-text index is that of a persisted memory.
LEMMA WriteFulltextInv ==
  ASSUME IndInv, NEW t \in Threads, WriteFulltext(t)
  PROVE  IndInv'
<1>1. th[t] \in Thread /\ Carries(th[t], memory_log)
  BY ThreadFacts DEF IndInv
<1>2. th[t].cur \in memory_log
  BY <1>1 DEF WriteFulltext, At, Carries
<1>3. DataInv'
  BY <1>2 DEF WriteFulltext, IndInv, DataInv, DataType, DerivedFromLog,
              AckedDurable, Visible, Present, ram, hist
<1>4. [th[t] EXCEPT !.pc = "enrich"] \in Thread
  BY <1>1, StepNames DEF Thread
<1>5. Carries([th[t] EXCEPT !.pc = "enrich"], memory_log')
  BY <1>1 DEF WriteFulltext, At, Carries, Thread
<1>6. ThreadInv'
  BY <1>4, <1>5, ThreadStep DEF WriteFulltext, Goto, IndInv
<1> QED BY <1>3, <1>6 DEF IndInv

\* The enriched keys are posted for a persisted memory.
LEMMA WriteEnrichInv ==
  ASSUME IndInv, NEW t \in Threads, WriteEnrich(t)
  PROVE  IndInv'
<1>1. th[t] \in Thread /\ Carries(th[t], memory_log)
  BY ThreadFacts DEF IndInv
<1>2. th[t].cur \in memory_log
  BY <1>1 DEF WriteEnrich, At, Carries
<1>3. DataInv'
  BY <1>2 DEF WriteEnrich, IndInv, DataInv, DataType, DerivedFromLog,
              AckedDurable, Visible, Present, ram, hist
<1>4. [th[t] EXCEPT !.pc = "reput"] \in Thread
  BY <1>1, StepNames DEF Thread
<1>5. Carries([th[t] EXCEPT !.pc = "reput"], memory_log')
  BY <1>1 DEF WriteEnrich, At, Carries, Thread
<1>6. ThreadInv'
  BY <1>4, <1>5, ThreadStep DEF WriteEnrich, Goto, IndInv
<1> QED BY <1>3, <1>6 DEF IndInv

\* The put of the enriched unit is for a logged memory; only then is it acked.
LEMMA WriteReputInv ==
  ASSUME IndInv, NEW t \in Threads, WriteReput(t)
  PROVE  IndInv'
<1>1. th[t] \in Thread /\ Carries(th[t], memory_log)
  BY ThreadFacts DEF IndInv
<1>2. th[t].pc = "reput" /\ th[t].cur \in memory_log /\ th[t].buf \in Unit
  BY <1>1 DEF WriteReput, At, Carries, Thread
<1>3. /\ memory_kv' = [memory_kv EXCEPT ![th[t].cur] = th[t].buf]
      /\ UNCHANGED <<memory_log, link_overlay, dense_vectors, postings,
                     context_links, activation_log, traces, fulltext, ram,
                     issued, context, gone, calls, faults>>
      /\ acked' \in {acked, acked \cup {th[t].cur}}
  BY DEF WriteReput
<1>4. DataType'
  BY <1>2, <1>3 DEF IndInv, DataInv, DataType, Table, ram
<1>5. Visible' \subseteq Visible \cup {th[t].cur}
  BY <1>2, <1>3 DEF IndInv, DataInv, DataType, Table, Visible, Present
<1>6. DerivedFromLog' /\ AckedDurable'
  BY <1>2, <1>3, <1>5 DEF IndInv, DataInv, DerivedFromLog, AckedDurable
<1>7. ThreadInv'
  <2>1. CASE th[t].op = "reindex"
    <3>1. Now(t, [th[t] EXCEPT !.pc = "re_next", !.todo = @ \ {th[t].cur}])
      BY <2>1 DEF WriteReput
    <3>2. [th[t] EXCEPT !.pc = "re_next", !.todo = @ \ {th[t].cur}] \in Thread
      BY <1>1, StepNames DEF Thread
    <3>3. Carries([th[t] EXCEPT !.pc = "re_next", !.todo = @ \ {th[t].cur}], memory_log')
      BY <1>1, <1>2, <1>3 DEF Carries, Thread
    <3> QED BY <1>3, <3>1, <3>2, <3>3, ThreadStep DEF IndInv
  <2>2. CASE th[t].op = "write"
    BY <1>3, <2>2, ReturnStep DEF WriteReput, IndInv
  <2>3. CASE th[t].op \notin {"write", "reindex"}
    <3>1. Now(t, [th[t] EXCEPT !.pc = "seal_row"])
      BY <2>3 DEF WriteReput, Goto
    <3>2. [th[t] EXCEPT !.pc = "seal_row"] \in Thread
      BY <1>1, StepNames DEF Thread
    <3>3. Carries([th[t] EXCEPT !.pc = "seal_row"], memory_log')
      BY <1>1, <1>2, <1>3 DEF Carries, Thread
    <3> QED BY <1>3, <3>1, <3>2, <3>3, ThreadStep DEF IndInv
  <2> QED BY <2>1, <2>2, <2>3
<1> QED BY <1>4, <1>6, <1>7 DEF IndInv, DataInv

-----------------------------------------------------------------------------
(***************************************************************************)
(* delete.                                                                 *)
(***************************************************************************)
\* load_all_units gives a table of visible, hence logged, memories; of all of them
\* when no error may be swallowed.
LEMMA SnapshotFacts ==
  ASSUME DataInv, NEW S \in Loads
  PROVE  /\ Snapshot(S) \in Table
         /\ \A x \in Ids : Snapshot(S)[x] # None => /\ x \in memory_log
                                                  /\ Snapshot(S)[x] = memory_kv[x]
         /\ MaxFaults = 0 => Snapshot(S) = memory_kv
<1>1. memory_kv \in Table /\ Visible \subseteq memory_log /\ faults \in Nat
  BY DEF DataInv, DataType, DerivedFromLog
<1>2. Snapshot(S) \in Table
  BY <1>1 DEF Snapshot, Table
<1>3. ASSUME NEW x \in Ids, Snapshot(S)[x] # None
      PROVE  x \in memory_log /\ Snapshot(S)[x] = memory_kv[x]
  BY <1>1, <1>3 DEF Snapshot, Visible, Present
<1>4. ASSUME MaxFaults = 0 PROVE Snapshot(S) = memory_kv
  <2>1. S = Visible
    BY <1>1, <1>4 DEF Loads, Swallows
  <2>2. Snapshot(S) = [x \in Ids |-> memory_kv[x]]
    BY <2>1 DEF Snapshot, Visible, Present
  <2> QED BY <1>1, <2>2 DEF Table
<1> QED BY <1>2, <1>3, <1>4

\* The snapshot of a delete holds logged memories only.
LEMMA DeleteStartInv ==
  ASSUME IndInv, NEW t \in Threads, DeleteStart(t)
  PROVE  IndInv'
<1>1. PICK S \in SUBSET issued, units \in Loads :
        Now(t, [Idle EXCEPT !.op = "delete", !.pc = "del_next",
                            !.todo = S, !.snap = Snapshot(units)])
  BY Zenon DEF DeleteStart
<1>2. calls' = calls + 1 /\ UNCHANGED <<disk, ram, issued, context, acked, gone, faults>>
  BY Zenon DEF DeleteStart
<1>3. DataInv'
  BY <1>2 DEF IndInv, DataInv, DataType, DerivedFromLog, AckedDurable,
              Visible, Present, disk, ram
<1>4. [Idle EXCEPT !.op = "delete", !.pc = "del_next", !.todo = S,
                   !.snap = Snapshot(units)] \in Thread
  <2>1. S \in SUBSET Ids /\ Snapshot(units) \in Table
    BY SnapshotFacts DEF IndInv, DataInv, DataType
  <2> QED BY <2>1, IdleOK, StepNames DEF Thread
<1>5. Carries([Idle EXCEPT !.op = "delete", !.pc = "del_next", !.todo = S,
                           !.snap = Snapshot(units)], memory_log')
  BY <1>2, SnapshotFacts DEF Carries, Idle, IndInv, disk
<1>6. ThreadInv'
  BY <1>1, <1>2, <1>4, <1>5, ThreadStep DEF IndInv, disk
<1> QED BY <1>3, <1>6 DEF IndInv

\* Looking up the next victim only reads.
LEMMA DeleteNextInv ==
  ASSUME IndInv, NEW t \in Threads, DeleteNext(t)
  PROVE  IndInv'
<1>1. th[t] \in Thread /\ Carries(th[t], memory_log)
  BY ThreadFacts DEF IndInv
<1>2. th[t].pc = "del_next" /\ UNCHANGED <<disk, ram, hist>>
  BY Zenon DEF DeleteNext, At
<1>3. CASE Return(t)
  BY <1>2, <1>3, ReadReturn
<1>4. ASSUME NEW x \in th[t].todo,
             Now(t, IF Present(x)
                    THEN [th[t] EXCEPT !.pc = "remove", !.cur = x, !.todo = @ \ {x}]
                    ELSE [th[t] EXCEPT !.todo = @ \ {x}])
      PROVE  IndInv'
  <2>1. CASE Present(x)
    <3>1. [th[t] EXCEPT !.pc = "remove", !.cur = x, !.todo = @ \ {x}] \in Thread
      BY <1>1, StepNames DEF Thread
    <3>2. x \in Ids
      BY <1>1 DEF Thread
    <3>3. Carries([th[t] EXCEPT !.pc = "remove", !.cur = x, !.todo = @ \ {x}],
                  memory_log)
      BY <1>1, <1>2, <3>2 DEF Carries, Thread
    <3> QED BY <1>2, <1>4, <2>1, <3>1, <3>3, ReadStep
  <2>2. CASE ~ Present(x)
    <3>1. [th[t] EXCEPT !.todo = @ \ {x}] \in Thread
      BY <1>1 DEF Thread
    <3>2. Carries([th[t] EXCEPT !.todo = @ \ {x}], memory_log)
      BY <1>1, <1>2 DEF Carries, Thread
    <3> QED BY <1>2, <1>4, <2>2, <3>1, <3>2, ReadStep
  <2> QED BY <2>1, <2>2
<1> QED BY <1>3, <1>4 DEF DeleteNext

\* Removing a unit, its vector and its row leaves only less to be derived.
LEMMA DeleteRemoveInv ==
  ASSUME IndInv, NEW t \in Threads, DeleteRemove(t)
  PROVE  IndInv'
<1>1. th[t] \in Thread /\ Carries(th[t], memory_log)
  BY ThreadFacts DEF IndInv
<1>2. PICK x : x = th[t].cur
  OBVIOUS
<1>3. PICK Y : Y = {y \in Ids \ {x} : PointsAt(th[t].snap[y], x)}
  OBVIOUS
<1>4. /\ th[t].pc = "remove"
      /\ memory_kv' = [memory_kv EXCEPT ![x] = None]
      /\ dense_vectors' = dense_vectors \ {x}
      /\ link_overlay' = [link_overlay EXCEPT ![x] = None]
      /\ Now(t, [th[t] EXCEPT !.pc = "cascade", !.scan = Y])
      /\ UNCHANGED <<memory_log, postings, context_links, activation_log, traces,
                     fulltext, ram, hist>>
  BY <1>2, <1>3, Zenon DEF DeleteRemove, At
<1>5. x \in Ids
  BY <1>1, <1>2, <1>4 DEF Carries
<1>6. DataType'
  BY <1>4, <1>5 DEF IndInv, DataInv, DataType, Table, ram, hist
<1>7. Visible' \subseteq Visible
  BY <1>4, <1>5 DEF IndInv, DataInv, DataType, Table, Visible, Present
<1>8. {y \in Ids : link_overlay'[y] # None} \subseteq {y \in Ids : link_overlay[y] # None}
  BY <1>4, <1>5 DEF IndInv, DataInv, DataType
<1>9. DerivedFromLog' /\ AckedDurable'
  BY <1>4, <1>7, <1>8 DEF IndInv, DataInv, DerivedFromLog, AckedDurable, hist
<1>10. Y \in SUBSET Ids /\ \A y \in Y : th[t].snap[y] # None
  BY <1>3 DEF PointsAt
<1>11. [th[t] EXCEPT !.pc = "cascade", !.scan = Y] \in Thread
  BY <1>1, <1>10, StepNames DEF Thread
<1>12. Carries([th[t] EXCEPT !.pc = "cascade", !.scan = Y], memory_log')
  BY <1>1, <1>4, <1>10 DEF Carries, Thread
<1>13. ThreadInv'
  BY <1>4, <1>11, <1>12, ThreadStep DEF IndInv
<1> QED BY <1>6, <1>9, <1>13 DEF IndInv, DataInv

\* The cascade puts overlay rows for memories of its snapshot: logged ones.
LEMMA DeleteCascadeInv ==
  ASSUME IndInv, NEW t \in Threads, DeleteCascade(t)
  PROVE  IndInv'
<1>1. th[t] \in Thread /\ Carries(th[t], memory_log)
  BY ThreadFacts DEF IndInv
<1>2. /\ th[t].pc = "cascade"
      /\ UNCHANGED <<memory_log, memory_kv, dense_vectors, postings, context_links,
                     activation_log, traces, fulltext, ram, hist>>
  BY Zenon DEF DeleteCascade, At
<1>3. CASE Goto(t, "unindex") /\ UNCHANGED link_overlay
  <2>1. [th[t] EXCEPT !.pc = "unindex"] \in Thread
    BY <1>1, StepNames DEF Thread
  <2>2. Carries([th[t] EXCEPT !.pc = "unindex"], memory_log)
    BY <1>1, <1>2 DEF Carries, Thread
  <2>3. UNCHANGED <<disk, ram, hist>>
    BY <1>2, <1>3 DEF disk
  <2> QED BY <1>3, <2>1, <2>2, <2>3, ReadStep DEF Goto
<1>4. ASSUME NEW y \in th[t].scan,
             link_overlay' = [link_overlay EXCEPT ![y] = Remaining(t, y)],
             Goto(t, "casc_get")
      PROVE  IndInv'
  <2>1. y \in memory_log /\ th[t].snap[y] \in Unit
    BY <1>1, <1>2 DEF Carries, Thread, Table
  <2>2. Remaining(t, y) \in SUBSET Edge
    BY <2>1 DEF Remaining, Unit
  <2>3. DataInv'
    BY <1>2, <1>4, <2>1, <2>2, PutRow DEF IndInv
  <2>4. [th[t] EXCEPT !.pc = "casc_get"] \in Thread
    BY <1>1, StepNames DEF Thread
  <2>5. Carries([th[t] EXCEPT !.pc = "casc_get"], memory_log')
    BY <1>1, <1>2 DEF Carries, Thread
  <2>6. ThreadInv'
    BY <1>2, <1>4, <2>4, <2>5, ThreadStep DEF IndInv, Goto
  <2> QED BY <2>3, <2>6 DEF IndInv
<1> QED BY <1>3, <1>4 DEF DeleteCascade

\* What the cascade is about to put back is a unit.
LEMMA DeleteCascadeGetInv ==
  ASSUME IndInv, NEW t \in Threads, DeleteCascadeGet(t)
  PROVE  IndInv'
<1>1. th[t] \in Thread /\ Carries(th[t], memory_log)
  BY ThreadFacts DEF IndInv
<1>2. th[t].pc = "casc_get" /\ UNCHANGED <<disk, ram, hist>>
  BY Zenon DEF DeleteCascadeGet, At
<1>3. PICK y \in th[t].scan :
        Now(t, IF Present(y)
               THEN [th[t] EXCEPT !.pc = "casc_put",
                       !.buf = [memory_kv[y] EXCEPT !.links = Remaining(t, y)]]
               ELSE [th[t] EXCEPT !.pc = "cascade", !.scan = @ \ {y}])
  BY Zenon DEF DeleteCascadeGet
<1>4. y \in memory_log /\ y \in Ids /\ th[t].snap[y] \in Unit
  BY <1>1, <1>2 DEF Carries, Thread, Table
<1>5. CASE Present(y)
  <2>1. PICK b : b = [memory_kv[y] EXCEPT !.links = Remaining(t, y)]
    OBVIOUS
  <2>2. memory_kv[y] \in Unit
    BY <1>4, <1>5 DEF Present, IndInv, DataInv, DataType, Table
  <2>3. b \in Unit
    BY <1>4, <2>1, <2>2 DEF Unit, Remaining
  <2>4. [th[t] EXCEPT !.pc = "casc_put", !.buf = b] \in Thread
    BY <1>1, <2>3, StepNames DEF Thread
  <2>5. Carries([th[t] EXCEPT !.pc = "casc_put", !.buf = b], memory_log)
    BY <1>1, <1>2, <2>3, EngineAssumption DEF Carries, Thread
  <2> QED BY <1>2, <1>3, <1>5, <2>1, <2>4, <2>5, ReadStep
<1>6. CASE ~ Present(y)
  <2>1. [th[t] EXCEPT !.pc = "cascade", !.scan = @ \ {y}] \in Thread
    BY <1>1, StepNames DEF Thread
  <2>2. Carries([th[t] EXCEPT !.pc = "cascade", !.scan = @ \ {y}], memory_log)
    BY <1>1, <1>2 DEF Carries, Thread
  <2> QED BY <1>2, <1>3, <1>6, <2>1, <2>2, ReadStep
<1> QED BY <1>5, <1>6

\* The blind put of the cascade may revive a unit, but of a logged memory.
LEMMA DeleteCascadePutInv ==
  ASSUME IndInv, NEW t \in Threads, DeleteCascadePut(t)
  PROVE  IndInv'
<1>1. th[t] \in Thread /\ Carries(th[t], memory_log)
  BY ThreadFacts DEF IndInv
<1>2. /\ th[t].pc = "casc_put"
      /\ UNCHANGED <<memory_log, link_overlay, dense_vectors, postings,
                     context_links, activation_log, traces, fulltext, ram, hist>>
  BY Zenon DEF DeleteCascadePut, At
<1>3. PICK y \in th[t].scan :
        /\ memory_kv' = [memory_kv EXCEPT ![y] = th[t].buf]
        /\ Now(t, [th[t] EXCEPT !.pc = "cascade", !.scan = @ \ {y}, !.buf = None])
  BY Zenon DEF DeleteCascadePut
<1>4. y \in memory_log /\ th[t].buf \in Unit
  BY <1>1, <1>2 DEF Carries, Thread
<1>5. DataInv'
  BY <1>2, <1>3, <1>4, PutUnit DEF IndInv
<1>6. [th[t] EXCEPT !.pc = "cascade", !.scan = @ \ {y}, !.buf = None] \in Thread
  BY <1>1, StepNames DEF Thread
<1>7. Carries([th[t] EXCEPT !.pc = "cascade", !.scan = @ \ {y}, !.buf = None],
              memory_log')
  BY <1>1, <1>2 DEF Carries, Thread
<1>8. ThreadInv'
  BY <1>2, <1>3, <1>6, <1>7, ThreadStep DEF IndInv
<1> QED BY <1>5, <1>8 DEF IndInv

\* Stripping the posting lists only removes.
LEMMA DeleteUnindexInv ==
  ASSUME IndInv, NEW t \in Threads, DeleteUnindex(t)
  PROVE  IndInv'
<1>1. th[t] \in Thread /\ Carries(th[t], memory_log)
  BY ThreadFacts DEF IndInv
<1>2. DataInv'
  BY DEF DeleteUnindex, IndInv, DataInv, DataType, DerivedFromLog,
         AckedDurable, Visible, Present, ram, hist
<1>3. [th[t] EXCEPT !.pc = "unlink"] \in Thread
  BY <1>1, StepNames DEF Thread
<1>4. Carries([th[t] EXCEPT !.pc = "unlink"], memory_log')
  BY <1>1 DEF DeleteUnindex, At, Carries, Thread
<1>5. ThreadInv'
  BY <1>3, <1>4, ThreadStep DEF DeleteUnindex, Goto, IndInv
<1> QED BY <1>2, <1>5 DEF IndInv

\* Stripping the context links only removes.
LEMMA DeleteUnlinkInv ==
  ASSUME IndInv, NEW t \in Threads, DeleteUnlink(t)
  PROVE  IndInv'
<1>1. th[t] \in Thread /\ Carries(th[t], memory_log)
  BY ThreadFacts DEF IndInv
<1>2. th[t].cur \in Ids
  BY <1>1 DEF DeleteUnlink, At, Carries
<1>3. DataInv'
  BY <1>2 DEF DeleteUnlink, IndInv, DataInv, DataType, DerivedFromLog,
              AckedDurable, Visible, Present, ram
<1>4. [th[t] EXCEPT !.pc = "del_next", !.cur = None] \in Thread
  BY <1>1, StepNames DEF Thread
<1>5. Carries([th[t] EXCEPT !.pc = "del_next", !.cur = None], memory_log')
  BY <1>1 DEF DeleteUnlink, At, Carries, Thread
<1>6. ThreadInv'
  BY <1>4, <1>5, ThreadStep DEF DeleteUnlink, IndInv
<1> QED BY <1>3, <1>6 DEF IndInv

-----------------------------------------------------------------------------
(***************************************************************************)
(* retrieve.                                                               *)
(***************************************************************************)
\* A retrieval adds a trace over visible memories.
LEMMA RetrieveStartInv ==
  ASSUME IndInv, NEW t \in Threads, RetrieveStart(t)
  PROVE  IndInv'
<1>1. PICK R \in SUBSET {x \in Visible : memory_kv[x].into = None} :
      \E P \in SUBSET {p \in Ids \X R : link_overlay[p[1]] # None
                                       /\ p[2] \in Targets(link_overlay[p[1]])} :
        /\ traces' = traces \cup {P}
        /\ Now(t, [Idle EXCEPT !.op = "retrieve", !.pc = "touch", !.todo = R])
  BY Zenon DEF RetrieveStart
<1>2. /\ calls' = calls + 1
      /\ UNCHANGED <<memory_log, memory_kv, link_overlay, dense_vectors, postings,
                     context_links, activation_log, fulltext, ram,
                     issued, context, acked, gone, faults>>
  BY Zenon DEF RetrieveStart
<1>3. R \in SUBSET Ids
  BY DEF Visible
<1>4. DataInv'
  <2>1. PICK P \in SUBSET (Ids \X Ids) :
               traces' = traces \cup {P}
    BY <1>1, <1>3
  <2>2. traces' \in SUBSET SUBSET (Ids \X Ids)
    BY <1>3, <2>1 DEF IndInv, DataInv, DataType
  <2> QED BY <1>2, <2>2 DEF IndInv, DataInv, DataType, DerivedFromLog, AckedDurable,
                            Visible, Present, ram
<1>5. [Idle EXCEPT !.op = "retrieve", !.pc = "touch", !.todo = R] \in Thread
  BY <1>3, IdleOK, StepNames DEF Thread
<1>6. Carries([Idle EXCEPT !.op = "retrieve", !.pc = "touch", !.todo = R], memory_log')
  BY DEF Carries, Idle
<1>7. ThreadInv'
  BY <1>1, <1>2, <1>5, <1>6, ThreadStep DEF IndInv
<1> QED BY <1>4, <1>7 DEF IndInv

\* A result about to be touched is visible, hence logged.
LEMMA RetrieveTouchInv ==
  ASSUME IndInv, NEW t \in Threads, RetrieveTouch(t)
  PROVE  IndInv'
<1>1. th[t] \in Thread /\ Carries(th[t], memory_log)
  BY ThreadFacts DEF IndInv
<1>2. th[t].pc = "touch" /\ UNCHANGED <<disk, ram, hist>>
  BY Zenon DEF RetrieveTouch, At
<1>3. CASE Return(t)
  BY <1>2, <1>3, ReadReturn
<1>4. ASSUME NEW x \in th[t].todo,
             Now(t, IF Present(x)
                    THEN [th[t] EXCEPT !.pc = "touch_put", !.cur = x,
                                       !.buf = memory_kv[x]]
                    ELSE [th[t] EXCEPT !.todo = @ \ {x}])
      PROVE  IndInv'
  <2>1. x \in Ids
    BY <1>1 DEF Thread
  <2>2. CASE Present(x)
    <3>1. x \in memory_log /\ memory_kv[x] \in Unit /\ memory_kv[x] # None
      BY <2>1, <2>2 DEF Present, Visible, IndInv, DataInv, DataType, DerivedFromLog, Table
    <3>2. [th[t] EXCEPT !.pc = "touch_put", !.cur = x, !.buf = memory_kv[x]] \in Thread
      BY <1>1, <2>1, <3>1, StepNames DEF Thread
    <3>3. Carries([th[t] EXCEPT !.pc = "touch_put", !.cur = x,
                                !.buf = memory_kv[x]], memory_log)
      BY <1>1, <1>2, <3>1 DEF Carries, Thread
    <3> QED BY <1>2, <1>4, <2>2, <3>2, <3>3, ReadStep
  <2>3. CASE ~ Present(x)
    <3>1. [th[t] EXCEPT !.todo = @ \ {x}] \in Thread
      BY <1>1 DEF Thread
    <3>2. Carries([th[t] EXCEPT !.todo = @ \ {x}], memory_log)
      BY <1>1, <1>2 DEF Carries, Thread
    <3> QED BY <1>2, <1>4, <2>3, <3>1, <3>2, ReadStep
  <2> QED BY <2>2, <2>3
<1> QED BY <1>3, <1>4 DEF RetrieveTouch

\* The blind put of a touched unit is for a logged memory.
LEMMA RetrieveTouchPutInv ==
  ASSUME IndInv, NEW t \in Threads, RetrieveTouchPut(t)
  PROVE  IndInv'
<1>1. th[t] \in Thread /\ Carries(th[t], memory_log)
  BY ThreadFacts DEF IndInv
<1>2. /\ th[t].pc = "touch_put"
      /\ memory_kv' = [memory_kv EXCEPT ![th[t].cur] = th[t].buf]
      /\ UNCHANGED <<memory_log, link_overlay, dense_vectors, postings,
                     context_links, activation_log, traces, fulltext, ram, hist>>
      /\ Now(t, [th[t] EXCEPT !.pc = "touch", !.todo = @ \ {th[t].cur},
                              !.cur = None, !.buf = None])
  BY Zenon DEF RetrieveTouchPut, At
<1>3. th[t].cur \in memory_log /\ th[t].buf \in Unit
  BY <1>1, <1>2 DEF Carries, Thread
<1>4. DataInv'
  BY <1>2, <1>3, PutUnit DEF IndInv
<1>5. [th[t] EXCEPT !.pc = "touch", !.todo = @ \ {th[t].cur},
                    !.cur = None, !.buf = None] \in Thread
  BY <1>1, StepNames DEF Thread
<1>6. Carries([th[t] EXCEPT !.pc = "touch", !.todo = @ \ {th[t].cur},
                            !.cur = None, !.buf = None], memory_log')
  BY <1>1, <1>2 DEF Carries, Thread
<1>7. ThreadInv'
  BY <1>2, <1>5, <1>6, ThreadStep DEF IndInv
<1> QED BY <1>4, <1>7 DEF IndInv

-----------------------------------------------------------------------------
(***************************************************************************)
(* feedback.                                                               *)
(***************************************************************************)

\* The clamp keeps the adjusted unit a unit.
LEMMA AdjustType ==
  ASSUME NEW u \in Unit, NEW pos \in BOOLEAN
  PROVE  Adjust(u, pos) \in Unit
BY EngineAssumption DEF Adjust, Unit

\* Raising edges keeps every level in range.
LEMMA RaiseType ==
  ASSUME NEW l \in SUBSET Edge, NEW x
  PROVE  Raise(l, x) \in SUBSET Edge
<1> SUFFICES ASSUME NEW e \in l
             PROVE  (IF e.to = x /\ e.lvl < MaxLevel THEN [e EXCEPT !.lvl = @ + 1]
                     ELSE e) \in Edge
  BY DEF Raise
<1> QED BY EngineAssumption DEF Edge

\* Feedback logs a row over any ids, and carries a recorded edge.
LEMMA FeedbackStartInv ==
  ASSUME IndInv, NEW t \in Threads, FeedbackStart(t)
  PROVE  IndInv'
<1>1. PICK U \in SUBSET Ids, pos \in BOOLEAN, known \in BOOLEAN :
      \E p \in {None} \cup Carried(U) :
        /\ activation_log' = activation_log \cup U \X {pos}
        /\ Now(t, [Idle EXCEPT !.op = "feedback", !.pc = "usage",
                               !.todo = U, !.used = U, !.pos = pos,
                               !.known = known, !.path = p])
  BY Zenon DEF FeedbackStart
<1>2. PICK p \in {None} \cup Carried(U) :
        /\ activation_log' = activation_log \cup U \X {pos}
        /\ Now(t, [Idle EXCEPT !.op = "feedback", !.pc = "usage",
                               !.todo = U, !.used = U, !.pos = pos,
                               !.known = known, !.path = p])
  BY <1>1, Zenon
<1>4. /\ calls' = calls + 1
      /\ UNCHANGED <<memory_log, memory_kv, link_overlay, dense_vectors, postings,
                     context_links, traces, fulltext, ram,
                     issued, context, acked, gone, faults>>
  BY Zenon DEF FeedbackStart
<1>6. p \in {None} \cup (Ids \X Ids)
  BY <1>2 DEF Carried, IndInv, DataInv, DataType
<1>7. activation_log' \in SUBSET (Ids \X BOOLEAN)
  BY <1>2 DEF IndInv, DataInv, DataType
<1>8. DataInv'
  BY <1>4, <1>7 DEF IndInv, DataInv, DataType, DerivedFromLog, AckedDurable,
                    Visible, Present, ram
<1>9. [Idle EXCEPT !.op = "feedback", !.pc = "usage", !.todo = U, !.used = U,
                   !.pos = pos, !.known = known, !.path = p] \in Thread
  <2>1. PICK q : q = [Idle EXCEPT !.op = "feedback", !.pc = "usage", !.todo = U,
                                  !.used = U]
    OBVIOUS
  <2>2. q \in Thread
    BY <1>6, <2>1, IdleOK, StepNames DEF Thread
  <2>3. PICK w : w = [q EXCEPT !.pos = pos, !.path = p]
    OBVIOUS
  <2>4. w \in Thread
    BY <1>6, <2>2, <2>3 DEF Thread
  <2>5. [w EXCEPT !.known = known] \in Thread
    BY <2>4 DEF Thread
  <2> QED BY <2>1, <2>3, <2>5
<1>10. Carries([Idle EXCEPT !.op = "feedback", !.pc = "usage", !.todo = U, !.used = U,
                   !.pos = pos, !.known = known, !.path = p], memory_log')
  BY DEF Carries, Idle
<1>11. ThreadInv'
  BY <1>2, <1>4, <1>9, <1>10, ThreadStep DEF IndInv
<1> QED BY <1>8, <1>11 DEF IndInv

\* A used memory about to be adjusted is visible, hence logged.
LEMMA FeedbackUsageInv ==
  ASSUME IndInv, NEW t \in Threads, FeedbackUsage(t)
  PROVE  IndInv'
<1>1. th[t] \in Thread /\ Carries(th[t], memory_log)
  BY ThreadFacts DEF IndInv
<1>2. th[t].pc = "usage" /\ UNCHANGED <<disk, ram, hist>>
  BY Zenon DEF FeedbackUsage, At
<1>3. CASE Return(t)
  BY <1>2, <1>3, ReadReturn
<1>4. CASE Goto(t, "bind")
  <2>1. [th[t] EXCEPT !.pc = "bind"] \in Thread
    BY <1>1, StepNames DEF Thread
  <2>2. Carries([th[t] EXCEPT !.pc = "bind"], memory_log)
    BY <1>1, <1>2 DEF Carries, Thread
  <2> QED BY <1>2, <1>4, <2>1, <2>2, ReadStep DEF Goto
<1>5. ASSUME NEW x \in th[t].todo,
             Now(t, IF Present(x)
                    THEN [th[t] EXCEPT !.pc = "usage_put", !.cur = x,
                                       !.buf = Adjust(memory_kv[x], th[t].pos)]
                    ELSE [th[t] EXCEPT !.todo = @ \ {x}])
      PROVE  IndInv'
  <2>1. x \in Ids /\ th[t].pos \in BOOLEAN
    BY <1>1 DEF Thread
  <2>2. CASE Present(x)
    <3>1. x \in memory_log /\ memory_kv[x] \in Unit
      BY <2>1, <2>2 DEF Present, Visible, IndInv, DataInv, DataType, DerivedFromLog, Table
    <3>2. PICK b : b = Adjust(memory_kv[x], th[t].pos)
      OBVIOUS
    <3>3. b \in Unit /\ b # None
      BY <2>1, <3>1, <3>2, AdjustType, EngineAssumption
    <3>4. [th[t] EXCEPT !.pc = "usage_put", !.cur = x, !.buf = b] \in Thread
      BY <1>1, <2>1, <3>3, StepNames DEF Thread
    <3>5. Carries([th[t] EXCEPT !.pc = "usage_put", !.cur = x, !.buf = b], memory_log)
      BY <1>1, <1>2, <3>1, <3>3 DEF Carries, Thread
    <3> QED BY <1>2, <1>5, <2>2, <3>2, <3>4, <3>5, ReadStep
  <2>3. CASE ~ Present(x)
    <3>1. [th[t] EXCEPT !.todo = @ \ {x}] \in Thread
      BY <1>1 DEF Thread
    <3>2. Carries([th[t] EXCEPT !.todo = @ \ {x}], memory_log)
      BY <1>1, <1>2 DEF Carries, Thread
    <3> QED BY <1>2, <1>5, <2>3, <3>1, <3>2, ReadStep
  <2> QED BY <2>2, <2>3
<1> QED BY <1>3, <1>4, <1>5 DEF FeedbackUsage

\* The blind put of an adjusted unit is for a logged memory.
LEMMA FeedbackUsagePutInv ==
  ASSUME IndInv, NEW t \in Threads, FeedbackUsagePut(t)
  PROVE  IndInv'
<1>1. th[t] \in Thread /\ Carries(th[t], memory_log)
  BY ThreadFacts DEF IndInv
<1>2. /\ th[t].pc = "usage_put"
      /\ memory_kv' = [memory_kv EXCEPT ![th[t].cur] = th[t].buf]
      /\ UNCHANGED <<memory_log, link_overlay, dense_vectors, postings,
                     context_links, activation_log, traces, fulltext, ram, hist>>
      /\ Now(t, [th[t] EXCEPT !.pc = "usage", !.todo = @ \ {th[t].cur},
                              !.cur = None, !.buf = None])
  BY Zenon DEF FeedbackUsagePut, At
<1>3. th[t].cur \in memory_log /\ th[t].buf \in Unit
  BY <1>1, <1>2 DEF Carries, Thread
<1>4. DataInv'
  BY <1>2, <1>3, PutUnit DEF IndInv
<1>5. [th[t] EXCEPT !.pc = "usage", !.todo = @ \ {th[t].cur},
                    !.cur = None, !.buf = None] \in Thread
  BY <1>1, StepNames DEF Thread
<1>6. Carries([th[t] EXCEPT !.pc = "usage", !.todo = @ \ {th[t].cur},
                            !.cur = None, !.buf = None], memory_log')
  BY <1>1, <1>2 DEF Carries, Thread
<1>7. ThreadInv'
  BY <1>2, <1>5, <1>6, ThreadStep DEF IndInv
<1> QED BY <1>4, <1>7 DEF IndInv

\* Binding context links touches no other table.
LEMMA FeedbackBindInv ==
  ASSUME IndInv, NEW t \in Threads, FeedbackBind(t)
  PROVE  IndInv'
<1>1. th[t] \in Thread /\ Carries(th[t], memory_log)
  BY ThreadFacts DEF IndInv
<1>2. /\ th[t].pc = "bind"
      /\ \E B \in SUBSET th[t].used : context_links' \in {context_links, context_links \cup B}
      /\ UNCHANGED <<memory_log, memory_kv, link_overlay, dense_vectors, postings,
                     activation_log, traces, fulltext, ram, hist>>
  BY DEF FeedbackBind, At
<1>3. th[t].used \in SUBSET Ids
  BY <1>1 DEF Thread
<1>4. DataInv'
  BY <1>2, <1>3 DEF IndInv, DataInv, DataType, DerivedFromLog, AckedDurable,
                    Visible, Present, ram, hist
<1>5. CASE Return(t)
  BY <1>2, <1>4, <1>5, ReturnStep DEF IndInv
<1>6. CASE th[t].path # None /\ Goto(t, "edge_get")
  <2>1. [th[t] EXCEPT !.pc = "edge_get"] \in Thread
    BY <1>1, StepNames DEF Thread
  <2>2. Carries([th[t] EXCEPT !.pc = "edge_get"], memory_log')
    BY <1>1, <1>2, <1>6 DEF Carries, Thread
  <2>3. ThreadInv'
    BY <1>2, <1>6, <2>1, <2>2, ThreadStep DEF IndInv, Goto
  <2> QED BY <1>4, <2>3 DEF IndInv
<1> QED BY <1>5, <1>6 DEF FeedbackBind

\* An edge about to be raised starts at a visible, hence logged, memory.
LEMMA FeedbackEdgeGetInv ==
  ASSUME IndInv, NEW t \in Threads, FeedbackEdgeGet(t)
  PROVE  IndInv'
<1>1. th[t] \in Thread /\ Carries(th[t], memory_log)
  BY ThreadFacts DEF IndInv
<1>2. /\ th[t].pc = "edge_get"
      /\ UNCHANGED <<disk, ram, hist>>
      /\ Now(t, IF PointsAt(memory_kv[th[t].path[1]], th[t].path[2])
                THEN [th[t] EXCEPT !.pc = "edge_put",
                        !.buf = [memory_kv[th[t].path[1]] EXCEPT
                                    !.links = Raise(@, th[t].path[2])]]
                ELSE [th[t] EXCEPT !.pc = "row_get"])
  BY Zenon DEF FeedbackEdgeGet, At
<1>3. th[t].path # None /\ th[t].path[1] \in Ids
  BY <1>1, <1>2 DEF Carries, Thread
<1>4. CASE PointsAt(memory_kv[th[t].path[1]], th[t].path[2])
  <2>1. th[t].path[1] \in memory_log /\ memory_kv[th[t].path[1]] \in Unit
    BY <1>3, <1>4 DEF PointsAt, Present, Visible, IndInv, DataInv, DataType,
                      DerivedFromLog, Table
  <2>2. PICK l : l = Raise(memory_kv[th[t].path[1]].links, th[t].path[2])
    OBVIOUS
  <2>3. l \in SUBSET Edge
    BY <2>1, <2>2, RaiseType DEF Unit
  <2>4. PICK b : b = [memory_kv[th[t].path[1]] EXCEPT !.links = l]
    OBVIOUS
  <2>5. b \in Unit /\ b # None
    BY <2>1, <2>3, <2>4, EngineAssumption DEF Unit
  <2>6. [th[t] EXCEPT !.pc = "edge_put", !.buf = b] \in Thread
    BY <1>1, <2>5, StepNames DEF Thread
  <2>7. Carries([th[t] EXCEPT !.pc = "edge_put", !.buf = b], memory_log)
    BY <1>1, <1>2, <1>3, <2>1, <2>5 DEF Carries, Thread
  <2> QED BY <1>2, <1>4, <2>2, <2>4, <2>6, <2>7, ReadStep
<1>5. CASE ~ PointsAt(memory_kv[th[t].path[1]], th[t].path[2])
  <2>1. [th[t] EXCEPT !.pc = "row_get"] \in Thread
    BY <1>1, StepNames DEF Thread
  <2>2. Carries([th[t] EXCEPT !.pc = "row_get"], memory_log)
    BY <1>1, <1>2 DEF Carries, Thread
  <2> QED BY <1>2, <1>5, <2>1, <2>2, ReadStep
<1> QED BY <1>4, <1>5

\* The blind put of a raised edge is for a logged memory.
LEMMA FeedbackEdgePutInv ==
  ASSUME IndInv, NEW t \in Threads, FeedbackEdgePut(t)
  PROVE  IndInv'
<1>1. th[t] \in Thread /\ Carries(th[t], memory_log)
  BY ThreadFacts DEF IndInv
<1>2. /\ th[t].pc = "edge_put"
      /\ memory_kv' = [memory_kv EXCEPT ![th[t].path[1]] = th[t].buf]
      /\ Now(t, [th[t] EXCEPT !.pc = "row_get", !.buf = None])
      /\ UNCHANGED <<memory_log, link_overlay, dense_vectors, postings,
                     context_links, activation_log, traces, fulltext, ram, hist>>
  BY Zenon DEF FeedbackEdgePut, At
<1>3. th[t].path[1] \in memory_log /\ th[t].buf \in Unit
  BY <1>1, <1>2 DEF Carries, Thread
<1>4. DataInv'
  BY <1>2, <1>3, PutUnit DEF IndInv
<1>5. [th[t] EXCEPT !.pc = "row_get", !.buf = None] \in Thread
  BY <1>1, StepNames DEF Thread
<1>6. Carries([th[t] EXCEPT !.pc = "row_get", !.buf = None], memory_log')
  BY <1>1, <1>2 DEF Carries, Thread
<1>7. ThreadInv'
  BY <1>2, <1>5, <1>6, ThreadStep DEF IndInv
<1> QED BY <1>4, <1>7 DEF IndInv

\* A row about to be raised exists, hence is of a logged memory.
LEMMA FeedbackRowGetInv ==
  ASSUME IndInv, NEW t \in Threads, FeedbackRowGet(t)
  PROVE  IndInv'
<1>1. th[t] \in Thread /\ Carries(th[t], memory_log)
  BY ThreadFacts DEF IndInv
<1>2. th[t].pc = "row_get" /\ UNCHANGED <<disk, ram, hist>>
  BY Zenon DEF FeedbackRowGet, At
<1>3. CASE Return(t)
  BY <1>2, <1>3, ReadReturn
<1>4. CASE /\ link_overlay[th[t].path[1]] # None
           /\ Now(t, [th[t] EXCEPT !.pc = "row_put",
                        !.row = Raise(link_overlay[th[t].path[1]], th[t].path[2])])
  <2>1. th[t].path # None /\ th[t].path[1] \in Ids
    BY <1>1, <1>2 DEF Carries, Thread
  <2>2. /\ th[t].path[1] \in memory_log
        /\ link_overlay[th[t].path[1]] \in SUBSET Edge
    BY <1>4, <2>1 DEF IndInv, DataInv, DataType, DerivedFromLog
  <2>3. PICK l : l = Raise(link_overlay[th[t].path[1]], th[t].path[2])
    OBVIOUS
  <2>4. l \in SUBSET Edge
    BY <2>2, <2>3, RaiseType
  <2>5. [th[t] EXCEPT !.pc = "row_put", !.row = l] \in Thread
    BY <1>1, <2>4, StepNames DEF Thread
  <2>6. Carries([th[t] EXCEPT !.pc = "row_put", !.row = l], memory_log)
    BY <1>1, <1>2, <2>1, <2>2 DEF Carries, Thread
  <2> QED BY <1>2, <1>4, <2>3, <2>5, <2>6, ReadStep
<1> QED BY <1>3, <1>4 DEF FeedbackRowGet

\* The blind put of a raised row is for a logged memory.
LEMMA FeedbackRowPutInv ==
  ASSUME IndInv, NEW t \in Threads, FeedbackRowPut(t)
  PROVE  IndInv'
<1>1. th[t] \in Thread /\ Carries(th[t], memory_log)
  BY ThreadFacts DEF IndInv
<1>2. /\ th[t].pc = "row_put" /\ Return(t)
      /\ link_overlay' = [link_overlay EXCEPT ![th[t].path[1]] = th[t].row]
      /\ UNCHANGED <<memory_log, memory_kv, dense_vectors, postings,
                     context_links, activation_log, traces, fulltext, ram, hist>>
  BY Zenon DEF FeedbackRowPut, At
<1>3. th[t].path[1] \in memory_log /\ th[t].row \in SUBSET Edge
  BY <1>1, <1>2 DEF Carries, Thread
<1>4. DataInv'
  BY <1>2, <1>3, PutRow DEF IndInv
<1> QED BY <1>2, <1>4, ReturnStep DEF IndInv

-----------------------------------------------------------------------------
(***************************************************************************)
(* consolidate.                                                            *)
(***************************************************************************)

\* Each stage of a cycle turns links into links: reinforcing and weakening ...
LEMMA ReviewType ==
  ASSUME NEW e \in Edge, NEW x, NEW c
  PROVE  Weaken(x, Reinforce(e, c), c) \in Edge
<1>1. Reinforce(e, c) \in Edge
  BY EngineAssumption DEF Reinforce, Edge
<1>2. ASSUME NEW f \in Edge PROVE Weaken(x, f, c) \in Edge
  BY EngineAssumption DEF Weaken, Edge
<1> QED BY <1>1, <1>2

\* ... building co-activation edges ...
LEMMA NewEdgesType ==
  ASSUME NEW x, NEW c
  PROVE  NewEdges(x, c) \in SUBSET Edge
<1>1. ASSUME NEW y \in Ids PROVE [to |-> y, lvl |-> 1] \in Edge
  BY EngineAssumption DEF Edge
<1> QED BY <1>1 DEF NewEdges

\* ... decaying and compacting ...
LEMMA FadeType ==
  ASSUME NEW l \in SUBSET Edge, NEW age \in 0..2
  PROVE  Fade(l, age) \in SUBSET Edge
<1>1. ASSUME NEW e \in l
      PROVE  (IF age > 0 /\ e.lvl > 1 THEN [e EXCEPT !.lvl = @ - 1] ELSE e) \in Edge
  BY EngineAssumption DEF Edge
<1> QED BY <1>1 DEF Fade

\* ... which is the whole of run_cycle ...
LEMMA RunCycleType ==
  ASSUME NEW l \in SUBSET Edge, NEW x, NEW c, NEW age \in 0..2
  PROVE  RunCycle(x, l, c, age) \in SUBSET Edge
<1>1. {Weaken(x, Reinforce(e, c), c) : e \in {f \in l : Reviewed(x, f, c)}}
        \in SUBSET Edge
  BY ReviewType
<1>2. {f \in l : ~ Reviewed(x, f, c)} \in SUBSET Edge
  OBVIOUS
<1>3. Fade({f \in l : ~ Reviewed(x, f, c)}, age) \in SUBSET Edge
  BY <1>2, FadeType
<1> QED BY <1>1, <1>3, NewEdgesType DEF RunCycle

\* ... redirecting compressed targets.
LEMMA RedirectType ==
  ASSUME NEW l \in SUBSET Edge, NEW C, NEW s, C = {} \/ s \in Ids
  PROVE  Redirect(l, C, s) \in SUBSET Edge
<1>1. ASSUME NEW e \in l
      PROVE  (IF e.to \in C THEN [e EXCEPT !.to = s] ELSE e) \in Edge
  BY DEF Edge
<1> QED BY <1>1 DEF Redirect

\* A cycle that compresses nothing maps units to units, and keeps which
\* ids are loaded.
LEMMA CycleKeepsUnits ==
  ASSUME NEW units \in Table, NEW c, NEW age \in 0..2
  PROVE  /\ AfterCycle(units, c, age, {}, None) \in Table
         /\ \A x \in Ids : AfterCycle(units, c, age, {}, None)[x] # None
                              <=> units[x] # None
<1>1. ASSUME NEW x \in Ids, units[x] # None
      PROVE  [units[x] EXCEPT
                !.links = Redirect(RunCycle(x, @, c, age), {}, None),
                !.into  = IF x \in {} THEN None ELSE @] \in Unit
  <2>1. units[x] \in Unit
    BY <1>1 DEF Table
  <2>2. PICK l : l = units[x].links
    OBVIOUS
  <2>3. l \in SUBSET Edge
    BY <2>1, <2>2 DEF Unit
  <2>4. RunCycle(x, l, c, age) \in SUBSET Edge
    BY <2>3, RunCycleType
  <2>5. Redirect(RunCycle(x, l, c, age), {}, None) \in SUBSET Edge
    BY <2>4, RedirectType
  <2> QED BY <2>1, <2>2, <2>5 DEF Unit
<1> QED BY <1>1, EngineAssumption DEF AfterCycle, Table

\* So does a cycle that compresses cluster C into summary s.
LEMMA CompressKeepsUnits ==
  ASSUME NEW units \in Table, NEW c, NEW age \in 0..2,
         NEW C \in SUBSET Ids, NEW s \in Ids
  PROVE  /\ AfterCycle(units, c, age, C, s) \in Table
         /\ \A x \in Ids : AfterCycle(units, c, age, C, s)[x] # None
                              <=> units[x] # None
<1>1. ASSUME NEW x \in Ids, units[x] # None
      PROVE  [units[x] EXCEPT
                !.links = Redirect(RunCycle(x, @, c, age), C, s),
                !.into  = IF x \in C THEN s ELSE @] \in Unit
  <2>1. units[x] \in Unit
    BY <1>1 DEF Table
  <2>2. PICK l : l = units[x].links
    OBVIOUS
  <2>3. l \in SUBSET Edge
    BY <2>1, <2>2 DEF Unit
  <2>4. RunCycle(x, l, c, age) \in SUBSET Edge
    BY <2>3, RunCycleType
  <2>5. Redirect(RunCycle(x, l, c, age), C, s) \in SUBSET Edge
    BY <2>4, RedirectType
  <2> QED BY <2>1, <2>2, <2>5 DEF Unit
<1>2. \A x \in Ids : AfterCycle(units, c, age, C, s)[x] \in {None} \cup Unit
  BY <1>1 DEF AfterCycle
<1>3. AfterCycle(units, c, age, C, s) \in Table
  BY <1>2 DEF AfterCycle, Table
<1>4. None \notin Unit
  BY EngineAssumption
<1>5. \A x \in Ids : AfterCycle(units, c, age, C, s)[x] # None <=> units[x] # None
  BY <1>1, <1>4 DEF AfterCycle
<1> QED BY <1>3, <1>5

\* The units a cycle loads are visible, hence logged.
LEMMA ConsolidateStartInv ==
  ASSUME IndInv, NEW t \in Threads, ConsolidateStart(t)
  PROVE  IndInv'
<1>0. PICK units \in Loads :
        Now(t, [Idle EXCEPT !.op = "consolidate", !.pc = "cycle", !.snap = Snapshot(units)])
  BY Zenon DEF ConsolidateStart
<1>1. /\ calls' = calls + 1
      /\ UNCHANGED <<disk, ram, issued, context, acked, gone, faults>>
  BY Zenon DEF ConsolidateStart
<1>2. DataInv'
  BY <1>1 DEF IndInv, DataInv, DataType, DerivedFromLog, AckedDurable,
              Visible, Present, disk, ram
<1>3. [Idle EXCEPT !.op = "consolidate", !.pc = "cycle", !.snap = Snapshot(units)] \in Thread
  <2>1. Snapshot(units) \in Table
    BY SnapshotFacts DEF IndInv
  <2> QED BY <2>1, IdleOK, StepNames DEF Thread
<1>4. Carries([Idle EXCEPT !.op = "consolidate", !.pc = "cycle", !.snap = Snapshot(units)],
              memory_log')
  BY <1>1, SnapshotFacts DEF Carries, Idle, IndInv, disk
<1>5. ThreadInv'
  BY <1>0, <1>1, <1>3, <1>4, ThreadStep DEF IndInv, disk
<1> QED BY <1>2, <1>5 DEF IndInv

\* A cycle works on the copies and loads nothing new.
LEMMA ConsolidateCycleInv ==
  ASSUME IndInv, NEW t \in Threads, ConsolidateCycle(t)
  PROVE  IndInv'
<1>1. th[t] \in Thread /\ Carries(th[t], memory_log)
  BY ThreadFacts DEF IndInv
<1>2. th[t].pc = "cycle" /\ UNCHANGED <<disk, ram, hist>>
  BY Zenon DEF ConsolidateCycle, At
<1>3. PICK c \in CycleInputs, age \in 0..2 :
        Now(t, [th[t] EXCEPT
                   !.pc = "flush_kv",
                   !.snap = AfterCycle(@, c, age, {}, None),
                   !.todo = {x \in Ids : th[t].snap[x] # None}])
  BY Zenon DEF ConsolidateCycle
<1>4. PICK units, loaded : /\ units = AfterCycle(th[t].snap, c, age, {}, None)
                           /\ loaded = {x \in Ids : th[t].snap[x] # None}
  OBVIOUS
<1>5. /\ units \in Table /\ loaded \in SUBSET Ids
      /\ \A x \in Ids : units[x] # None <=> th[t].snap[x] # None
      /\ \A x \in loaded : units[x] # None
  <2>1. th[t].snap \in Table
    BY <1>1 DEF Thread
  <2>2. /\ AfterCycle(th[t].snap, c, age, {}, None) \in Table
        /\ \A x \in Ids : AfterCycle(th[t].snap, c, age, {}, None)[x] # None
                              <=> th[t].snap[x] # None
    BY <2>1, CycleKeepsUnits
  <2> QED BY <1>4, <2>2
<1>6. [th[t] EXCEPT !.pc = "flush_kv", !.snap = units, !.todo = loaded] \in Thread
  BY <1>1, <1>5, StepNames DEF Thread
<1>7. Carries([th[t] EXCEPT !.pc = "flush_kv", !.snap = units, !.todo = loaded],
              memory_log)
  <2>1. loaded \subseteq memory_log
    BY <1>1, <1>4, <1>5 DEF Carries, Thread
  <2> QED BY <1>1, <1>2, <1>5, <2>1 DEF Carries, Thread
<1> QED BY <1>2, <1>3, <1>4, <1>6, <1>7, ReadStep

\* Drawing a summary id and compressing its sources works on the copies too.
LEMMA ConsolidateCompressInv ==
  ASSUME IndInv, NEW t \in Threads, ConsolidateCompress(t)
  PROVE  IndInv'
<1>1. th[t] \in Thread /\ Carries(th[t], memory_log)
  BY ThreadFacts DEF IndInv
<1>2. th[t].pc = "cycle" /\ UNCHANGED <<disk, ram, acked, gone, calls, faults>>
  BY Zenon DEF ConsolidateCompress, At
<1>3. PICK c \in CycleInputs, age \in 0..2,
           C \in SUBSET Candidates(th[t].snap), s \in Ids :
        /\ issued' = issued \cup {s}
        /\ context' = [context EXCEPT ![s] = C]
        /\ Now(t, [th[t] EXCEPT
                   !.pc = "flush_kv",
                   !.cur = s,
                   !.snap = AfterCycle(@, c, age, C, s),
                   !.todo = {x \in Ids : th[t].snap[x] # None}])
  BY Zenon DEF ConsolidateCompress
<1>4. C \in SUBSET Ids
  BY DEF Candidates
<1>5. PICK units, loaded : /\ units = AfterCycle(th[t].snap, c, age, C, s)
                           /\ loaded = {x \in Ids : th[t].snap[x] # None}
  OBVIOUS
<1>6. /\ units \in Table /\ loaded \in SUBSET Ids
      /\ \A x \in Ids : units[x] # None <=> th[t].snap[x] # None
      /\ \A x \in loaded : units[x] # None
  <2>1. th[t].snap \in Table
    BY <1>1 DEF Thread
  <2>2. /\ AfterCycle(th[t].snap, c, age, C, s) \in Table
        /\ \A x \in Ids : AfterCycle(th[t].snap, c, age, C, s)[x] # None
                              <=> th[t].snap[x] # None
    BY <1>4, <2>1, CompressKeepsUnits
  <2> QED BY <1>5, <2>2
<1>7. DataInv'
  BY <1>2, <1>3, <1>4 DEF IndInv, DataInv, DataType, DerivedFromLog,
                          AckedDurable, Visible, Present, disk, ram
<1>8. [th[t] EXCEPT !.pc = "flush_kv", !.cur = s, !.snap = units, !.todo = loaded]
        \in Thread
  BY <1>1, <1>6, StepNames DEF Thread
<1>9. Carries([th[t] EXCEPT !.pc = "flush_kv", !.cur = s, !.snap = units,
                            !.todo = loaded], memory_log')
  <2>1. loaded \subseteq memory_log
    BY <1>1, <1>5, <1>6 DEF Carries, Thread
  <2>2. memory_log' = memory_log
    BY <1>2 DEF disk
  <2> QED BY <1>1, <1>2, <1>6, <2>1, <2>2 DEF Carries, Thread
<1>10. ThreadInv'
  BY <1>2, <1>3, <1>5, <1>8, <1>9, ThreadStep DEF IndInv, disk
<1> QED BY <1>7, <1>10 DEF IndInv

\* The blind puts of a cycle are for the memories it loaded.
LEMMA FlushKvInv ==
  ASSUME IndInv, NEW t \in Threads, FlushKv(t)
  PROVE  IndInv'
<1>1. th[t] \in Thread /\ Carries(th[t], memory_log)
  BY ThreadFacts DEF IndInv
<1>2. /\ th[t].pc = "flush_kv"
      /\ UNCHANGED <<memory_log, link_overlay, dense_vectors, postings,
                     context_links, activation_log, traces, fulltext, ram, hist>>
  BY Zenon DEF FlushKv, At
<1>3. CASE Return(t) /\ UNCHANGED memory_kv
  <2>1. UNCHANGED <<disk, ram, hist>>
    BY <1>2, <1>3 DEF disk
  <2> QED BY <1>3, <2>1, ReadReturn
<1>4. CASE th[t].cur # None /\ Goto(t, "summary") /\ UNCHANGED memory_kv
  <2>1. UNCHANGED <<disk, ram, hist>>
    BY <1>2, <1>4 DEF disk
  <2>2. [th[t] EXCEPT !.pc = "summary"] \in Thread
    BY <1>1, StepNames DEF Thread
  <2>3. Carries([th[t] EXCEPT !.pc = "summary"], memory_log)
    BY <1>1, <1>2, <1>4 DEF Carries, Thread
  <2> QED BY <1>4, <2>1, <2>2, <2>3, ReadStep DEF Goto
<1>5. ASSUME NEW x \in th[t].todo,
             memory_kv' = [memory_kv EXCEPT ![x] = th[t].snap[x]],
             Goto(t, "flush_row")
      PROVE  IndInv'
  <2>1. x \in memory_log /\ th[t].snap[x] \in Unit
    BY <1>1, <1>2 DEF Carries, Thread, Table
  <2>2. DataInv'
    BY <1>2, <1>5, <2>1, PutUnit DEF IndInv
  <2>3. [th[t] EXCEPT !.pc = "flush_row"] \in Thread
    BY <1>1, StepNames DEF Thread
  <2>4. Carries([th[t] EXCEPT !.pc = "flush_row"], memory_log')
    BY <1>1, <1>2 DEF Carries, Thread
  <2>5. ThreadInv'
    BY <1>2, <1>5, <2>3, <2>4, ThreadStep DEF IndInv, Goto
  <2> QED BY <2>2, <2>5 DEF IndInv
<1> QED BY <1>3, <1>4, <1>5 DEF FlushKv

\* So are its overlay rows.
LEMMA FlushRowInv ==
  ASSUME IndInv, NEW t \in Threads, FlushRow(t)
  PROVE  IndInv'
<1>1. th[t] \in Thread /\ Carries(th[t], memory_log)
  BY ThreadFacts DEF IndInv
<1>2. /\ th[t].pc = "flush_row"
      /\ UNCHANGED <<memory_log, memory_kv, dense_vectors, postings,
                     context_links, activation_log, traces, fulltext, ram, hist>>
  BY Zenon DEF FlushRow, At
<1>3. PICK x \in th[t].todo :
        /\ link_overlay' = [link_overlay EXCEPT ![x] = th[t].snap[x].links]
        /\ Now(t, [th[t] EXCEPT !.pc = "flush_kv", !.todo = @ \ {x}])
  BY Zenon DEF FlushRow
<1>4. x \in memory_log /\ th[t].snap[x].links \in SUBSET Edge
  BY <1>1, <1>2 DEF Carries, Thread, Table, Unit
<1>5. DataInv'
  BY <1>2, <1>3, <1>4, PutRow DEF IndInv
<1>6. [th[t] EXCEPT !.pc = "flush_kv", !.todo = @ \ {x}] \in Thread
  BY <1>1, StepNames DEF Thread
<1>7. Carries([th[t] EXCEPT !.pc = "flush_kv", !.todo = @ \ {x}], memory_log')
  BY <1>1, <1>2 DEF Carries, Thread
<1>8. ThreadInv'
  BY <1>2, <1>3, <1>6, <1>7, ThreadStep DEF IndInv
<1> QED BY <1>5, <1>8 DEF IndInv

\* The summary enters the write pipeline with the id drawn for it.
LEMMA SummaryWriteInv ==
  ASSUME IndInv, NEW t \in Threads, SummaryWrite(t)
  PROVE  IndInv'
<1>1. th[t] \in Thread /\ Carries(th[t], memory_log)
  BY ThreadFacts DEF IndInv
<1>2. th[t].pc = "summary" /\ UNCHANGED <<disk, hist>>
  BY Zenon DEF SummaryWrite, At
<1>3. PICK ok \in Embeds :
        EmbedInto(th[t].cur, ok) /\ Now(t, [th[t] EXCEPT !.pc = "discover", !.vec = ok])
  BY Zenon DEF SummaryWrite
<1>4. th[t].cur \in Ids /\ ok \in BOOLEAN
  BY <1>1, <1>2, EngineAssumption DEF Carries
<1>5. DataInv'
  BY <1>2, <1>3, <1>4 DEF IndInv, DataInv, DataType, DerivedFromLog, AckedDurable,
                          Visible, Present, disk, hist, EmbedInto
<1>6. [th[t] EXCEPT !.pc = "discover", !.vec = ok] \in Thread
  BY <1>1, <1>4, StepNames DEF Thread
<1>7. Carries([th[t] EXCEPT !.pc = "discover", !.vec = ok], memory_log')
  BY <1>1, <1>2 DEF Carries, Thread, disk
<1>8. ThreadInv'
  BY <1>2, <1>3, <1>6, <1>7, ThreadStep DEF IndInv, disk
<1> QED BY <1>5, <1>8 DEF IndInv

\* The overlay row of a persisted summary is overwritten.
LEMMA SealRowInv ==
  ASSUME IndInv, NEW t \in Threads, SealRow(t)
  PROVE  IndInv'
<1>1. th[t] \in Thread /\ Carries(th[t], memory_log)
  BY ThreadFacts DEF IndInv
<1>2. /\ th[t].pc = "seal_row" /\ Goto(t, "seal_get")
      /\ link_overlay' = [link_overlay EXCEPT ![th[t].cur] = {}]
      /\ UNCHANGED <<memory_log, memory_kv, dense_vectors, postings,
                     context_links, activation_log, traces, fulltext, ram, hist>>
  BY Zenon DEF SealRow, At
<1>3. th[t].cur \in memory_log /\ {} \in SUBSET Edge
  BY <1>1, <1>2 DEF Carries
<1>4. DataInv'
  BY <1>2, <1>3, PutRow DEF IndInv
<1>5. [th[t] EXCEPT !.pc = "seal_get"] \in Thread
  BY <1>1, StepNames DEF Thread
<1>6. Carries([th[t] EXCEPT !.pc = "seal_get"], memory_log')
  BY <1>1, <1>2 DEF Carries, Thread
<1>7. ThreadInv'
  BY <1>2, <1>5, <1>6, ThreadStep DEF IndInv, Goto
<1> QED BY <1>4, <1>7 DEF IndInv

\* A summary deleted meanwhile is not put back; another is read as a unit.
LEMMA SealGetInv ==
  ASSUME IndInv, NEW t \in Threads, SealGet(t)
  PROVE  IndInv'
<1>1. th[t] \in Thread /\ Carries(th[t], memory_log)
  BY ThreadFacts DEF IndInv
<1>2. th[t].pc = "seal_get" /\ UNCHANGED <<disk, ram, hist>>
  BY Zenon DEF SealGet, At
<1>3. CASE Return(t)
  BY <1>2, <1>3, ReadReturn
<1>4. CASE /\ Present(th[t].cur)
           /\ Now(t, [th[t] EXCEPT !.pc = "seal_put",
                        !.buf = [memory_kv[th[t].cur] EXCEPT !.links = {}, !.gen = "cons"]])
  <2>1. th[t].cur \in memory_log /\ th[t].cur \in Ids
    BY <1>1, <1>2 DEF Carries, IndInv, DataInv, DataType
  <2>2. memory_kv[th[t].cur] \in Unit
    BY <1>4, <2>1 DEF Present, IndInv, DataInv, DataType, Table
  <2>3. PICK b : b = [memory_kv[th[t].cur] EXCEPT !.links = {}, !.gen = "cons"]
    OBVIOUS
  <2>4. b \in Unit /\ b # None
    BY <2>2, <2>3, EngineAssumption DEF Unit
  <2>5. [th[t] EXCEPT !.pc = "seal_put", !.buf = b] \in Thread
    BY <1>1, <2>4, StepNames DEF Thread
  <2>6. Carries([th[t] EXCEPT !.pc = "seal_put", !.buf = b], memory_log)
    BY <1>1, <1>2, <2>4 DEF Carries, Thread
  <2> QED BY <1>2, <1>4, <2>3, <2>5, <2>6, ReadStep
<1> QED BY <1>3, <1>4 DEF SealGet

\* The put of the sealed summary is for a logged memory.
LEMMA SealPutInv ==
  ASSUME IndInv, NEW t \in Threads, SealPut(t)
  PROVE  IndInv'
<1>1. th[t] \in Thread /\ Carries(th[t], memory_log)
  BY ThreadFacts DEF IndInv
<1>2. /\ th[t].pc = "seal_put" /\ Return(t)
      /\ memory_kv' = [memory_kv EXCEPT ![th[t].cur] = th[t].buf]
      /\ UNCHANGED <<memory_log, link_overlay, dense_vectors, postings,
                     context_links, activation_log, traces, fulltext, ram, hist>>
  BY Zenon DEF SealPut, At
<1>3. th[t].cur \in memory_log /\ th[t].buf \in Unit
  BY <1>1, <1>2 DEF Carries, Thread
<1>4. DataInv'
  BY <1>2, <1>3, PutUnit DEF IndInv
<1> QED BY <1>2, <1>4, ReturnStep DEF IndInv

-----------------------------------------------------------------------------
(***************************************************************************)
(* consolidate(Reindex), faults.                                           *)
(***************************************************************************)
\* A reindex starts from ids of the log.
LEMMA ReindexStartInv ==
  ASSUME IndInv, NEW t \in Threads, ReindexStart(t)
  PROVE  IndInv'
<1>1. /\ Now(t, [Idle EXCEPT !.op = "reindex", !.pc = "clear", !.todo = memory_log])
      /\ calls' = calls + 1
      /\ UNCHANGED <<disk, ram, issued, context, acked, gone, faults>>
  BY Zenon DEF ReindexStart
<1>2. DataInv'
  BY <1>1 DEF IndInv, DataInv, DataType, DerivedFromLog, AckedDurable,
              Visible, Present, disk, ram
<1>3. [Idle EXCEPT !.op = "reindex", !.pc = "clear", !.todo = memory_log] \in Thread
  <2>1. memory_log \in SUBSET Ids
    BY DEF IndInv, DataInv, DataType
  <2> QED BY <2>1, IdleOK, StepNames DEF Thread
<1>4. Carries([Idle EXCEPT !.op = "reindex", !.pc = "clear", !.todo = memory_log],
              memory_log')
  BY <1>1 DEF Carries, Idle, disk
<1>5. ThreadInv'
  BY <1>1, <1>3, <1>4, ThreadStep DEF IndInv, disk
<1> QED BY <1>2, <1>5 DEF IndInv

\* Clearing the state tables leaves nothing to be derived, and keeps the log.
LEMMA ReindexClearInv ==
  ASSUME IndInv, NEW t \in Threads, ReindexClear(t)
  PROVE  IndInv'
<1>1. th[t] \in Thread /\ Carries(th[t], memory_log)
  BY ThreadFacts DEF IndInv
<1>2. Visible' = {} /\ {x \in Ids : link_overlay'[x] # None} = {}
  BY DEF ReindexClear, Visible, Present
<1>3. DataType'
  BY DEF ReindexClear, IndInv, DataInv, DataType, Table, ram, hist
<1>4. DerivedFromLog' /\ AckedDurable'
  BY <1>2 DEF ReindexClear, IndInv, DataInv, DerivedFromLog, AckedDurable, hist
<1>5. [th[t] EXCEPT !.pc = "fts"] \in Thread
  BY <1>1, StepNames DEF Thread
<1>6. Carries([th[t] EXCEPT !.pc = "fts"], memory_log')
  BY <1>1 DEF ReindexClear, At, Carries, Thread
<1>7. ThreadInv'
  BY <1>5, <1>6, ThreadStep DEF ReindexClear, Goto, IndInv
<1> QED BY <1>3, <1>4, <1>7 DEF IndInv, DataInv

\* Recreating the full-text directory only removes.
LEMMA ReindexFulltextInv ==
  ASSUME IndInv, NEW t \in Threads, ReindexFulltext(t)
  PROVE  IndInv'
<1>1. th[t] \in Thread /\ Carries(th[t], memory_log)
  BY ThreadFacts DEF IndInv
<1>2. DataInv'
  BY DEF ReindexFulltext, IndInv, DataInv, DataType, DerivedFromLog, AckedDurable,
         Visible, Present, ram, hist
<1>3. [th[t] EXCEPT !.pc = "ram"] \in Thread
  BY <1>1, StepNames DEF Thread
<1>4. Carries([th[t] EXCEPT !.pc = "ram"], memory_log')
  BY <1>1 DEF ReindexFulltext, At, Carries, Thread
<1>5. ThreadInv'
  BY <1>3, <1>4, ThreadStep DEF ReindexFulltext, Goto, IndInv
<1> QED BY <1>2, <1>5 DEF IndInv

\* Clearing the in-memory indexes touches no table.
LEMMA ReindexRamInv ==
  ASSUME IndInv, NEW t \in Threads, ReindexRam(t)
  PROVE  IndInv'
<1>1. th[t] \in Thread /\ Carries(th[t], memory_log)
  BY ThreadFacts DEF IndInv
<1>2. DataInv'
  BY DEF ReindexRam, IndInv, DataInv, DataType, DerivedFromLog, AckedDurable,
         Visible, Present, disk, hist
<1>3. [th[t] EXCEPT !.pc = "re_next"] \in Thread
  BY <1>1, StepNames DEF Thread
<1>4. Carries([th[t] EXCEPT !.pc = "re_next"], memory_log')
  BY <1>1 DEF ReindexRam, At, Carries, Thread, disk
<1>5. ThreadInv'
  BY <1>3, <1>4, ThreadStep DEF ReindexRam, Goto, IndInv, disk
<1> QED BY <1>2, <1>5 DEF IndInv

\* The record to replay next comes from the log.
LEMMA ReindexNextInv ==
  ASSUME IndInv, NEW t \in Threads, ReindexNext(t)
  PROVE  IndInv'
<1>1. th[t] \in Thread /\ Carries(th[t], memory_log)
  BY ThreadFacts DEF IndInv
<1>2. th[t].pc = "re_next" /\ UNCHANGED <<disk, hist>>
  BY Zenon DEF ReindexNext, At
<1>3. CASE Return(t) /\ UNCHANGED ram
  BY <1>2, <1>3, ReadReturn
<1>4. ASSUME NEW x \in th[t].todo, NEW ok \in Embeds, EmbedInto(x, ok),
             Now(t, [th[t] EXCEPT !.pc = "discover", !.cur = x, !.vec = ok])
      PROVE  IndInv'
  <2>1. x \in Ids /\ ok \in BOOLEAN
    BY <1>1, EngineAssumption DEF Thread
  <2>2. DataInv'
    BY <1>2, <1>4, <2>1 DEF IndInv, DataInv, DataType, DerivedFromLog, AckedDurable,
                            Visible, Present, disk, hist, EmbedInto
  <2>3. [th[t] EXCEPT !.pc = "discover", !.cur = x, !.vec = ok] \in Thread
    BY <1>1, <2>1, StepNames DEF Thread
  <2>4. th[t].op = "reindex" => x \in memory_log
    BY <1>1 DEF Carries
  <2>5. Carries([th[t] EXCEPT !.pc = "discover", !.cur = x, !.vec = ok], memory_log')
    BY <1>1, <1>2, <2>1, <2>4 DEF Carries, Thread, disk
  <2>6. ThreadInv'
    BY <1>2, <1>4, <2>3, <2>5, ThreadStep DEF IndInv, disk
  <2> QED BY <2>2, <2>6 DEF IndInv
<1> QED BY <1>3, <1>4 DEF ReindexNext

\* An error that ends a call leaves the tables as its last step left them.
LEMMA FailInv ==
  ASSUME IndInv, NEW t \in Threads, Fail(t)
  PROVE  IndInv'
<1>1. DataInv'
  BY DEF Fail, IndInv, DataInv, DataType, DerivedFromLog, AckedDurable,
         Visible, Present, disk, ram
<1>2. ThreadInv'
  BY ReturnStep DEF Fail, IndInv, disk
<1> QED BY <1>1, <1>2 DEF IndInv

\* A crash loses what the threads carry; open rebuilds indexes of logged ids.
LEMMA RestartInv ==
  ASSUME IndInv, Restart
  PROVE  IndInv'
<1>1. DataInv'
  BY DEF Restart, IndInv, DataInv, DataType, DerivedFromLog, AckedDurable,
         Visible, Present, disk
<1>2. ThreadInv'
  BY IdleOK DEF Restart, ThreadInv, ThreadsCarryLogged
<1> QED BY <1>1, <1>2 DEF IndInv

-----------------------------------------------------------------------------
(***************************************************************************)
(* The theorems.                                                           *)
(***************************************************************************)
\* A stuttering step changes nothing.
LEMMA StutterInv ==
  ASSUME IndInv, UNCHANGED vars
  PROVE  IndInv'
<1>1. DataInv'
  BY DataFrame DEF IndInv, vars
<1>2. ThreadInv'
  BY DEF IndInv, ThreadInv, ThreadsCarryLogged, vars, disk
<1> QED BY <1>1, <1>2 DEF IndInv

\* Every step of the engine preserves the invariant.
LEMMA NextInv ==
  ASSUME IndInv, [Next]_vars
  PROVE  IndInv'
<1>1. ASSUME NEW t \in Threads, WriteStep(t) PROVE IndInv'
  BY <1>1, WriteStartInv, WriteDiscoverInv, WriteLinkInv, WritePersistInv, WriteFulltextInv,
     WriteEnrichInv, WriteReputInv DEF WriteStep
<1>2. ASSUME NEW t \in Threads, DeleteStep(t) PROVE IndInv'
  BY <1>2, DeleteStartInv, DeleteNextInv, DeleteRemoveInv, DeleteCascadeInv, DeleteCascadeGetInv,
     DeleteCascadePutInv, DeleteUnindexInv, DeleteUnlinkInv DEF DeleteStep
<1>3. ASSUME NEW t \in Threads, RetrieveStep(t) PROVE IndInv'
  BY <1>3, RetrieveStartInv, RetrieveTouchInv, RetrieveTouchPutInv DEF RetrieveStep
<1>4. ASSUME NEW t \in Threads, FeedbackStep(t) PROVE IndInv'
  BY <1>4, FeedbackStartInv, FeedbackUsageInv, FeedbackUsagePutInv, FeedbackBindInv,
     FeedbackEdgeGetInv, FeedbackEdgePutInv, FeedbackRowGetInv, FeedbackRowPutInv
  DEF FeedbackStep
<1>5. ASSUME NEW t \in Threads, ConsolidateStep(t) PROVE IndInv'
  BY <1>5, ConsolidateStartInv, ConsolidateCycleInv, ConsolidateCompressInv,
     FlushKvInv, FlushRowInv, SummaryWriteInv, SealRowInv, SealGetInv, SealPutInv
  DEF ConsolidateStep
<1>6. ASSUME NEW t \in Threads, ReindexStep(t) PROVE IndInv'
  BY <1>6, ReindexStartInv, ReindexClearInv, ReindexFulltextInv, ReindexRamInv,
     ReindexNextInv DEF ReindexStep
<1> QED BY <1>1, <1>2, <1>3, <1>4, <1>5, <1>6, FailInv, RestartInv, StutterInv DEF Next

\* IndInv is an invariant of the engine.
THEOREM Invariance == Spec => []IndInv
BY InitInv, NextInv, PTL DEF Spec

\* Tables, indexes and thread-local values keep their types: usage and link
\* levels stay in range and every put has a unit to put.
THEOREM TypeCorrect == Spec => []TypeOK
<1>1. IndInv => TypeOK
  BY DEF IndInv, DataInv, DataType, ThreadInv, TypeOK
<1> QED BY <1>1, Invariance, PTL

\* Whatever the interleaving of calls, failed steps and crashes, everything
\* the state tables and the full-text index hold is about a logged memory.
THEOREM StateIsDerivedFromLog == Spec => []DerivedFromLog
<1>1. IndInv => DerivedFromLog
  BY DEF IndInv, DataInv
<1> QED BY <1>1, Invariance, PTL

\* A memory whose write returned Ok is in the log for ever.
THEOREM AckedMemoriesAreDurable == Spec => []AckedDurable
<1>1. IndInv => AckedDurable
  BY DEF IndInv, DataInv
<1> QED BY <1>1, Invariance, PTL

\* A thread never carries from one transaction to the next anything whose put
\* would create a row for a memory without a raw record.
THEOREM StaleCopiesAreSafe == Spec => []ThreadsCarryLogged
<1>1. IndInv => ThreadsCarryLogged
  BY DEF IndInv, ThreadInv
<1> QED BY <1>1, Invariance, PTL

-----------------------------------------------------------------------------
(***************************************************************************)
(* Refinement: a step of the engine is a step of DurableMemory, or leaves  *)
(* memory_log and the visible memories as they are.                        *)
(***************************************************************************)
DMStep == [Durable!DMNext]_(Durable!dmVars)

\* A step that leaves the log and the units alone is a stuttering step.
LEMMA NoUnitTouched ==
  ASSUME UNCHANGED <<memory_log, memory_kv>>
  PROVE  DMStep
<1>1. Visible' = Visible
  BY DEF Visible, Present
<1> QED BY <1>1 DEF DMStep, Durable!dmVars

\* A put of a unit for a logged memory is a Restore step.
LEMMA UnitPut ==
  ASSUME IndInv, NEW x \in memory_log, NEW u \in Unit,
         memory_kv' = [memory_kv EXCEPT ![x] = u], UNCHANGED memory_log
  PROVE  DMStep
<1>1. x \in Ids
  BY DEF IndInv, DataInv, DataType
<1>2. Visible' = Visible \cup {x}
  BY <1>1, EngineAssumption DEF IndInv, DataInv, DataType, Table, Visible, Present
<1>3. Durable!Restore(x)
  BY <1>2 DEF Durable!Restore
<1> QED BY <1>1, <1>3 DEF DMStep, Durable!DMNext

\* persist_memory_unit is a Record step, or a Restore step of a reindex.
LEMMA PersistRefines ==
  ASSUME IndInv, NEW t \in Threads, WritePersist(t)
  PROVE  DMStep
<1>1. th[t] \in Thread /\ Carries(th[t], memory_log)
  BY ThreadFacts DEF IndInv
<1>2. th[t].cur \in Ids /\ th[t].buf \in Unit
  BY <1>1 DEF WritePersist, At, Carries, Thread
<1>3. CASE (th[t].op = "reindex" \/ th[t].cur \notin memory_log) /\ PersistUnit(t)
  <2>1. Visible' = Visible \cup {th[t].cur}
    BY <1>2, <1>3, EngineAssumption
    DEF PersistUnit, IndInv, DataInv, DataType, Table, Visible, Present
  <2>2. CASE th[t].op = "reindex"
    <3>1. th[t].cur \in memory_log
      BY <1>1, <1>2, <2>2, EngineAssumption DEF Carries
    <3>2. Durable!Restore(th[t].cur)
      BY <1>3, <2>1, <2>2, <3>1 DEF PersistUnit, Durable!Restore
    <3> QED BY <1>2, <3>2 DEF DMStep, Durable!DMNext
  <2>3. CASE th[t].op # "reindex"
    <3>1. Durable!Record(th[t].cur)
      BY <1>3, <2>1, <2>3 DEF PersistUnit, Durable!Record
    <3> QED BY <1>2, <3>1 DEF DMStep, Durable!DMNext
  <2> QED BY <2>2, <2>3
<1>4. CASE UNCHANGED disk
  BY <1>4, NoUnitTouched DEF disk
<1> QED BY <1>3, <1>4 DEF WritePersist

\* The write pipeline records one memory and restores it once.
LEMMA WriteRefines ==
  ASSUME IndInv, NEW t \in Threads, WriteStep(t)
  PROVE  DMStep
<1>1. th[t] \in Thread /\ Carries(th[t], memory_log)
  BY ThreadFacts DEF IndInv
<1>2. CASE WriteReput(t)
  <2>1. th[t].cur \in memory_log /\ th[t].buf \in Unit
    BY <1>1, <1>2 DEF WriteReput, At, Carries, Thread
  <2> QED BY <1>2, <2>1, UnitPut DEF WriteReput
<1>3. CASE \/ WriteStart(t) \/ WriteDiscover(t) \/ WriteLink(t)
           \/ WriteFulltext(t) \/ WriteEnrich(t)
  <2>1. UNCHANGED <<memory_log, memory_kv>>
    BY <1>3 DEF WriteStart, WriteDiscover, WriteLink, WriteFulltext, WriteEnrich, disk
  <2> QED BY <2>1, NoUnitTouched
<1> QED BY <1>2, <1>3, PersistRefines DEF WriteStep

\* delete withdraws its victims; its cascade can only restore.
LEMMA DeleteRefines ==
  ASSUME IndInv, NEW t \in Threads, DeleteStep(t)
  PROVE  DMStep
<1>1. th[t] \in Thread /\ Carries(th[t], memory_log)
  BY ThreadFacts DEF IndInv
<1>2. CASE DeleteRemove(t)
  <2>1. PICK x : x = th[t].cur
    OBVIOUS
  <2>2. x \in Ids /\ memory_kv' = [memory_kv EXCEPT ![x] = None] /\ UNCHANGED memory_log
    BY <1>1, <1>2, <2>1 DEF DeleteRemove, At, Carries
  <2>3. Visible' = Visible \ {x}
    BY <2>2 DEF IndInv, DataInv, DataType, Table, Visible, Present
  <2>4. Durable!Withdraw({x}) /\ {x} \in SUBSET Ids
    BY <2>2, <2>3 DEF Durable!Withdraw
  <2> QED BY <2>4 DEF DMStep, Durable!DMNext
<1>3. CASE DeleteCascadePut(t)
  <2>1. PICK y \in th[t].scan : memory_kv' = [memory_kv EXCEPT ![y] = th[t].buf]
    BY <1>3, Zenon DEF DeleteCascadePut
  <2>2. y \in memory_log /\ th[t].buf \in Unit /\ UNCHANGED memory_log
    BY <1>1, <1>3 DEF DeleteCascadePut, At, Carries, Thread
  <2> QED BY <2>1, <2>2, UnitPut
<1>4. CASE \/ DeleteStart(t) \/ DeleteNext(t) \/ DeleteCascade(t)
           \/ DeleteCascadeGet(t) \/ DeleteUnindex(t) \/ DeleteUnlink(t)
  <2>1. UNCHANGED <<memory_log, memory_kv>>
    BY <1>4 DEF DeleteStart, DeleteNext, DeleteCascade, DeleteCascadeGet, DeleteUnindex,
                DeleteUnlink, disk
  <2> QED BY <2>1, NoUnitTouched
<1> QED BY <1>2, <1>3, <1>4 DEF DeleteStep

\* retrieve can only restore.
LEMMA RetrieveRefines ==
  ASSUME IndInv, NEW t \in Threads, RetrieveStep(t)
  PROVE  DMStep
<1>1. th[t] \in Thread /\ Carries(th[t], memory_log)
  BY ThreadFacts DEF IndInv
<1>2. CASE RetrieveTouchPut(t)
  <2>1. th[t].cur \in memory_log /\ th[t].buf \in Unit
    BY <1>1, <1>2 DEF RetrieveTouchPut, At, Carries, Thread
  <2> QED BY <1>2, <2>1, UnitPut DEF RetrieveTouchPut
<1>3. CASE RetrieveStart(t) \/ RetrieveTouch(t)
  <2>1. UNCHANGED <<memory_log, memory_kv>>
    BY <1>3 DEF RetrieveStart, RetrieveTouch, disk
  <2> QED BY <2>1, NoUnitTouched
<1> QED BY <1>2, <1>3 DEF RetrieveStep

\* feedback can only restore.
LEMMA FeedbackRefines ==
  ASSUME IndInv, NEW t \in Threads, FeedbackStep(t)
  PROVE  DMStep
<1>1. th[t] \in Thread /\ Carries(th[t], memory_log)
  BY ThreadFacts DEF IndInv
<1>2. CASE FeedbackUsagePut(t)
  <2>1. th[t].cur \in memory_log /\ th[t].buf \in Unit
    BY <1>1, <1>2 DEF FeedbackUsagePut, At, Carries, Thread
  <2> QED BY <1>2, <2>1, UnitPut DEF FeedbackUsagePut
<1>3. CASE FeedbackEdgePut(t)
  <2>1. th[t].path[1] \in memory_log /\ th[t].buf \in Unit
    BY <1>1, <1>3 DEF FeedbackEdgePut, At, Carries, Thread
  <2> QED BY <1>3, <2>1, UnitPut DEF FeedbackEdgePut
<1>4. CASE \/ FeedbackStart(t) \/ FeedbackUsage(t) \/ FeedbackBind(t)
           \/ FeedbackEdgeGet(t) \/ FeedbackRowGet(t) \/ FeedbackRowPut(t)
  <2>1. UNCHANGED <<memory_log, memory_kv>>
    BY <1>4 DEF FeedbackStart, FeedbackUsage, FeedbackBind, FeedbackEdgeGet,
                FeedbackRowGet, FeedbackRowPut, disk
  <2> QED BY <2>1, NoUnitTouched
<1> QED BY <1>2, <1>3, <1>4 DEF FeedbackStep

\* consolidate can only restore (and record, through the write pipeline).
LEMMA ConsolidateRefines ==
  ASSUME IndInv, NEW t \in Threads, ConsolidateStep(t)
  PROVE  DMStep
<1>1. th[t] \in Thread /\ Carries(th[t], memory_log)
  BY ThreadFacts DEF IndInv
<1>2. CASE FlushKv(t)
  <2>1. CASE UNCHANGED memory_kv
    BY <1>2, <2>1, NoUnitTouched DEF FlushKv
  <2>2. ASSUME NEW x \in th[t].todo,
               memory_kv' = [memory_kv EXCEPT ![x] = th[t].snap[x]]
        PROVE  DMStep
    <3>1. x \in memory_log /\ th[t].snap[x] \in Unit /\ UNCHANGED memory_log
      BY <1>1, <1>2 DEF FlushKv, At, Carries, Thread, Table
    <3> QED BY <2>2, <3>1, UnitPut
  <2> QED BY <1>2, <2>1, <2>2 DEF FlushKv
<1>3. CASE SealPut(t)
  <2>1. th[t].cur \in memory_log /\ th[t].buf \in Unit
    BY <1>1, <1>3 DEF SealPut, At, Carries, Thread
  <2> QED BY <1>3, <2>1, UnitPut DEF SealPut
<1>4. CASE \/ ConsolidateStart(t) \/ ConsolidateCycle(t) \/ ConsolidateCompress(t)
           \/ FlushRow(t) \/ SummaryWrite(t) \/ SealRow(t) \/ SealGet(t)
  <2>1. UNCHANGED <<memory_log, memory_kv>>
    BY <1>4 DEF ConsolidateStart, ConsolidateCycle, ConsolidateCompress,
                FlushRow, SummaryWrite, SealRow, SealGet, disk
  <2> QED BY <2>1, NoUnitTouched
<1> QED BY <1>2, <1>3, <1>4 DEF ConsolidateStep

\* reindex withdraws every memory at once.
LEMMA ReindexRefines ==
  ASSUME IndInv, NEW t \in Threads, ReindexStep(t)
  PROVE  DMStep
<1>1. CASE ReindexClear(t)
  <2>1. Visible' = Visible \ Ids /\ UNCHANGED memory_log
    BY <1>1 DEF ReindexClear, Visible, Present
  <2>2. Durable!Withdraw(Ids)
    BY <2>1 DEF Durable!Withdraw
  <2> QED BY <2>2 DEF DMStep, Durable!DMNext
<1>2. CASE ReindexStart(t) \/ ReindexFulltext(t) \/ ReindexRam(t) \/ ReindexNext(t)
  <2>1. UNCHANGED <<memory_log, memory_kv>>
    BY <1>2 DEF ReindexStart, ReindexFulltext, ReindexRam, ReindexNext, disk
  <2> QED BY <2>1, NoUnitTouched
<1> QED BY <1>1, <1>2 DEF ReindexStep

\* Every step of the engine is a step of DurableMemory or a stuttering step.
LEMMA NextRefines ==
  ASSUME IndInv, [Next]_vars
  PROVE  DMStep
<1>1. ASSUME NEW t \in Threads, Fail(t) PROVE DMStep
  BY <1>1, NoUnitTouched DEF Fail, disk
<1>2. CASE Restart
  BY <1>2, NoUnitTouched DEF Restart, disk
<1>3. CASE UNCHANGED vars
  BY <1>3, NoUnitTouched DEF vars, disk
<1> QED BY <1>1, <1>2, <1>3, WriteRefines, DeleteRefines, RetrieveRefines,
           FeedbackRefines, ConsolidateRefines, ReindexRefines DEF Next

\* The engine implements DurableMemory: in every interleaving and after every
\* crash a memory becomes durable and visible in one step, never stops being
\* durable, and is put back only if it is durable.
THEOREM EngineImplementsDurableMemory == Spec => ImplementsDurableMemory
<1>1. Init => Durable!DMInit
  <2>1. ASSUME Init PROVE Visible = {}
    BY <2>1 DEF Init, Visible, Present
  <2> QED BY <2>1 DEF Init, Durable!DMInit
<1>2. IndInv /\ [Next]_vars => [Durable!DMNext]_(Durable!dmVars)
  BY NextRefines DEF DMStep
<1> QED BY <1>1, <1>2, Invariance, PTL
        DEF Spec, ImplementsDurableMemory, Durable!DMSpec
=============================================================================
