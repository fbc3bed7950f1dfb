---------------------------- MODULE SerialProofs ----------------------------
(***************************************************************************)
(* Proofs about an engine with one caller: what holds of its indexes at    *)
(* every step of every call, whatever fails or crashes.                    *)
(*                                                                         *)
(* The first part says, action by action, what a step changes and what the *)
(* thread holds afterwards; the proofs here and in the modules that extend *)
(* this one use the actions only through these lemmas.                     *)
(***************************************************************************)
EXTENDS MemoryEngineProofs

-----------------------------------------------------------------------------
(***************************************************************************)
(* What the steps do.                                                      *)
(***************************************************************************)
\* A snapshot that has just been loaded: copies of units, of all of them unless
\* rows may be unreadable.
FreshSnapshot(units) ==
  /\ \A x \in Ids : units[x] # None => units[x] = memory_kv[x]
  /\ MaxFaults = 0 => units = memory_kv

\* What a thread that moves holds next.
LEMMA Moved ==
  ASSUME IndInv, NEW t \in Threads, NEW r, Now(t, r)
  PROVE  th'[t] = r /\ th[t] \in Thread
BY DEF IndInv, ThreadInv, Now

\* A write draws the next id and inserts it into the in-memory indexes.
LEMMA WriteStartEffect ==
  ASSUME IndInv, NEW t \in Threads, WriteStart(t)
  PROVE  /\ th[t].pc = "idle"
         /\ UNCHANGED <<disk, context, acked, gone, faults>>
         /\ \E id \in Ids, ok \in Embeds :
                /\ Least(id, Ids \ issued)
                /\ th'[t].pc = "discover" /\ th'[t].op = "write" /\ th'[t].cur = id
                /\ th'[t].todo = {} /\ th'[t].scan = {} /\ th'[t].snap = Idle.snap
                /\ th'[t].buf = None
                /\ issued' = issued \cup {id}
                /\ EmbedInto(id, ok)
<1>1. /\ th[t].pc = "idle"
      /\ UNCHANGED <<disk, context, acked, gone, faults>>
      /\ \E id \in Ids, ok \in Embeds :
             /\ Least(id, Ids \ issued)
             /\ Now(t, [Idle EXCEPT !.op = "write", !.pc = "discover", !.cur = id,
                                    !.vec = ok])
             /\ issued' = issued \cup {id}
             /\ EmbedInto(id, ok)
  BY Zenon DEF WriteStart, At, Goto, CanStart
<1>2. /\ th[t].pc = "idle"
      /\ \E id \in Ids, ok \in Embeds :
             /\ Least(id, Ids \ issued)
             /\ th'[t] = [Idle EXCEPT !.op = "write", !.pc = "discover", !.cur = id,
                                      !.vec = ok]
             /\ issued' = issued \cup {id}
             /\ EmbedInto(id, ok)
  BY <1>1, Moved DEF Return
<1>3. th[t] \in Thread
  BY ThreadFacts DEF IndInv
<1> QED BY <1>1, <1>2, <1>3 DEF Thread, Idle

\* Discovery keeps the posted ids, without the new one.
LEMMA WriteDiscoverEffect ==
  ASSUME IndInv, NEW t \in Threads, WriteDiscover(t)
  PROVE  /\ th[t].pc = "discover"
         /\ UNCHANGED <<disk, ram, hist>>
         /\ th'[t].pc = "link" /\ th'[t].scan = postings \ {th[t].cur}
         /\ UNCHANGED <<th[t].op, th[t].cur, th[t].todo, th[t].snap, th[t].buf,
                        th[t].row, th[t].path>>
<1>1. /\ th[t].pc = "discover"
      /\ UNCHANGED <<disk, ram, hist>>
      /\ Now(t, [th[t] EXCEPT !.pc = "link", !.scan = postings \ {th[t].cur}])
  BY Zenon DEF WriteDiscover, At, Goto
<1>2. /\ th[t].pc = "discover"
      /\ th'[t] = [th[t] EXCEPT !.pc = "link", !.scan = postings \ {th[t].cur}]
  BY <1>1, Moved DEF Return
<1>3. th[t] \in Thread
  BY ThreadFacts DEF IndInv
<1> QED BY <1>1, <1>2, <1>3 DEF Thread

\* Linking builds the new unit from candidates that are still there.
LEMMA WriteLinkEffect ==
  ASSUME IndInv, NEW t \in Threads, WriteLink(t)
  PROVE  /\ th[t].pc = "link"
         /\ UNCHANGED <<disk, ram, hist>>
         /\ \E S \in SUBSET {x \in th[t].scan : Present(x)} :
                /\ th'[t].pc = "persist" /\ th'[t].scan = {}
                /\ th'[t].buf = NewUnit({[to |-> x, lvl |-> 1] : x \in S})
                /\ UNCHANGED <<th[t].op, th[t].cur, th[t].todo, th[t].snap, th[t].row,
                               th[t].path>>
<1>1. /\ th[t].pc = "link"
      /\ UNCHANGED <<disk, ram, hist>>
      /\ \E S \in SUBSET {x \in th[t].scan : Present(x)} :
             /\ Now(t, [th[t] EXCEPT !.pc = "persist", !.scan = {},
                                     !.buf = NewUnit({[to |-> x, lvl |-> 1] : x \in S})])
  BY Zenon DEF WriteLink, At, Goto
<1>2. /\ th[t].pc = "link"
      /\ \E S \in SUBSET {x \in th[t].scan : Present(x)} :
             /\ th'[t] = [th[t] EXCEPT !.pc = "persist", !.scan = {},
                                       !.buf = NewUnit({[to |-> x, lvl |-> 1] : x \in S})]
  BY <1>1, Moved DEF Return
<1>3. th[t] \in Thread
  BY ThreadFacts DEF IndInv
<1> QED BY <1>1, <1>2, <1>3 DEF Thread

\* The unit is persisted, or the log already has the id.
LEMMA WritePersistEffect ==
  ASSUME IndInv, NEW t \in Threads, WritePersist(t)
  PROVE  /\ th[t].pc = "persist"
         /\ UNCHANGED <<ram, hist>>
         /\ \/ /\ th[t].op = "reindex" \/ th[t].cur \notin memory_log
               /\ th'[t].pc = "fulltext"
               /\ UNCHANGED <<th[t].op, th[t].cur, th[t].todo, th[t].scan, th[t].snap,
                              th[t].buf, th[t].row, th[t].path>>
               /\ PersistUnit(t)
               /\ UNCHANGED <<context_links, activation_log, traces, fulltext>>
            \/ /\ th[t].cur \in memory_log
               /\ th'[t] = Idle
               /\ UNCHANGED disk
<1>1. /\ th[t].pc = "persist"
      /\ UNCHANGED <<ram, hist>>
      /\ \/ /\ th[t].op = "reindex" \/ th[t].cur \notin memory_log
            /\ Now(t, [th[t] EXCEPT !.pc = "fulltext"])
            /\ PersistUnit(t)
            /\ UNCHANGED <<context_links, activation_log, traces, fulltext>>
         \/ /\ th[t].cur \in memory_log
            /\ Return(t)
            /\ UNCHANGED disk
  BY Zenon DEF WritePersist, At, Goto
<1>2. /\ th[t].pc = "persist"
      /\ \/ /\ th[t].op = "reindex" \/ th[t].cur \notin memory_log
            /\ th'[t] = [th[t] EXCEPT !.pc = "fulltext"]
            /\ PersistUnit(t)
            /\ UNCHANGED <<context_links, activation_log, traces, fulltext>>
         \/ /\ th[t].cur \in memory_log
            /\ th'[t] = Idle
            /\ UNCHANGED disk
  BY <1>1, Moved DEF Return
<1>3. th[t] \in Thread
  BY ThreadFacts DEF IndInv
<1> QED BY <1>1, <1>2, <1>3 DEF Thread

\* The document is committed.
LEMMA WriteFulltextEffect ==
  ASSUME IndInv, NEW t \in Threads, WriteFulltext(t)
  PROVE  /\ th[t].pc = "fulltext"
         /\ UNCHANGED <<memory_log, memory_kv, link_overlay, dense_vectors, postings,
                        context_links, activation_log, traces, ram, hist>>
         /\ fulltext' = fulltext \cup {th[t].cur}
         /\ th'[t].pc = "enrich"
         /\ UNCHANGED <<th[t].op, th[t].cur, th[t].todo, th[t].scan, th[t].snap,
                        th[t].buf, th[t].row, th[t].path>>
<1>1. /\ th[t].pc = "fulltext"
      /\ UNCHANGED <<memory_log, memory_kv, link_overlay, dense_vectors, postings,
                     context_links, activation_log, traces, ram, hist>>
      /\ fulltext' = fulltext \cup {th[t].cur}
      /\ Now(t, [th[t] EXCEPT !.pc = "enrich"])
  BY Zenon DEF WriteFulltext, At, Goto
<1>2. /\ th[t].pc = "fulltext"
      /\ th'[t] = [th[t] EXCEPT !.pc = "enrich"]
  BY <1>1, Moved DEF Return
<1>3. th[t] \in Thread
  BY ThreadFacts DEF IndInv
<1> QED BY <1>1, <1>2, <1>3 DEF Thread

\* Enrichment posts the id again, or nothing.
LEMMA WriteEnrichEffect ==
  ASSUME IndInv, NEW t \in Threads, WriteEnrich(t)
  PROVE  /\ th[t].pc = "enrich"
         /\ UNCHANGED <<memory_log, memory_kv, link_overlay, dense_vectors,
                        context_links, activation_log, traces, fulltext, ram, hist>>
         /\ postings' \in {postings, postings \cup {th[t].cur}}
         /\ th'[t].pc = "reput"
         /\ UNCHANGED <<th[t].op, th[t].cur, th[t].todo, th[t].scan, th[t].snap,
                        th[t].buf, th[t].row, th[t].path>>
<1>1. /\ th[t].pc = "enrich"
      /\ UNCHANGED <<memory_log, memory_kv, link_overlay, dense_vectors,
                     context_links, activation_log, traces, fulltext, ram, hist>>
      /\ postings' \in {postings, postings \cup {th[t].cur}}
      /\ Now(t, [th[t] EXCEPT !.pc = "reput"])
  BY Zenon DEF WriteEnrich, At, Goto
<1>2. /\ th[t].pc = "enrich"
      /\ th'[t] = [th[t] EXCEPT !.pc = "reput"]
  BY <1>1, Moved DEF Return
<1>3. th[t] \in Thread
  BY ThreadFacts DEF IndInv
<1> QED BY <1>1, <1>2, <1>3 DEF Thread

\* The enriched unit is put, and the caller of the pipeline goes on.
LEMMA WriteReputEffect ==
  ASSUME IndInv, NEW t \in Threads, WriteReput(t)
  PROVE  /\ th[t].pc = "reput"
         /\ UNCHANGED <<memory_log, link_overlay, dense_vectors, postings, context_links,
                        activation_log, traces, fulltext, ram, issued, context, gone>>
         /\ memory_kv' = [memory_kv EXCEPT ![th[t].cur] = th[t].buf]
         /\ \/ /\ th[t].op = "write"
               /\ th'[t] = Idle
            \/ /\ th[t].op = "reindex"
               /\ th'[t].pc = "re_next" /\ th'[t].todo = th[t].todo \ {th[t].cur}
               /\ UNCHANGED <<th[t].op, th[t].cur, th[t].scan, th[t].snap, th[t].buf,
                              th[t].row, th[t].path>>
            \/ /\ th[t].op \notin {"write", "reindex"}
               /\ th'[t].pc = "seal_row"
               /\ UNCHANGED <<th[t].op, th[t].cur, th[t].todo, th[t].scan, th[t].snap,
                              th[t].buf, th[t].row, th[t].path>>
<1>1. /\ th[t].pc = "reput"
      /\ UNCHANGED <<memory_log, link_overlay, dense_vectors, postings, context_links,
                     activation_log, traces, fulltext, ram, issued, context, gone>>
      /\ memory_kv' = [memory_kv EXCEPT ![th[t].cur] = th[t].buf]
      /\ \/ /\ th[t].op = "write"
            /\ Return(t)
         \/ /\ th[t].op = "reindex"
            /\ Now(t, [th[t] EXCEPT !.pc = "re_next",
                                    !.todo = th[t].todo \ {th[t].cur}])
         \/ /\ th[t].op \notin {"write", "reindex"}
            /\ Now(t, [th[t] EXCEPT !.pc = "seal_row"])
  BY Zenon DEF WriteReput, At, Goto
<1>2. /\ th[t].pc = "reput"
      /\ \/ /\ th[t].op = "write"
            /\ th'[t] = Idle
         \/ /\ th[t].op = "reindex"
            /\ th'[t] = [th[t] EXCEPT !.pc = "re_next",
                                      !.todo = th[t].todo \ {th[t].cur}]
         \/ /\ th[t].op \notin {"write", "reindex"}
            /\ th'[t] = [th[t] EXCEPT !.pc = "seal_row"]
  BY <1>1, Moved DEF Return
<1>3. th[t] \in Thread
  BY ThreadFacts DEF IndInv
<1> QED BY <1>1, <1>2, <1>3 DEF Thread

\* A delete loads all units.
LEMMA DeleteStartEffect ==
  ASSUME IndInv, NEW t \in Threads, DeleteStart(t)
  PROVE  /\ th[t].pc = "idle"
         /\ UNCHANGED <<disk, ram, issued, context, acked, gone, faults>>
         /\ \E S \in SUBSET issued :
                /\ Cardinality(S) \in 1..MaxBatch
                /\ th'[t].pc = "del_next" /\ th'[t].op = "delete" /\ th'[t].cur = None
                /\ th'[t].todo = S /\ th'[t].scan = {} /\ th'[t].buf = None
         /\ FreshSnapshot(th'[t].snap)
<1>1. /\ th[t].pc = "idle"
      /\ UNCHANGED <<disk, ram, issued, context, acked, gone, faults>>
  BY Zenon DEF DeleteStart, At, CanStart
<1>2. PICK S \in SUBSET issued, units \in Loads :
         /\ Cardinality(S) \in 1..MaxBatch
         /\ Now(t, [Idle EXCEPT !.op = "delete", !.pc = "del_next", !.todo = S,
                                !.snap = Snapshot(units)])
  BY Zenon DEF DeleteStart
<1>3. th'[t] = [Idle EXCEPT !.op = "delete", !.pc = "del_next", !.todo = S,
                            !.snap = Snapshot(units)]
  BY <1>2, Moved
<1>4. /\ th'[t].pc = "del_next" /\ th'[t].op = "delete" /\ th'[t].cur = None
      /\ th'[t].todo = S /\ th'[t].scan = {} /\ th'[t].buf = None
      /\ th'[t].snap = Snapshot(units)
  BY <1>3 DEF Idle
<1>5. FreshSnapshot(th'[t].snap)
  BY <1>4, SnapshotFacts DEF IndInv, FreshSnapshot
<1> QED BY <1>1, <1>2, <1>4, <1>5

\* The next victim is looked up, or skipped.
LEMMA DeleteNextEffect ==
  ASSUME IndInv, NEW t \in Threads, DeleteNext(t)
  PROVE  /\ th[t].pc = "del_next"
         /\ UNCHANGED <<disk, ram, hist>>
         /\ \/ /\ th'[t] = Idle
            \/ \E x \in th[t].todo :
                   /\ Present(x)
                   /\ th'[t].pc = "remove" /\ th'[t].cur = x
                   /\ th'[t].todo = th[t].todo \ {x}
                   /\ UNCHANGED <<th[t].op, th[t].scan, th[t].snap, th[t].buf,
                                  th[t].row, th[t].path>>
            \/ \E x \in th[t].todo :
                   /\ ~ Present(x)
                   /\ th'[t].todo = th[t].todo \ {x}
                   /\ UNCHANGED <<th[t].pc, th[t].op, th[t].cur, th[t].scan,
                                  th[t].snap, th[t].buf, th[t].row, th[t].path>>
<1>1. /\ th[t].pc = "del_next"
      /\ UNCHANGED <<disk, ram, hist>>
      /\ \/ /\ Return(t)
         \/ \E x \in th[t].todo :
                /\ Present(x)
                /\ Now(t, [th[t] EXCEPT !.pc = "remove", !.cur = x,
                                        !.todo = th[t].todo \ {x}])
         \/ \E x \in th[t].todo :
                /\ ~ Present(x)
                /\ Now(t, [th[t] EXCEPT !.todo = th[t].todo \ {x}])
  BY Zenon DEF DeleteNext, At, Goto
<1>2. /\ th[t].pc = "del_next"
      /\ \/ /\ th'[t] = Idle
         \/ \E x \in th[t].todo :
                /\ Present(x)
                /\ th'[t] = [th[t] EXCEPT !.pc = "remove", !.cur = x,
                                          !.todo = th[t].todo \ {x}]
         \/ \E x \in th[t].todo :
                /\ ~ Present(x)
                /\ th'[t] = [th[t] EXCEPT !.todo = th[t].todo \ {x}]
  BY <1>1, Moved DEF Return
<1>3. th[t] \in Thread
  BY ThreadFacts DEF IndInv
<1> QED BY <1>1, <1>2, <1>3 DEF Thread

\* The unit, the vector and the row of the victim go.
LEMMA DeleteRemoveEffect ==
  ASSUME IndInv, NEW t \in Threads, DeleteRemove(t)
  PROVE  /\ th[t].pc = "remove"
         /\ memory_kv' = [memory_kv EXCEPT ![th[t].cur] = None]
         /\ dense_vectors' = dense_vectors \ {th[t].cur}
         /\ link_overlay' = [link_overlay EXCEPT ![th[t].cur] = None]
         /\ UNCHANGED <<memory_log, postings, context_links, activation_log, traces,
                        fulltext, ram, hist>>
         /\ th'[t].pc = "cascade"
         /\ th'[t].scan = {y \in Ids \ {th[t].cur} : PointsAt(th[t].snap[y], th[t].cur)}
         /\ UNCHANGED <<th[t].op, th[t].cur, th[t].todo, th[t].snap, th[t].buf,
                        th[t].row, th[t].path>>
<1>1. /\ th[t].pc = "remove"
      /\ memory_kv' = [memory_kv EXCEPT ![th[t].cur] = None]
      /\ dense_vectors' = dense_vectors \ {th[t].cur}
      /\ link_overlay' = [link_overlay EXCEPT ![th[t].cur] = None]
      /\ UNCHANGED <<memory_log, postings, context_links, activation_log, traces,
                     fulltext, ram, hist>>
      /\ Now(t, [th[t] EXCEPT
                    !.pc = "cascade",
                    !.scan = {y \in Ids \ {th[t].cur} : PointsAt(th[t].snap[y], th[t].cur)}])
  BY Zenon DEF DeleteRemove, At, Goto
<1>2. /\ th[t].pc = "remove"
      /\ th'[t] = [th[t] EXCEPT
                      !.pc = "cascade",
                      !.scan = {y \in Ids \ {th[t].cur} : PointsAt(th[t].snap[y], th[t].cur)}]
  BY <1>1, Moved DEF Return
<1>3. th[t] \in Thread
  BY ThreadFacts DEF IndInv
<1> QED BY <1>1, <1>2, <1>3 DEF Thread

\* The next row is rewritten from the snapshot, or none is left.
LEMMA DeleteCascadeEffect ==
  ASSUME IndInv, NEW t \in Threads, DeleteCascade(t)
  PROVE  /\ th[t].pc = "cascade"
         /\ UNCHANGED <<memory_log, memory_kv, dense_vectors, postings, context_links,
                        activation_log, traces, fulltext, ram, hist>>
         /\ \/ /\ th[t].scan = {}
               /\ th'[t].pc = "unindex"
               /\ UNCHANGED <<th[t].op, th[t].cur, th[t].todo, th[t].scan, th[t].snap,
                              th[t].buf, th[t].row, th[t].path>>
               /\ UNCHANGED link_overlay
            \/ \E y \in th[t].scan :
                   /\ Least(y, th[t].scan)
                   /\ th'[t].pc = "casc_get"
                   /\ UNCHANGED <<th[t].op, th[t].cur, th[t].todo, th[t].scan,
                                  th[t].snap, th[t].buf, th[t].row, th[t].path>>
                   /\ link_overlay' = [link_overlay EXCEPT ![y] = Remaining(t, y)]
<1>1. /\ th[t].pc = "cascade"
      /\ UNCHANGED <<memory_log, memory_kv, dense_vectors, postings, context_links,
                     activation_log, traces, fulltext, ram, hist>>
      /\ \/ /\ th[t].scan = {}
            /\ Now(t, [th[t] EXCEPT !.pc = "unindex"])
            /\ UNCHANGED link_overlay
         \/ \E y \in th[t].scan :
                /\ Least(y, th[t].scan)
                /\ Now(t, [th[t] EXCEPT !.pc = "casc_get"])
                /\ link_overlay' = [link_overlay EXCEPT ![y] = Remaining(t, y)]
  BY Zenon DEF DeleteCascade, At, Goto
<1>2. /\ th[t].pc = "cascade"
      /\ \/ /\ th[t].scan = {}
            /\ th'[t] = [th[t] EXCEPT !.pc = "unindex"]
            /\ UNCHANGED link_overlay
         \/ \E y \in th[t].scan :
                /\ Least(y, th[t].scan)
                /\ th'[t] = [th[t] EXCEPT !.pc = "casc_get"]
                /\ link_overlay' = [link_overlay EXCEPT ![y] = Remaining(t, y)]
  BY <1>1, Moved DEF Return
<1>3. th[t] \in Thread
  BY ThreadFacts DEF IndInv
<1> QED BY <1>1, <1>2, <1>3 DEF Thread

\* The unit is read again, if it is there.
LEMMA DeleteCascadeGetEffect ==
  ASSUME IndInv, NEW t \in Threads, DeleteCascadeGet(t)
  PROVE  /\ th[t].pc = "casc_get"
         /\ UNCHANGED <<disk, ram, hist>>
         /\ \/ \E y \in th[t].scan :
                   /\ Least(y, th[t].scan)
                   /\ Present(y)
                   /\ th'[t].pc = "casc_put"
                   /\ th'[t].buf = [memory_kv[y] EXCEPT !.links = Remaining(t, y)]
                   /\ UNCHANGED <<th[t].op, th[t].cur, th[t].todo, th[t].scan,
                                  th[t].snap, th[t].row, th[t].path>>
            \/ \E y \in th[t].scan :
                   /\ Least(y, th[t].scan)
                   /\ ~ Present(y)
                   /\ th'[t].pc = "cascade" /\ th'[t].scan = th[t].scan \ {y}
                   /\ UNCHANGED <<th[t].op, th[t].cur, th[t].todo, th[t].snap,
                                  th[t].buf, th[t].row, th[t].path>>
<1>1. /\ th[t].pc = "casc_get"
      /\ UNCHANGED <<disk, ram, hist>>
      /\ \/ \E y \in th[t].scan :
                /\ Least(y, th[t].scan)
                /\ Present(y)
                /\ Now(t, [th[t] EXCEPT !.pc = "casc_put",
                                        !.buf = [memory_kv[y] EXCEPT !.links = Remaining(t, y)]])
         \/ \E y \in th[t].scan :
                /\ Least(y, th[t].scan)
                /\ ~ Present(y)
                /\ Now(t, [th[t] EXCEPT !.pc = "cascade", !.scan = th[t].scan \ {y}])
  BY Zenon DEF DeleteCascadeGet, At, Goto
<1>2. /\ th[t].pc = "casc_get"
      /\ \/ \E y \in th[t].scan :
                /\ Least(y, th[t].scan)
                /\ Present(y)
                /\ th'[t] = [th[t] EXCEPT !.pc = "casc_put",
                                          !.buf = [memory_kv[y] EXCEPT !.links = Remaining(t, y)]]
         \/ \E y \in th[t].scan :
                /\ Least(y, th[t].scan)
                /\ ~ Present(y)
                /\ th'[t] = [th[t] EXCEPT !.pc = "cascade", !.scan = th[t].scan \ {y}]
  BY <1>1, Moved DEF Return
<1>3. th[t] \in Thread
  BY ThreadFacts DEF IndInv
<1> QED BY <1>1, <1>2, <1>3 DEF Thread

\* It is put back with its remaining links.
LEMMA DeleteCascadePutEffect ==
  ASSUME IndInv, NEW t \in Threads, DeleteCascadePut(t)
  PROVE  /\ th[t].pc = "casc_put"
         /\ UNCHANGED <<memory_log, link_overlay, dense_vectors, postings, context_links,
                        activation_log, traces, fulltext, ram, hist>>
         /\ \E y \in th[t].scan :
                /\ Least(y, th[t].scan)
                /\ th'[t].pc = "cascade" /\ th'[t].scan = th[t].scan \ {y}
                /\ th'[t].buf = None
                /\ UNCHANGED <<th[t].op, th[t].cur, th[t].todo, th[t].snap, th[t].row,
                               th[t].path>>
                /\ memory_kv' = [memory_kv EXCEPT ![y] = th[t].buf]
<1>1. /\ th[t].pc = "casc_put"
      /\ UNCHANGED <<memory_log, link_overlay, dense_vectors, postings, context_links,
                     activation_log, traces, fulltext, ram, hist>>
      /\ \E y \in th[t].scan :
             /\ Least(y, th[t].scan)
             /\ Now(t, [th[t] EXCEPT !.pc = "cascade", !.scan = th[t].scan \ {y},
                                     !.buf = None])
             /\ memory_kv' = [memory_kv EXCEPT ![y] = th[t].buf]
  BY Zenon DEF DeleteCascadePut, At, Goto
<1>2. /\ th[t].pc = "casc_put"
      /\ \E y \in th[t].scan :
             /\ Least(y, th[t].scan)
             /\ th'[t] = [th[t] EXCEPT !.pc = "cascade", !.scan = th[t].scan \ {y},
                                       !.buf = None]
             /\ memory_kv' = [memory_kv EXCEPT ![y] = th[t].buf]
  BY <1>1, Moved DEF Return
<1>3. th[t] \in Thread
  BY ThreadFacts DEF IndInv
<1> QED BY <1>1, <1>2, <1>3 DEF Thread

\* The postings of the victim go.
LEMMA DeleteUnindexEffect ==
  ASSUME IndInv, NEW t \in Threads, DeleteUnindex(t)
  PROVE  /\ th[t].pc = "unindex"
         /\ UNCHANGED <<memory_log, memory_kv, link_overlay, dense_vectors,
                        context_links, activation_log, traces, fulltext, ram, hist>>
         /\ postings' = postings \ {th[t].cur}
         /\ th'[t].pc = "unlink"
         /\ UNCHANGED <<th[t].op, th[t].cur, th[t].todo, th[t].scan, th[t].snap,
                        th[t].buf, th[t].row, th[t].path>>
<1>1. /\ th[t].pc = "unindex"
      /\ UNCHANGED <<memory_log, memory_kv, link_overlay, dense_vectors,
                     context_links, activation_log, traces, fulltext, ram, hist>>
      /\ postings' = postings \ {th[t].cur}
      /\ Now(t, [th[t] EXCEPT !.pc = "unlink"])
  BY Zenon DEF DeleteUnindex, At, Goto
<1>2. /\ th[t].pc = "unindex"
      /\ th'[t] = [th[t] EXCEPT !.pc = "unlink"]
  BY <1>1, Moved DEF Return
<1>3. th[t] \in Thread
  BY ThreadFacts DEF IndInv
<1> QED BY <1>1, <1>2, <1>3 DEF Thread

\* The victim counts as deleted.
LEMMA DeleteUnlinkEffect ==
  ASSUME IndInv, NEW t \in Threads, DeleteUnlink(t)
  PROVE  /\ th[t].pc = "unlink"
         /\ UNCHANGED <<memory_log, memory_kv, link_overlay, dense_vectors, postings,
                        activation_log, traces, fulltext, ram, issued, context>>
         /\ gone' = gone \cup {th[t].cur}
         /\ th'[t].pc = "del_next" /\ th'[t].cur = None
         /\ UNCHANGED <<th[t].op, th[t].todo, th[t].scan, th[t].snap, th[t].buf,
                        th[t].row, th[t].path>>
<1>1. /\ th[t].pc = "unlink"
      /\ UNCHANGED <<memory_log, memory_kv, link_overlay, dense_vectors, postings,
                     activation_log, traces, fulltext, ram, issued, context>>
      /\ gone' = gone \cup {th[t].cur}
      /\ Now(t, [th[t] EXCEPT !.pc = "del_next", !.cur = None])
  BY Zenon DEF DeleteUnlink, At, Goto
<1>2. /\ th[t].pc = "unlink"
      /\ th'[t] = [th[t] EXCEPT !.pc = "del_next", !.cur = None]
  BY <1>1, Moved DEF Return
<1>3. th[t] \in Thread
  BY ThreadFacts DEF IndInv
<1> QED BY <1>1, <1>2, <1>3 DEF Thread

\* A retrieval leaves a trace of visible results.
LEMMA RetrieveStartEffect ==
  ASSUME IndInv, NEW t \in Threads, RetrieveStart(t)
  PROVE  /\ th[t].pc = "idle"
         /\ UNCHANGED <<memory_log, memory_kv, link_overlay, dense_vectors, postings,
                        context_links, activation_log, fulltext, ram, issued, context, gone>>
         /\ \E R \in SUBSET Visible, P \in SUBSET (Ids \X Ids) :
                /\ th'[t].pc = "touch" /\ th'[t].op = "retrieve" /\ th'[t].cur = None
                /\ th'[t].todo = R /\ th'[t].scan = {} /\ th'[t].snap = Idle.snap
                /\ th'[t].buf = None
                /\ traces' = traces \cup {P}
<1>1. /\ th[t].pc = "idle"
      /\ UNCHANGED <<memory_log, memory_kv, link_overlay, dense_vectors, postings,
                     context_links, activation_log, fulltext, ram, issued, context, gone>>
  BY Zenon DEF RetrieveStart, CanStart, At
<1>2. PICK R \in SUBSET {x \in Visible : memory_kv[x].into = None} :
      \E P \in SUBSET {p \in Ids \X R : link_overlay[p[1]] # None
                                       /\ p[2] \in Targets(link_overlay[p[1]])} :
        /\ traces' = traces \cup {P}
        /\ Now(t, [Idle EXCEPT !.op = "retrieve", !.pc = "touch", !.todo = R])
  BY Zenon DEF RetrieveStart
<1>3. R \in SUBSET Visible /\ R \in SUBSET Ids
  BY DEF Visible
<1>4. PICK P \in SUBSET (Ids \X Ids) :
        traces' = traces \cup {P}
  BY <1>2, <1>3
<1>5. th'[t] = [Idle EXCEPT !.op = "retrieve", !.pc = "touch", !.todo = R]
  BY <1>2, Moved
<1>6. /\ th'[t].pc = "touch" /\ th'[t].op = "retrieve" /\ th'[t].cur = None
      /\ th'[t].todo = R /\ th'[t].scan = {} /\ th'[t].snap = Idle.snap
      /\ th'[t].buf = None
  BY <1>5 DEF Idle
<1> QED BY <1>1, <1>3, <1>4, <1>6, Zenon

\* The next result is read again, if it is there.
LEMMA RetrieveTouchEffect ==
  ASSUME IndInv, NEW t \in Threads, RetrieveTouch(t)
  PROVE  /\ th[t].pc = "touch"
         /\ UNCHANGED <<disk, ram, hist>>
         /\ \/ /\ th'[t] = Idle
            \/ \E x \in th[t].todo :
                   /\ Present(x)
                   /\ th'[t].pc = "touch_put" /\ th'[t].cur = x
                   /\ th'[t].buf = memory_kv[x]
                   /\ UNCHANGED <<th[t].op, th[t].todo, th[t].scan, th[t].snap,
                                  th[t].row, th[t].path>>
            \/ \E x \in th[t].todo :
                   /\ ~ Present(x)
                   /\ th'[t].todo = th[t].todo \ {x}
                   /\ UNCHANGED <<th[t].pc, th[t].op, th[t].cur, th[t].scan,
                                  th[t].snap, th[t].buf, th[t].row, th[t].path>>
<1>1. /\ th[t].pc = "touch"
      /\ UNCHANGED <<disk, ram, hist>>
      /\ \/ /\ Return(t)
         \/ \E x \in th[t].todo :
                /\ Present(x)
                /\ Now(t, [th[t] EXCEPT !.pc = "touch_put", !.cur = x,
                                        !.buf = memory_kv[x]])
         \/ \E x \in th[t].todo :
                /\ ~ Present(x)
                /\ Now(t, [th[t] EXCEPT !.todo = th[t].todo \ {x}])
  BY Zenon DEF RetrieveTouch, At, Goto
<1>2. /\ th[t].pc = "touch"
      /\ \/ /\ th'[t] = Idle
         \/ \E x \in th[t].todo :
                /\ Present(x)
                /\ th'[t] = [th[t] EXCEPT !.pc = "touch_put", !.cur = x,
                                          !.buf = memory_kv[x]]
         \/ \E x \in th[t].todo :
                /\ ~ Present(x)
                /\ th'[t] = [th[t] EXCEPT !.todo = th[t].todo \ {x}]
  <2>1. \A r : Now(t, r) => th'[t] = r
    BY Moved
  <2> QED BY <1>1, <2>1, Zenon DEF Return
<1>3. th[t] \in Thread
  BY ThreadFacts DEF IndInv
<1> QED BY <1>1, <1>2, <1>3 DEF Thread

\* It is put back.
LEMMA RetrieveTouchPutEffect ==
  ASSUME IndInv, NEW t \in Threads, RetrieveTouchPut(t)
  PROVE  /\ th[t].pc = "touch_put"
         /\ UNCHANGED <<memory_log, link_overlay, dense_vectors, postings, context_links,
                        activation_log, traces, fulltext, ram, hist>>
         /\ memory_kv' = [memory_kv EXCEPT ![th[t].cur] = th[t].buf]
         /\ th'[t].pc = "touch" /\ th'[t].cur = None
         /\ th'[t].todo = th[t].todo \ {th[t].cur} /\ th'[t].buf = None
         /\ UNCHANGED <<th[t].op, th[t].scan, th[t].snap, th[t].row, th[t].path>>
<1>1. /\ th[t].pc = "touch_put"
      /\ UNCHANGED <<memory_log, link_overlay, dense_vectors, postings, context_links,
                     activation_log, traces, fulltext, ram, hist>>
      /\ memory_kv' = [memory_kv EXCEPT ![th[t].cur] = th[t].buf]
      /\ Now(t, [th[t] EXCEPT !.pc = "touch", !.todo = th[t].todo \ {th[t].cur},
                              !.cur = None, !.buf = None])
  BY Zenon DEF RetrieveTouchPut, At, Goto
<1>2. /\ th[t].pc = "touch_put"
      /\ th'[t] = [th[t] EXCEPT !.pc = "touch", !.todo = th[t].todo \ {th[t].cur},
                                !.cur = None, !.buf = None]
  BY <1>1, Moved DEF Return
<1>3. th[t] \in Thread
  BY ThreadFacts DEF IndInv
<1> QED BY <1>1, <1>2, <1>3 DEF Thread

\* Feedback adds an audit row about results of a retrieval.
LEMMA FeedbackStartEffect ==
  ASSUME IndInv, NEW t \in Threads, FeedbackStart(t)
  PROVE  /\ th[t].pc = "idle"
         /\ th'[t].pc = "usage" /\ th'[t].op = "feedback" /\ th'[t].snap = Idle.snap
         /\ th'[t].buf = None /\ th'[t].cur = None /\ th'[t].scan = {}
         /\ activation_log \subseteq activation_log'
         /\ UNCHANGED <<memory_log, memory_kv, link_overlay, dense_vectors, postings,
                        context_links, traces, fulltext, ram, issued, context, gone>>
<1>1. /\ th[t].pc = "idle"
      /\ UNCHANGED <<memory_log, memory_kv, link_overlay, dense_vectors, postings,
                     context_links, traces, fulltext, ram, issued, context, gone>>
  BY Zenon DEF FeedbackStart, CanStart, At
<1>2. PICK U \in SUBSET Ids, pos \in BOOLEAN, known \in BOOLEAN :
      \E p \in {None} \cup Carried(U) :
        /\ activation_log' = activation_log \cup U \X {pos}
        /\ Now(t, [Idle EXCEPT !.op = "feedback", !.pc = "usage",
                               !.todo = U, !.used = U, !.pos = pos,
                               !.known = known, !.path = p])
  BY Zenon DEF FeedbackStart
<1>3. PICK p :
        th'[t] = [Idle EXCEPT !.op = "feedback", !.pc = "usage", !.todo = U,
                              !.used = U, !.pos = pos, !.known = known, !.path = p]
  BY <1>2, Moved
<1>4. activation_log \subseteq activation_log'
  BY <1>2
<1>5. /\ th'[t].pc = "usage" /\ th'[t].op = "feedback" /\ th'[t].snap = Idle.snap
      /\ th'[t].buf = None /\ th'[t].cur = None /\ th'[t].scan = {}
  BY <1>3 DEF Idle
<1> QED BY <1>1, <1>4, <1>5, Zenon

\* The next used memory is read, or the loop is over.
LEMMA FeedbackUsageEffect ==
  ASSUME IndInv, NEW t \in Threads, FeedbackUsage(t)
  PROVE  /\ th[t].pc = "usage"
         /\ UNCHANGED <<disk, ram, hist>>
         /\ \/ /\ th'[t] = Idle
            \/ /\ th'[t].pc = "bind"
               /\ UNCHANGED <<th[t].op, th[t].cur, th[t].todo, th[t].scan, th[t].snap,
                              th[t].buf, th[t].row, th[t].path>>
            \/ \E x \in th[t].todo :
                   /\ Present(x)
                   /\ th'[t].pc = "usage_put" /\ th'[t].cur = x
                   /\ th'[t].buf = Adjust(memory_kv[x], th[t].pos)
                   /\ UNCHANGED <<th[t].op, th[t].todo, th[t].scan, th[t].snap,
                                  th[t].row, th[t].path>>
            \/ \E x \in th[t].todo :
                   /\ ~ Present(x)
                   /\ th'[t].todo = th[t].todo \ {x}
                   /\ UNCHANGED <<th[t].pc, th[t].op, th[t].cur, th[t].scan,
                                  th[t].snap, th[t].buf, th[t].row, th[t].path>>
<1>1. /\ th[t].pc = "usage"
      /\ UNCHANGED <<disk, ram, hist>>
      /\ \/ /\ Return(t)
         \/ /\ Now(t, [th[t] EXCEPT !.pc = "bind"])
         \/ \E x \in th[t].todo :
                /\ Present(x)
                /\ Now(t, [th[t] EXCEPT !.pc = "usage_put", !.cur = x,
                                        !.buf = Adjust(memory_kv[x], th[t].pos)])
         \/ \E x \in th[t].todo :
                /\ ~ Present(x)
                /\ Now(t, [th[t] EXCEPT !.todo = th[t].todo \ {x}])
  BY Zenon DEF FeedbackUsage, At, Goto
<1>2. /\ th[t].pc = "usage"
      /\ \/ /\ th'[t] = Idle
         \/ /\ th'[t] = [th[t] EXCEPT !.pc = "bind"]
         \/ \E x \in th[t].todo :
                /\ Present(x)
                /\ th'[t] = [th[t] EXCEPT !.pc = "usage_put", !.cur = x,
                                          !.buf = Adjust(memory_kv[x], th[t].pos)]
         \/ \E x \in th[t].todo :
                /\ ~ Present(x)
                /\ th'[t] = [th[t] EXCEPT !.todo = th[t].todo \ {x}]
  <2>1. \A r : Now(t, r) => th'[t] = r
    BY Moved
  <2> QED BY <1>1, <2>1, Zenon DEF Return
<1>3. th[t] \in Thread
  BY ThreadFacts DEF IndInv
<1> QED BY <1>1, <1>2, <1>3, ZenonT(40) DEF Thread

\* It is put back with its new usage.
LEMMA FeedbackUsagePutEffect ==
  ASSUME IndInv, NEW t \in Threads, FeedbackUsagePut(t)
  PROVE  /\ th[t].pc = "usage_put"
         /\ UNCHANGED <<memory_log, link_overlay, dense_vectors, postings, context_links,
                        activation_log, traces, fulltext, ram, hist>>
         /\ memory_kv' = [memory_kv EXCEPT ![th[t].cur] = th[t].buf]
         /\ th'[t].pc = "usage" /\ th'[t].cur = None
         /\ th'[t].todo = th[t].todo \ {th[t].cur} /\ th'[t].buf = None
         /\ UNCHANGED <<th[t].op, th[t].scan, th[t].snap, th[t].row, th[t].path>>
<1>1. /\ th[t].pc = "usage_put"
      /\ UNCHANGED <<memory_log, link_overlay, dense_vectors, postings, context_links,
                     activation_log, traces, fulltext, ram, hist>>
      /\ memory_kv' = [memory_kv EXCEPT ![th[t].cur] = th[t].buf]
      /\ Now(t, [th[t] EXCEPT !.pc = "usage", !.todo = th[t].todo \ {th[t].cur},
                              !.cur = None, !.buf = None])
  BY Zenon DEF FeedbackUsagePut, At, Goto
<1>2. /\ th[t].pc = "usage_put"
      /\ th'[t] = [th[t] EXCEPT !.pc = "usage", !.todo = th[t].todo \ {th[t].cur},
                                !.cur = None, !.buf = None]
  BY <1>1, Moved DEF Return
<1>3. th[t] \in Thread
  BY ThreadFacts DEF IndInv
<1> QED BY <1>1, <1>2, <1>3 DEF Thread

\* Only the context links change.
LEMMA FeedbackBindEffect ==
  ASSUME IndInv, NEW t \in Threads, FeedbackBind(t)
  PROVE  /\ th[t].pc = "bind"
         /\ UNCHANGED <<memory_log, memory_kv, link_overlay, dense_vectors, postings,
                        activation_log, traces, fulltext, ram, hist>>
         /\ \/ /\ th[t].path # None
               /\ th'[t].pc = "edge_get"
               /\ UNCHANGED <<th[t].op, th[t].cur, th[t].todo, th[t].scan, th[t].snap,
                              th[t].buf, th[t].row, th[t].path>>
            \/ /\ th'[t] = Idle
<1>1. /\ th[t].pc = "bind"
      /\ UNCHANGED <<memory_log, memory_kv, link_overlay, dense_vectors, postings,
                     activation_log, traces, fulltext, ram, hist>>
      /\ \/ /\ th[t].path # None
            /\ Now(t, [th[t] EXCEPT !.pc = "edge_get"])
         \/ /\ Return(t)
  BY Zenon DEF FeedbackBind, At, Goto
<1>2. /\ th[t].pc = "bind"
      /\ \/ /\ th[t].path # None
            /\ th'[t] = [th[t] EXCEPT !.pc = "edge_get"]
         \/ /\ th'[t] = Idle
  BY <1>1, Moved DEF Return
<1>3. th[t] \in Thread
  BY ThreadFacts DEF IndInv
<1> QED BY <1>1, <1>2, <1>3 DEF Thread

\* The unit with the carrying edge is read and raised, if it has the edge.
LEMMA FeedbackEdgeGetEffect ==
  ASSUME IndInv, NEW t \in Threads, FeedbackEdgeGet(t)
  PROVE  /\ th[t].pc = "edge_get"
         /\ UNCHANGED <<disk, ram, hist>>
         /\ \/ /\ PointsAt(memory_kv[th[t].path[1]], th[t].path[2])
               /\ th'[t].pc = "edge_put"
               /\ th'[t].buf = [memory_kv[th[t].path[1]] EXCEPT !.links = Raise(@, th[t].path[2])]
               /\ UNCHANGED <<th[t].op, th[t].cur, th[t].todo, th[t].scan, th[t].snap,
                              th[t].row, th[t].path>>
            \/ /\ ~ PointsAt(memory_kv[th[t].path[1]], th[t].path[2])
               /\ th'[t].pc = "row_get"
               /\ UNCHANGED <<th[t].op, th[t].cur, th[t].todo, th[t].scan, th[t].snap,
                              th[t].buf, th[t].row, th[t].path>>
<1>1. /\ th[t].pc = "edge_get"
      /\ UNCHANGED <<disk, ram, hist>>
      /\ \/ /\ PointsAt(memory_kv[th[t].path[1]], th[t].path[2])
            /\ Now(t, [th[t] EXCEPT
                          !.pc = "edge_put",
                          !.buf = [memory_kv[th[t].path[1]] EXCEPT !.links = Raise(@, th[t].path[2])]])
         \/ /\ ~ PointsAt(memory_kv[th[t].path[1]], th[t].path[2])
            /\ Now(t, [th[t] EXCEPT !.pc = "row_get"])
  BY Zenon DEF FeedbackEdgeGet, At, Goto
<1>2. /\ th[t].pc = "edge_get"
      /\ \/ /\ PointsAt(memory_kv[th[t].path[1]], th[t].path[2])
            /\ th'[t] = [th[t] EXCEPT
                            !.pc = "edge_put",
                            !.buf = [memory_kv[th[t].path[1]] EXCEPT !.links = Raise(@, th[t].path[2])]]
         \/ /\ ~ PointsAt(memory_kv[th[t].path[1]], th[t].path[2])
            /\ th'[t] = [th[t] EXCEPT !.pc = "row_get"]
  BY <1>1, Moved DEF Return
<1>3. th[t] \in Thread
  BY ThreadFacts DEF IndInv
<1> QED BY <1>1, <1>2, <1>3 DEF Thread

\* The raised unit is put.
LEMMA FeedbackEdgePutEffect ==
  ASSUME IndInv, NEW t \in Threads, FeedbackEdgePut(t)
  PROVE  /\ th[t].pc = "edge_put"
         /\ UNCHANGED <<memory_log, link_overlay, dense_vectors, postings, context_links,
                        activation_log, traces, fulltext, ram, hist>>
         /\ memory_kv' = [memory_kv EXCEPT ![th[t].path[1]] = th[t].buf]
         /\ th'[t].pc = "row_get" /\ th'[t].buf = None
         /\ UNCHANGED <<th[t].op, th[t].cur, th[t].todo, th[t].scan, th[t].snap,
                        th[t].row, th[t].path>>
<1>1. /\ th[t].pc = "edge_put"
      /\ UNCHANGED <<memory_log, link_overlay, dense_vectors, postings, context_links,
                     activation_log, traces, fulltext, ram, hist>>
      /\ memory_kv' = [memory_kv EXCEPT ![th[t].path[1]] = th[t].buf]
      /\ Now(t, [th[t] EXCEPT !.pc = "row_get", !.buf = None])
  BY Zenon DEF FeedbackEdgePut, At, Goto
<1>2. /\ th[t].pc = "edge_put"
      /\ th'[t] = [th[t] EXCEPT !.pc = "row_get", !.buf = None]
  BY <1>1, Moved DEF Return
<1>3. th[t] \in Thread
  BY ThreadFacts DEF IndInv
<1> QED BY <1>1, <1>2, <1>3 DEF Thread

\* The row with the carrying edge is read and raised, if it has the edge.
LEMMA FeedbackRowGetEffect ==
  ASSUME IndInv, NEW t \in Threads, FeedbackRowGet(t)
  PROVE  /\ th[t].pc = "row_get"
         /\ UNCHANGED <<disk, ram, hist>>
         /\ \/ /\ link_overlay[th[t].path[1]] # None
               /\ th[t].path[2] \in Targets(link_overlay[th[t].path[1]])
               /\ th'[t].pc = "row_put"
               /\ th'[t].row = Raise(link_overlay[th[t].path[1]], th[t].path[2])
               /\ UNCHANGED <<th[t].op, th[t].cur, th[t].todo, th[t].scan, th[t].snap,
                              th[t].buf, th[t].path>>
            \/ /\ ~ (link_overlay[th[t].path[1]] # None
                     /\ th[t].path[2] \in Targets(link_overlay[th[t].path[1]]))
               /\ th'[t] = Idle
<1>1. /\ th[t].pc = "row_get"
      /\ UNCHANGED <<disk, ram, hist>>
      /\ \/ /\ link_overlay[th[t].path[1]] # None
            /\ th[t].path[2] \in Targets(link_overlay[th[t].path[1]])
            /\ Now(t, [th[t] EXCEPT !.pc = "row_put",
                                    !.row = Raise(link_overlay[th[t].path[1]], th[t].path[2])])
         \/ /\ ~ (link_overlay[th[t].path[1]] # None
                  /\ th[t].path[2] \in Targets(link_overlay[th[t].path[1]]))
            /\ Return(t)
  BY Zenon DEF FeedbackRowGet, At, Goto
<1>2. /\ th[t].pc = "row_get"
      /\ \/ /\ link_overlay[th[t].path[1]] # None
            /\ th[t].path[2] \in Targets(link_overlay[th[t].path[1]])
            /\ th'[t] = [th[t] EXCEPT !.pc = "row_put",
                                      !.row = Raise(link_overlay[th[t].path[1]], th[t].path[2])]
         \/ /\ ~ (link_overlay[th[t].path[1]] # None
                  /\ th[t].path[2] \in Targets(link_overlay[th[t].path[1]]))
            /\ th'[t] = Idle
  BY <1>1, Moved DEF Return
<1>3. th[t] \in Thread
  BY ThreadFacts DEF IndInv
<1> QED BY <1>1, <1>2, <1>3 DEF Thread

\* The raised row is put.
LEMMA FeedbackRowPutEffect ==
  ASSUME IndInv, NEW t \in Threads, FeedbackRowPut(t)
  PROVE  /\ th[t].pc = "row_put"
         /\ UNCHANGED <<memory_log, memory_kv, dense_vectors, postings, context_links,
                        activation_log, traces, fulltext, ram, hist>>
         /\ link_overlay' = [link_overlay EXCEPT ![th[t].path[1]] = th[t].row]
         /\ th'[t] = Idle
<1>1. /\ th[t].pc = "row_put"
      /\ UNCHANGED <<memory_log, memory_kv, dense_vectors, postings, context_links,
                     activation_log, traces, fulltext, ram, hist>>
      /\ link_overlay' = [link_overlay EXCEPT ![th[t].path[1]] = th[t].row]
      /\ Return(t)
  BY Zenon DEF FeedbackRowPut, At, Goto
<1>2. /\ th[t].pc = "row_put"
      /\ th'[t] = Idle
  BY <1>1, Moved DEF Return
<1>3. th[t] \in Thread
  BY ThreadFacts DEF IndInv
<1> QED BY <1>1, <1>2, <1>3 DEF Thread

\* A cycle loads all units.
LEMMA ConsolidateStartEffect ==
  ASSUME IndInv, NEW t \in Threads, ConsolidateStart(t)
  PROVE  /\ th[t].pc = "idle"
         /\ UNCHANGED <<disk, ram, issued, context, acked, gone, faults>>
         /\ th'[t].pc = "cycle" /\ th'[t].op = "consolidate" /\ th'[t].cur = None
         /\ th'[t].todo = {} /\ th'[t].scan = {} /\ th'[t].buf = None
         /\ FreshSnapshot(th'[t].snap)
<1>1. /\ th[t].pc = "idle"
      /\ UNCHANGED <<disk, ram, issued, context, acked, gone, faults>>
  BY Zenon DEF ConsolidateStart, At, CanStart
<1>2. PICK units \in Loads :
         Now(t, [Idle EXCEPT !.op = "consolidate", !.pc = "cycle", !.snap = Snapshot(units)])
  BY Zenon DEF ConsolidateStart
<1>3. th'[t] = [Idle EXCEPT !.op = "consolidate", !.pc = "cycle", !.snap = Snapshot(units)]
  BY <1>2, Moved
<1>4. /\ th'[t].pc = "cycle" /\ th'[t].op = "consolidate" /\ th'[t].cur = None
      /\ th'[t].todo = {} /\ th'[t].scan = {} /\ th'[t].buf = None
      /\ th'[t].snap = Snapshot(units)
  BY <1>3 DEF Idle
<1>5. FreshSnapshot(th'[t].snap)
  BY <1>4, SnapshotFacts DEF IndInv, FreshSnapshot
<1> QED BY <1>1, <1>4, <1>5

\* A cycle that compresses nothing works on the copies.
LEMMA ConsolidateCycleEffect ==
  ASSUME IndInv, NEW t \in Threads, ConsolidateCycle(t)
  PROVE  /\ th[t].pc = "cycle"
         /\ UNCHANGED <<disk, ram, hist>>
         /\ \E c \in CycleInputs, age \in 0..2 :
                /\ th'[t].pc = "flush_kv"
                /\ th'[t].todo = {x \in Ids : th[t].snap[x] # None}
                /\ th'[t].snap = AfterCycle(th[t].snap, c, age, {}, None)
                /\ UNCHANGED <<th[t].op, th[t].cur, th[t].scan, th[t].buf, th[t].row,
                               th[t].path>>
<1>1. /\ th[t].pc = "cycle"
      /\ UNCHANGED <<disk, ram, hist>>
      /\ \E c \in CycleInputs, age \in 0..2 :
             /\ Now(t, [th[t] EXCEPT !.pc = "flush_kv",
                                     !.snap = AfterCycle(th[t].snap, c, age, {}, None),
                                     !.todo = {x \in Ids : th[t].snap[x] # None}])
  BY Zenon DEF ConsolidateCycle, At, Goto
<1>2. /\ th[t].pc = "cycle"
      /\ \E c \in CycleInputs, age \in 0..2 :
             /\ th'[t] = [th[t] EXCEPT !.pc = "flush_kv",
                                       !.snap = AfterCycle(th[t].snap, c, age, {}, None),
                                       !.todo = {x \in Ids : th[t].snap[x] # None}]
  BY <1>1, Moved DEF Return
<1>3. th[t] \in Thread
  BY ThreadFacts DEF IndInv
<1> QED BY <1>1, <1>2, <1>3 DEF Thread

\* A cycle that compresses a cluster draws the id of its summary.
LEMMA ConsolidateCompressEffect ==
  ASSUME IndInv, NEW t \in Threads, ConsolidateCompress(t)
  PROVE  /\ th[t].pc = "cycle" /\ th'[t].pc = "flush_kv"
         /\ \E c \in CycleInputs, age \in 0..2, C \in SUBSET Ids :
                th'[t].snap = AfterCycle(th[t].snap, c, age, C, th'[t].cur)
         /\ th'[t].todo = {x \in Ids : th[t].snap[x] # None}
         /\ th'[t].cur \in Ids \ issued /\ issued' = issued \cup {th'[t].cur}
         /\ UNCHANGED <<th[t].op, th[t].scan, th[t].buf, th[t].row, th[t].path>>
         /\ UNCHANGED <<disk, ram, acked, gone, calls, faults>>
<1>1. th[t].pc = "cycle" /\ UNCHANGED <<disk, ram, acked, gone, calls, faults>>
  BY Zenon DEF ConsolidateCompress, At
<1>2. PICK c \in CycleInputs, age \in 0..2,
           C \in SUBSET Candidates(th[t].snap), s \in Ids :
        /\ Least(s, Ids \ issued)
        /\ issued' = issued \cup {s}
        /\ Now(t, [th[t] EXCEPT
                   !.pc = "flush_kv",
                   !.cur = s,
                   !.snap = AfterCycle(@, c, age, C, s),
                   !.todo = {x \in Ids : th[t].snap[x] # None}])
  BY Zenon DEF ConsolidateCompress
<1>3. C \in SUBSET Ids /\ s \in Ids \ issued
  BY <1>2 DEF Candidates, Least
<1>4. PICK units, loaded : /\ units = AfterCycle(th[t].snap, c, age, C, s)
                           /\ loaded = {x \in Ids : th[t].snap[x] # None}
  OBVIOUS
<1>5. /\ th'[t] = [th[t] EXCEPT !.pc = "flush_kv", !.cur = s, !.snap = units,
                                !.todo = loaded]
      /\ th[t] \in Thread
  BY <1>2, <1>4, Moved
<1>6. /\ th'[t].pc = "flush_kv" /\ th'[t].cur = s /\ th'[t].snap = units
      /\ th'[t].todo = loaded
      /\ UNCHANGED <<th[t].op, th[t].scan, th[t].buf, th[t].row, th[t].path>>
  BY <1>5 DEF Thread
<1> QED BY <1>1, <1>2, <1>3, <1>4, <1>6, Zenon

\* The next copy is put, or all are.
LEMMA FlushKvEffect ==
  ASSUME IndInv, NEW t \in Threads, FlushKv(t)
  PROVE  /\ th[t].pc = "flush_kv"
         /\ UNCHANGED <<memory_log, link_overlay, dense_vectors, postings, context_links,
                        activation_log, traces, fulltext, ram, hist>>
         /\ \/ /\ th[t].cur = None
               /\ th'[t] = Idle
               /\ UNCHANGED memory_kv
            \/ /\ th[t].cur # None
               /\ th'[t].pc = "summary"
               /\ UNCHANGED <<th[t].op, th[t].cur, th[t].todo, th[t].scan, th[t].snap,
                              th[t].buf, th[t].row, th[t].path>>
               /\ UNCHANGED memory_kv
            \/ \E x \in th[t].todo :
                   /\ Least(x, th[t].todo)
                   /\ th'[t].pc = "flush_row"
                   /\ UNCHANGED <<th[t].op, th[t].cur, th[t].todo, th[t].scan,
                                  th[t].snap, th[t].buf, th[t].row, th[t].path>>
                   /\ memory_kv' = [memory_kv EXCEPT ![x] = th[t].snap[x]]
<1>1. /\ th[t].pc = "flush_kv"
      /\ UNCHANGED <<memory_log, link_overlay, dense_vectors, postings, context_links,
                     activation_log, traces, fulltext, ram, hist>>
      /\ \/ /\ th[t].cur = None
            /\ Return(t)
            /\ UNCHANGED memory_kv
         \/ /\ th[t].cur # None
            /\ Now(t, [th[t] EXCEPT !.pc = "summary"])
            /\ UNCHANGED memory_kv
         \/ \E x \in th[t].todo :
                /\ Least(x, th[t].todo)
                /\ Now(t, [th[t] EXCEPT !.pc = "flush_row"])
                /\ memory_kv' = [memory_kv EXCEPT ![x] = th[t].snap[x]]
  BY Zenon DEF FlushKv, At, Goto
<1>2. /\ th[t].pc = "flush_kv"
      /\ \/ /\ th[t].cur = None
            /\ th'[t] = Idle
            /\ UNCHANGED memory_kv
         \/ /\ th[t].cur # None
            /\ th'[t] = [th[t] EXCEPT !.pc = "summary"]
            /\ UNCHANGED memory_kv
         \/ \E x \in th[t].todo :
                /\ Least(x, th[t].todo)
                /\ th'[t] = [th[t] EXCEPT !.pc = "flush_row"]
                /\ memory_kv' = [memory_kv EXCEPT ![x] = th[t].snap[x]]
  BY <1>1, Moved DEF Return
<1>3. th[t] \in Thread
  BY ThreadFacts DEF IndInv
<1> QED BY <1>1, <1>2, <1>3 DEF Thread

\* Its row follows.
LEMMA FlushRowEffect ==
  ASSUME IndInv, NEW t \in Threads, FlushRow(t)
  PROVE  /\ th[t].pc = "flush_row"
         /\ UNCHANGED <<memory_log, memory_kv, dense_vectors, postings, context_links,
                        activation_log, traces, fulltext, ram, hist>>
         /\ \E x \in th[t].todo :
                /\ Least(x, th[t].todo)
                /\ th'[t].pc = "flush_kv" /\ th'[t].todo = th[t].todo \ {x}
                /\ UNCHANGED <<th[t].op, th[t].cur, th[t].scan, th[t].snap, th[t].buf,
                               th[t].row, th[t].path>>
                /\ link_overlay' = [link_overlay EXCEPT ![x] = th[t].snap[x].links]
<1>1. /\ th[t].pc = "flush_row"
      /\ UNCHANGED <<memory_log, memory_kv, dense_vectors, postings, context_links,
                     activation_log, traces, fulltext, ram, hist>>
      /\ \E x \in th[t].todo :
             /\ Least(x, th[t].todo)
             /\ Now(t, [th[t] EXCEPT !.pc = "flush_kv", !.todo = th[t].todo \ {x}])
             /\ link_overlay' = [link_overlay EXCEPT ![x] = th[t].snap[x].links]
  BY Zenon DEF FlushRow, At, Goto
<1>2. /\ th[t].pc = "flush_row"
      /\ \E x \in th[t].todo :
             /\ Least(x, th[t].todo)
             /\ th'[t] = [th[t] EXCEPT !.pc = "flush_kv", !.todo = th[t].todo \ {x}]
             /\ link_overlay' = [link_overlay EXCEPT ![x] = th[t].snap[x].links]
  BY <1>1, Moved, ZenonT(40) DEF Return
<1>3. th[t] \in Thread
  BY ThreadFacts DEF IndInv
<1> QED BY <1>1, <1>2, <1>3 DEF Thread

\* The summary enters the pipeline.
LEMMA SummaryWriteEffect ==
  ASSUME IndInv, NEW t \in Threads, SummaryWrite(t)
  PROVE  /\ th[t].pc = "summary"
         /\ UNCHANGED <<disk, hist>>
         /\ \E ok \in Embeds :
                /\ th'[t].pc = "discover"
                /\ UNCHANGED <<th[t].op, th[t].cur, th[t].todo, th[t].scan,
                               th[t].snap, th[t].buf, th[t].row, th[t].path>>
                /\ EmbedInto(th[t].cur, ok)
<1>1. /\ th[t].pc = "summary"
      /\ UNCHANGED <<disk, hist>>
      /\ \E ok \in Embeds :
             /\ Now(t, [th[t] EXCEPT !.pc = "discover", !.vec = ok])
             /\ EmbedInto(th[t].cur, ok)
  BY Zenon DEF SummaryWrite, At, Goto
<1>2. /\ th[t].pc = "summary"
      /\ \E ok \in Embeds :
             /\ th'[t] = [th[t] EXCEPT !.pc = "discover", !.vec = ok]
             /\ EmbedInto(th[t].cur, ok)
  BY <1>1, Moved DEF Return
<1>3. th[t] \in Thread
  BY ThreadFacts DEF IndInv
<1> QED BY <1>1, <1>2, <1>3 DEF Thread

\* The summary's row is emptied.
LEMMA SealRowEffect ==
  ASSUME IndInv, NEW t \in Threads, SealRow(t)
  PROVE  /\ th[t].pc = "seal_row"
         /\ UNCHANGED <<memory_log, memory_kv, dense_vectors, postings, context_links,
                        activation_log, traces, fulltext, ram, hist>>
         /\ link_overlay' = [link_overlay EXCEPT ![th[t].cur] = {}]
         /\ th'[t].pc = "seal_get"
         /\ UNCHANGED <<th[t].op, th[t].cur, th[t].todo, th[t].scan, th[t].snap,
                        th[t].buf, th[t].row, th[t].path>>
<1>1. /\ th[t].pc = "seal_row"
      /\ UNCHANGED <<memory_log, memory_kv, dense_vectors, postings, context_links,
                     activation_log, traces, fulltext, ram, hist>>
      /\ link_overlay' = [link_overlay EXCEPT ![th[t].cur] = {}]
      /\ Now(t, [th[t] EXCEPT !.pc = "seal_get"])
  BY Zenon DEF SealRow, At, Goto
<1>2. /\ th[t].pc = "seal_row"
      /\ th'[t] = [th[t] EXCEPT !.pc = "seal_get"]
  BY <1>1, Moved DEF Return
<1>3. th[t] \in Thread
  BY ThreadFacts DEF IndInv
<1> QED BY <1>1, <1>2, <1>3 DEF Thread

\* The summary is read again, if it is there.
LEMMA SealGetEffect ==
  ASSUME IndInv, NEW t \in Threads, SealGet(t)
  PROVE  /\ th[t].pc = "seal_get"
         /\ UNCHANGED <<disk, ram, hist>>
         /\ \/ /\ Present(th[t].cur)
               /\ th'[t].pc = "seal_put"
               /\ th'[t].buf = [memory_kv[th[t].cur] EXCEPT !.links = {},
                                                            !.gen = "cons"]
               /\ UNCHANGED <<th[t].op, th[t].cur, th[t].todo, th[t].scan, th[t].snap,
                              th[t].row, th[t].path>>
            \/ /\ ~ Present(th[t].cur)
               /\ th'[t] = Idle
<1>1. /\ th[t].pc = "seal_get"
      /\ UNCHANGED <<disk, ram, hist>>
      /\ \/ /\ Present(th[t].cur)
            /\ Now(t, [th[t] EXCEPT
                          !.pc = "seal_put",
                          !.buf = [memory_kv[th[t].cur] EXCEPT !.links = {}, !.gen = "cons"]])
         \/ /\ ~ Present(th[t].cur)
            /\ Return(t)
  BY Zenon DEF SealGet, At, Goto
<1>2. /\ th[t].pc = "seal_get"
      /\ \/ /\ Present(th[t].cur)
            /\ th'[t] = [th[t] EXCEPT
                            !.pc = "seal_put",
                            !.buf = [memory_kv[th[t].cur] EXCEPT !.links = {}, !.gen = "cons"]]
         \/ /\ ~ Present(th[t].cur)
            /\ th'[t] = Idle
  BY <1>1, Moved DEF Return
<1>3. th[t] \in Thread
  BY ThreadFacts DEF IndInv
<1> QED BY <1>1, <1>2, <1>3 DEF Thread

\* It is put without links.
LEMMA SealPutEffect ==
  ASSUME IndInv, NEW t \in Threads, SealPut(t)
  PROVE  /\ th[t].pc = "seal_put"
         /\ UNCHANGED <<memory_log, link_overlay, dense_vectors, postings, context_links,
                        activation_log, traces, fulltext, ram, hist>>
         /\ memory_kv' = [memory_kv EXCEPT ![th[t].cur] = th[t].buf]
         /\ th'[t] = Idle
<1>1. /\ th[t].pc = "seal_put"
      /\ UNCHANGED <<memory_log, link_overlay, dense_vectors, postings, context_links,
                     activation_log, traces, fulltext, ram, hist>>
      /\ memory_kv' = [memory_kv EXCEPT ![th[t].cur] = th[t].buf]
      /\ Return(t)
  BY Zenon DEF SealPut, At, Goto
<1>2. /\ th[t].pc = "seal_put"
      /\ th'[t] = Idle
  BY <1>1, Moved DEF Return
<1>3. th[t] \in Thread
  BY ThreadFacts DEF IndInv
<1> QED BY <1>1, <1>2, <1>3 DEF Thread

\* A reindex lists the log.
LEMMA ReindexStartEffect ==
  ASSUME IndInv, NEW t \in Threads, ReindexStart(t)
  PROVE  /\ th[t].pc = "idle"
         /\ UNCHANGED <<disk, ram, issued, context, acked, gone, faults>>
         /\ th'[t].pc = "clear" /\ th'[t].op = "reindex" /\ th'[t].cur = None
         /\ th'[t].todo = memory_log /\ th'[t].scan = {} /\ th'[t].snap = Idle.snap
         /\ th'[t].buf = None
<1>1. /\ th[t].pc = "idle"
      /\ UNCHANGED <<disk, ram, issued, context, acked, gone, faults>>
      /\ Now(t, [Idle EXCEPT !.op = "reindex", !.pc = "clear", !.todo = memory_log])
  BY Zenon DEF ReindexStart, At, Goto, CanStart
<1>2. /\ th[t].pc = "idle"
      /\ th'[t] = [Idle EXCEPT !.op = "reindex", !.pc = "clear", !.todo = memory_log]
  BY <1>1, Moved DEF Return
<1>3. th[t] \in Thread
  BY ThreadFacts DEF IndInv
<1> QED BY <1>1, <1>2, <1>3 DEF Thread, Idle

\* The secondary tables are cleared.
LEMMA ReindexClearEffect ==
  ASSUME IndInv, NEW t \in Threads, ReindexClear(t)
  PROVE  /\ th[t].pc = "clear"
         /\ memory_kv' = [i \in Ids |-> None]
         /\ link_overlay' = [i \in Ids |-> None]
         /\ postings' = {}
         /\ activation_log' = {}
         /\ UNCHANGED <<memory_log, dense_vectors, context_links, traces, fulltext,
                        ram, hist>>
         /\ th'[t].pc = "fts"
         /\ UNCHANGED <<th[t].op, th[t].cur, th[t].todo, th[t].scan, th[t].snap,
                        th[t].buf, th[t].row, th[t].path>>
<1>1. /\ th[t].pc = "clear"
      /\ memory_kv' = [i \in Ids |-> None]
      /\ link_overlay' = [i \in Ids |-> None]
      /\ postings' = {}
      /\ activation_log' = {}
      /\ UNCHANGED <<memory_log, dense_vectors, context_links, traces, fulltext,
                     ram, hist>>
      /\ Now(t, [th[t] EXCEPT !.pc = "fts"])
  BY Zenon DEF ReindexClear, At, Goto
<1>2. /\ th[t].pc = "clear"
      /\ th'[t] = [th[t] EXCEPT !.pc = "fts"]
  BY <1>1, Moved DEF Return
<1>3. th[t] \in Thread
  BY ThreadFacts DEF IndInv
<1> QED BY <1>1, <1>2, <1>3 DEF Thread

\* The full-text index is recreated.
LEMMA ReindexFulltextEffect ==
  ASSUME IndInv, NEW t \in Threads, ReindexFulltext(t)
  PROVE  /\ th[t].pc = "fts"
         /\ fulltext' = {}
         /\ UNCHANGED <<memory_log, memory_kv, link_overlay, dense_vectors, postings,
                        context_links, activation_log, traces, ram, hist>>
         /\ th'[t].pc = "ram"
         /\ UNCHANGED <<th[t].op, th[t].cur, th[t].todo, th[t].scan, th[t].snap,
                        th[t].buf, th[t].row, th[t].path>>
<1>1. /\ th[t].pc = "fts"
      /\ fulltext' = {}
      /\ UNCHANGED <<memory_log, memory_kv, link_overlay, dense_vectors, postings,
                     context_links, activation_log, traces, ram, hist>>
      /\ Now(t, [th[t] EXCEPT !.pc = "ram"])
  BY Zenon DEF ReindexFulltext, At, Goto
<1>2. /\ th[t].pc = "fts"
      /\ th'[t] = [th[t] EXCEPT !.pc = "ram"]
  BY <1>1, Moved DEF Return
<1>3. th[t] \in Thread
  BY ThreadFacts DEF IndInv
<1> QED BY <1>1, <1>2, <1>3 DEF Thread

\* The in-memory indexes are cleared.
LEMMA ReindexRamEffect ==
  ASSUME IndInv, NEW t \in Threads, ReindexRam(t)
  PROVE  /\ th[t].pc = "ram"
         /\ dense_index' = {}
         /\ binary_index' = {}
         /\ UNCHANGED <<disk, hist>>
         /\ th'[t].pc = "re_next"
         /\ UNCHANGED <<th[t].op, th[t].cur, th[t].todo, th[t].scan, th[t].snap,
                        th[t].buf, th[t].row, th[t].path>>
<1>1. /\ th[t].pc = "ram"
      /\ dense_index' = {}
      /\ binary_index' = {}
      /\ UNCHANGED <<disk, hist>>
      /\ Now(t, [th[t] EXCEPT !.pc = "re_next"])
  BY Zenon DEF ReindexRam, At, Goto
<1>2. /\ th[t].pc = "ram"
      /\ th'[t] = [th[t] EXCEPT !.pc = "re_next"]
  BY <1>1, Moved DEF Return
<1>3. th[t] \in Thread
  BY ThreadFacts DEF IndInv
<1> QED BY <1>1, <1>2, <1>3 DEF Thread

\* The next record enters the pipeline, or all are replayed.
LEMMA ReindexNextEffect ==
  ASSUME IndInv, NEW t \in Threads, ReindexNext(t)
  PROVE  /\ th[t].pc = "re_next"
         /\ UNCHANGED <<disk, hist>>
         /\ \/ /\ th[t].todo = {}
               /\ th'[t] = Idle
               /\ UNCHANGED ram
            \/ \E x \in th[t].todo, ok \in Embeds :
                   /\ Least(x, th[t].todo)
                   /\ th'[t].pc = "discover" /\ th'[t].cur = x
                   /\ UNCHANGED <<th[t].op, th[t].todo, th[t].scan, th[t].snap,
                                  th[t].buf, th[t].row, th[t].path>>
                   /\ EmbedInto(x, ok)
<1>1. /\ th[t].pc = "re_next"
      /\ UNCHANGED <<disk, hist>>
      /\ \/ /\ th[t].todo = {}
            /\ Return(t)
            /\ UNCHANGED ram
         \/ \E x \in th[t].todo, ok \in Embeds :
                /\ Least(x, th[t].todo)
                /\ Now(t, [th[t] EXCEPT !.pc = "discover", !.cur = x, !.vec = ok])
                /\ EmbedInto(x, ok)
  BY Zenon DEF ReindexNext, At, Goto
<1>2. /\ th[t].pc = "re_next"
      /\ \/ /\ th[t].todo = {}
            /\ th'[t] = Idle
            /\ UNCHANGED ram
         \/ \E x \in th[t].todo, ok \in Embeds :
                /\ Least(x, th[t].todo)
                /\ th'[t] = [th[t] EXCEPT !.pc = "discover", !.cur = x, !.vec = ok]
                /\ EmbedInto(x, ok)
  BY <1>1, Moved DEF Return
<1>3. th[t] \in Thread
  BY ThreadFacts DEF IndInv
<1> QED BY <1>1, <1>2, <1>3 DEF Thread

\* A failed step ends the call where it is.
LEMMA FailEffect ==
  ASSUME IndInv, NEW t \in Threads, Fail(t)
  PROVE  /\ faults < MaxFaults
         /\ UNCHANGED <<disk, ram, issued, context, acked, gone, calls>>
         /\ th'[t] = Idle
<1>1. /\ faults < MaxFaults
      /\ UNCHANGED <<disk, ram, issued, context, acked, gone, calls>>
      /\ Return(t)
  BY Zenon DEF Fail, At, Goto
<1>2. /\ th'[t] = Idle
  BY <1>1, Moved DEF Return
<1>3. th[t] \in Thread
  BY ThreadFacts DEF IndInv
<1> QED BY <1>1, <1>2, <1>3 DEF Thread

-----------------------------------------------------------------------------
(***************************************************************************)
(* What the layers share.                                                  *)
(***************************************************************************)
\* What a thread holds where a step is going to use it.
LEMMA Locals ==
  ASSUME IndInv, NEW t \in Threads
  PROVE  /\ th[t].todo \subseteq Ids /\ th[t].scan \subseteq Ids
         /\ th[t].snap \in Table /\ th[t].row \in SUBSET Edge /\ th[t].row # None
         /\ th[t].pc \in {"discover", "link", "persist", "summary", "remove",
                          "cascade", "casc_get", "casc_put", "unindex", "unlink",
                          "fulltext", "enrich", "reput", "seal_row", "seal_get",
                          "seal_put", "touch_put", "usage_put"}
              => th[t].cur \in Ids
         /\ th[t].pc \in {"persist", "fulltext", "enrich", "reput", "casc_put",
                          "touch_put", "usage_put", "edge_put", "seal_put"}
              => th[t].buf \in Unit /\ th[t].buf # None
         /\ th[t].pc \in {"edge_get", "edge_put", "row_get", "row_put"}
              => th[t].path \in Ids \X Ids
         /\ th[t].pc \in {"cascade", "casc_get", "casc_put"}
              => \A y \in th[t].scan : th[t].snap[y] \in Unit
         /\ th[t].pc \in {"flush_kv", "flush_row"}
              => \A x \in th[t].todo : th[t].snap[x] \in Unit
<1>1. th[t] \in Thread /\ Carries(th[t], memory_log) /\ memory_log \subseteq Ids
  BY ThreadFacts DEF IndInv, DataInv, DataType
<1>2. /\ th[t].todo \subseteq Ids /\ th[t].scan \subseteq Ids
      /\ th[t].snap \in Table /\ th[t].row \in SUBSET Edge /\ th[t].row # None
      /\ th[t].buf \in {None} \cup Unit /\ th[t].path \in {None} \cup (Ids \X Ids)
  BY <1>1, EngineAssumption DEF Thread
<1>3. /\ th[t].pc \in {"discover", "link", "persist", "summary", "remove",
                       "cascade", "casc_get", "casc_put", "unindex", "unlink"}
           => th[t].cur \in Ids
      /\ th[t].pc \in {"fulltext", "enrich", "reput", "seal_row", "seal_get",
                       "seal_put", "touch_put", "usage_put"} => th[t].cur \in Ids
  BY <1>1 DEF Carries
<1>4. th[t].pc \in {"persist", "fulltext", "enrich", "reput", "casc_put",
                    "touch_put", "usage_put", "edge_put", "seal_put"}
           => th[t].buf \in Unit /\ th[t].buf # None
  BY <1>1, <1>2 DEF Carries
<1>5. th[t].pc \in {"edge_get", "edge_put", "row_get", "row_put"}
           => th[t].path \in Ids \X Ids
  BY <1>1, <1>2 DEF Carries
<1>6. th[t].pc \in {"cascade", "casc_get", "casc_put"}
           => \A y \in th[t].scan : th[t].snap[y] \in Unit
  <2>1. th[t].pc \in {"cascade", "casc_get", "casc_put"} => th[t].op = "delete"
    BY <1>1 DEF Carries
  <2>2. th[t].op = "delete" => \A y \in th[t].scan : th[t].snap[y] # None
    BY <1>1 DEF Carries
  <2> QED BY <1>2, <2>1, <2>2 DEF Table
<1>7. th[t].pc \in {"flush_kv", "flush_row"}
           => \A x \in th[t].todo : th[t].snap[x] \in Unit
  <2>1. th[t].pc \in {"flush_kv", "flush_row"} => \A x \in th[t].todo : th[t].snap[x] # None
    BY <1>1 DEF Carries
  <2> QED BY <1>2, <2>1 DEF Table
<1> QED BY <1>2, <1>3, <1>4, <1>5, <1>6, <1>7

\* The tables are functions on the ids.
LEMMA Tables ==
  ASSUME IndInv
  PROVE  /\ memory_kv \in [Ids -> {None} \cup Unit]
         /\ link_overlay \in [Ids -> {None} \cup SUBSET Edge]
         /\ memory_log \subseteq Ids /\ postings \subseteq Ids /\ gone \subseteq Ids
         /\ issued \subseteq Ids /\ dense_vectors \subseteq Ids
BY DEF IndInv, DataInv, DataType, Table

\* A loop over ids in order has one next id.
LEMMA LeastUnique ==
  ASSUME NEW S \in SUBSET Ids, NEW x, NEW y, Least(x, S), Least(y, S)
  PROVE  x = y
<1>1. x \in Nat /\ y \in Nat /\ x <= y /\ y <= x
  BY EngineAssumption DEF Least
<1> QED BY <1>1

\* A unit put where one is leaves the visible memories as they are.
LEMMA PutVisible ==
  ASSUME IndInv, NEW x \in Ids, NEW u, u # None, Present(x),
         memory_kv' = [memory_kv EXCEPT ![x] = u]
  PROVE  /\ Visible' = Visible
         /\ \A y \in Ids : Present(y)' <=> Present(y)
         /\ memory_kv'[x] = u /\ \A y \in Ids \ {x} : memory_kv'[y] = memory_kv[y]
<1>1. memory_kv'[x] = u /\ \A y \in Ids \ {x} : memory_kv'[y] = memory_kv[y]
  BY Tables
<1>2. \A y \in Ids : Present(y)' <=> Present(y)
  BY <1>1 DEF Present
<1> QED BY <1>1, <1>2 DEF Visible

-----------------------------------------------------------------------------
(***************************************************************************)
(* A visible memory is indexed, and a reindex replays the log.             *)
(***************************************************************************)
\* What a thread will put or show is indexed, or is there to be put over.
IndexHeld(r) ==
    /\ r.pc \in {"discover", "link", "persist"} => r.cur \in binary_index
    /\ r.pc \in {"fulltext", "enrich", "reput", "touch_put", "usage_put",
                 "seal_row", "seal_put"} => Present(r.cur)
    /\ r.pc \in {"cascade", "casc_get", "casc_put", "unindex"} => ~ Present(r.cur)
    /\ r.pc = "casc_put" => \A y \in r.scan : Least(y, r.scan) => Present(y)
    /\ r.pc = "edge_put" => Present(r.path[1])
    /\ r.pc \in {"cycle", "flush_kv", "flush_row"} =>
         \A x \in Ids : r.snap[x] # None => Present(x)
\* Where a reindex stands: what it has replayed, in every index.
Replaying(r) ==
    /\ r.pc \in {"clear", "fts", "ram", "re_next"} => r.op = "reindex"
    /\ r.op = "reindex" =>
       /\ r.pc \in {"clear", "fts", "ram", "re_next", "discover", "link",
                    "persist", "fulltext", "enrich", "reput"}
       /\ r.pc \in {"clear", "fts", "ram"} => r.todo = memory_log
       /\ r.pc \in {"fts", "ram"} => Visible = {} /\ postings = {}
       /\ r.pc = "ram" => fulltext = {}
       /\ r.pc \in {"re_next", "discover", "link", "persist"} =>
            /\ Visible = memory_log \ r.todo /\ postings = memory_log \ r.todo
            /\ fulltext = memory_log \ r.todo
       /\ r.pc = "re_next" => binary_index = memory_log \ r.todo
       /\ r.pc \in {"discover", "link", "persist", "fulltext", "enrich", "reput"} =>
            r.cur \in r.todo /\ binary_index = (memory_log \ r.todo) \cup {r.cur}
       /\ r.pc \in {"fulltext", "enrich", "reput"} =>
            /\ Visible = (memory_log \ r.todo) \cup {r.cur}
            /\ postings = (memory_log \ r.todo) \cup {r.cur}
       /\ r.pc = "fulltext" => fulltext = memory_log \ r.todo
       /\ r.pc \in {"enrich", "reput"} => fulltext = (memory_log \ r.todo) \cup {r.cur}
\* The invariant of one caller, whatever fails.
IndexInv(t) == VisibleIsIndexed /\ IndexHeld(th[t]) /\ Replaying(th[t])

\* A unit put where one is keeps the visible memories indexed.
LEMMA PutIndexed ==
  ASSUME IndInv, VisibleIsIndexed, NEW x \in Ids, NEW u, u # None, Present(x),
         memory_kv' = [memory_kv EXCEPT ![x] = u],
         UNCHANGED <<link_overlay, postings, binary_index>>
  PROVE  VisibleIsIndexed'
BY PutVisible DEF VisibleIsIndexed

\* So does an overlay row.
LEMMA RowIndexed ==
  ASSUME IndInv, VisibleIsIndexed, NEW x \in Ids, NEW l, l # None,
         link_overlay' = [link_overlay EXCEPT ![x] = l],
         UNCHANGED <<memory_kv, postings, binary_index>>
  PROVE  VisibleIsIndexed'
BY Tables DEF VisibleIsIndexed, Visible, Present

\* And a call that ends, whatever it was doing.
LEMMA ReturnIndexed ==
  ASSUME NEW t \in Threads, VisibleIsIndexed', th'[t] = Idle
  PROVE  IndexInv(t)'
BY DEF IndexInv, IndexHeld, Replaying, Idle

\* The new id is in the binary index before anything else happens.
LEMMA WriteStartIndex ==
  ASSUME IndInv, NEW t \in Threads, IndexInv(t), WriteStart(t)
  PROVE  IndexInv(t)'
<1>1. VisibleIsIndexed'
  BY WriteStartEffect DEF IndexInv, VisibleIsIndexed, Visible, Present, disk, EmbedInto
<1>2. IndexHeld(th[t])'
  BY WriteStartEffect DEF IndexHeld, EmbedInto
<1>3. Replaying(th[t])'
  BY WriteStartEffect DEF IndexInv, Replaying, Visible, Present, disk, ram, hist, Idle
<1> QED BY <1>1, <1>2, <1>3 DEF IndexInv

\* Discovery only reads.
LEMMA WriteDiscoverIndex ==
  ASSUME IndInv, NEW t \in Threads, IndexInv(t), WriteDiscover(t)
  PROVE  IndexInv(t)'
<1>1. VisibleIsIndexed'
  BY WriteDiscoverEffect
  DEF IndexInv, IndexHeld, VisibleIsIndexed, Visible, Present, disk, ram, hist, Idle
<1>2. IndexHeld(th[t])'
  BY WriteDiscoverEffect
  DEF IndexInv, IndexHeld, Visible, Present, disk, ram, hist, Idle
<1>3. Replaying(th[t])'
  BY WriteDiscoverEffect
  DEF IndexInv, Replaying, Visible, Present, disk, ram, hist, Idle
<1> QED BY <1>1, <1>2, <1>3 DEF IndexInv

\* Linking only reads.
LEMMA WriteLinkIndex ==
  ASSUME IndInv, NEW t \in Threads, IndexInv(t), WriteLink(t)
  PROVE  IndexInv(t)'
<1>1. /\ th[t].pc = "link" /\ th'[t].pc = "persist" /\ UNCHANGED <<disk, ram, hist>>
      /\ UNCHANGED <<th[t].op, th[t].cur, th[t].todo>>
  BY WriteLinkEffect
<1>2. VisibleIsIndexed'
  BY WriteLinkEffect
  DEF IndexInv, IndexHeld, VisibleIsIndexed, Visible, Present, disk, ram, hist, Idle
<1>3. IndexHeld(th[t])'
  BY <1>1 DEF IndexInv, IndexHeld, ram
<1>4. Replaying(th[t])'
  BY <1>1 DEF IndexInv, Replaying, Visible, Present, disk, ram
<1> QED BY <1>2, <1>3, <1>4 DEF IndexInv

\* The persisted memory is posted, has its row and is already in the binary index.
LEMMA WritePersistIndex ==
  ASSUME IndInv, NEW t \in Threads, IndexInv(t), WritePersist(t)
  PROVE  IndexInv(t)'
<1>1. /\ th[t].cur \in Ids /\ th[t].buf # None /\ th[t].buf.links # None
      /\ th[t].pc = "persist" /\ th[t].cur \in binary_index /\ UNCHANGED <<ram, hist>>
  BY WritePersistEffect, Locals, EngineAssumption DEF IndexInv, IndexHeld, Unit
<1>2. CASE /\ th'[t].pc = "fulltext" /\ PersistUnit(t) /\ UNCHANGED fulltext
           /\ UNCHANGED <<th[t].op, th[t].cur, th[t].todo>>
  <2>1. Visible' = Visible \cup {th[t].cur}
    BY <1>1, <1>2, Tables DEF PersistUnit, Visible, Present
  <2>2. \A x \in Visible' : link_overlay'[x] # None
    BY <1>1, <1>2, <2>1, Tables DEF PersistUnit, IndexInv, VisibleIsIndexed
  <2>3. postings' = postings \cup {th[t].cur} /\ UNCHANGED binary_index
    BY <1>1, <1>2 DEF PersistUnit, ram
  <2>4. VisibleIsIndexed'
    BY <1>1, <2>1, <2>2, <2>3 DEF IndexInv, VisibleIsIndexed
  <2>5. IndexHeld(th[t])'
    BY <1>1, <1>2, <2>1 DEF IndexHeld, Visible
  <2>6. Replaying(th[t])'
    <3>1. th[t].op = "reindex" => UNCHANGED memory_log
      BY <1>2 DEF PersistUnit
    <3> QED BY <1>1, <1>2, <2>1, <2>3, <3>1 DEF IndexInv, Replaying
  <2> QED BY <2>4, <2>5, <2>6 DEF IndexInv
<1>3. CASE th'[t] = Idle /\ UNCHANGED disk
  BY <1>1, <1>3, ReturnIndexed
  DEF IndexInv, VisibleIsIndexed, Visible, Present, disk, ram
<1> QED BY <1>2, <1>3, WritePersistEffect

\* A replayed record gets its document.
LEMMA WriteFulltextIndex ==
  ASSUME IndInv, NEW t \in Threads, IndexInv(t), WriteFulltext(t)
  PROVE  IndexInv(t)'
<1>1. VisibleIsIndexed'
  BY WriteFulltextEffect
  DEF IndexInv, IndexHeld, VisibleIsIndexed, Visible, Present, disk, ram, hist, Idle
<1>2. IndexHeld(th[t])'
  BY WriteFulltextEffect
  DEF IndexInv, IndexHeld, Visible, Present, disk, ram, hist, Idle
<1>3. Replaying(th[t])'
  BY WriteFulltextEffect
  DEF IndexInv, Replaying, Visible, Present, disk, ram, hist, Idle
<1> QED BY <1>1, <1>2, <1>3 DEF IndexInv

\* Enrichment posts a memory that is visible.
LEMMA WriteEnrichIndex ==
  ASSUME IndInv, NEW t \in Threads, IndexInv(t), WriteEnrich(t)
  PROVE  IndexInv(t)'
<1>1. VisibleIsIndexed'
  BY WriteEnrichEffect
  DEF IndexInv, IndexHeld, VisibleIsIndexed, Visible, Present, disk, ram, hist, Idle
<1>2. IndexHeld(th[t])'
  BY WriteEnrichEffect DEF IndexInv, IndexHeld, Visible, Present, disk, ram, hist, Idle
<1>3. Replaying(th[t])'
  BY WriteEnrichEffect DEF IndexInv, Replaying, Visible, Present, disk, ram, hist, Idle
<1> QED BY <1>1, <1>2, <1>3 DEF IndexInv

\* The second put finds the unit of the first; a replayed record is done.
LEMMA WriteReputIndex ==
  ASSUME IndInv, NEW t \in Threads, IndexInv(t), WriteReput(t)
  PROVE  IndexInv(t)'
<1>1. /\ th[t].cur \in Ids /\ th[t].buf # None /\ Present(th[t].cur)
      /\ memory_kv' = [memory_kv EXCEPT ![th[t].cur] = th[t].buf]
      /\ UNCHANGED <<link_overlay, postings, binary_index>>
  BY WriteReputEffect, Locals DEF IndexInv, IndexHeld, ram
<1>2. VisibleIsIndexed'
  BY <1>1, PutIndexed DEF IndexInv
<1>3. IndexHeld(th[t])'
  <2>1. memory_kv'[th[t].cur] # None
    BY <1>1, PutVisible
  <2> QED BY <2>1, WriteReputEffect DEF IndexHeld, Present, Idle
<1>4. Replaying(th[t])'
  <2>1. Visible' = Visible /\ UNCHANGED <<memory_log, postings, fulltext, binary_index>>
    BY <1>1, PutVisible, WriteReputEffect
  <2>2. CASE th[t].op = "reindex"
    <3>1. /\ th[t].pc = "reput" /\ th'[t].pc = "re_next" /\ th'[t].op = "reindex"
          /\ th'[t].todo = th[t].todo \ {th[t].cur}
      BY <2>2, WriteReputEffect
    <3>2. /\ th[t].cur \in memory_log
          /\ memory_log \ th'[t].todo = (memory_log \ th[t].todo) \cup {th[t].cur}
      BY <2>2, <3>1, ThreadFacts DEF IndInv, Carries
    <3> QED BY <2>1, <2>2, <3>1, <3>2 DEF IndexInv, Replaying
  <2>3. CASE th[t].op # "reindex"
    BY <2>3, WriteReputEffect DEF Replaying, Idle
  <2> QED BY <2>2, <2>3
<1> QED BY <1>2, <1>3, <1>4 DEF IndexInv

\* A delete starts from the tables as they are.
LEMMA DeleteStartIndex ==
  ASSUME IndInv, NEW t \in Threads, IndexInv(t), DeleteStart(t)
  PROVE  IndexInv(t)'
<1>1. VisibleIsIndexed'
  BY DeleteStartEffect
  DEF IndexInv, IndexHeld, FreshSnapshot, VisibleIsIndexed, Visible, Present, disk, ram, hist, Idle
<1>2. IndexHeld(th[t])'
  BY DeleteStartEffect DEF IndexInv, IndexHeld, FreshSnapshot, Visible, Present, disk, ram, hist, Idle
<1>3. Replaying(th[t])'
  BY DeleteStartEffect DEF IndexInv, Replaying, Visible, Present, disk, ram, hist, Idle
<1> QED BY <1>1, <1>2, <1>3 DEF IndexInv

\* The lookup only reads.
LEMMA DeleteNextIndex ==
  ASSUME IndInv, NEW t \in Threads, IndexInv(t), DeleteNext(t)
  PROVE  IndexInv(t)'
<1>1. VisibleIsIndexed'
  BY DeleteNextEffect
  DEF IndexInv, IndexHeld, VisibleIsIndexed, Visible, Present, disk, ram, hist, Idle
<1>2. IndexHeld(th[t])'
  BY DeleteNextEffect DEF IndexInv, IndexHeld, Visible, Present, disk, ram, hist, Idle
<1>3. Replaying(th[t])'
  BY DeleteNextEffect DEF IndexInv, Replaying, Visible, Present, disk, ram, hist, Idle
<1> QED BY <1>1, <1>2, <1>3 DEF IndexInv

\* The state removal hides the victim before its postings go.
LEMMA DeleteRemoveIndex ==
  ASSUME IndInv, NEW t \in Threads, IndexInv(t), DeleteRemove(t)
  PROVE  IndexInv(t)'
<1>1. VisibleIsIndexed'
  <2>1. th[t].cur \in Ids
    BY DeleteRemoveEffect, Locals
  <2>2. /\ Visible' = Visible \ {th[t].cur}
        /\ \A x \in Visible' : link_overlay'[x] = link_overlay[x]
    BY <2>1, DeleteRemoveEffect, Tables DEF Visible, Present
  <2>3. UNCHANGED <<postings, binary_index>>
    BY DeleteRemoveEffect DEF ram
  <2> QED BY <2>2, <2>3 DEF IndexInv, VisibleIsIndexed
<1>2. IndexHeld(th[t])'
  BY DeleteRemoveEffect, Locals, Tables DEF IndexHeld, Present
<1>3. Replaying(th[t])'
  BY DeleteRemoveEffect DEF IndexInv, Replaying, Visible, Present, disk, ram, hist, Idle
<1> QED BY <1>1, <1>2, <1>3 DEF IndexInv

\* The cascade writes rows, it removes none.
LEMMA DeleteCascadeIndex ==
  ASSUME IndInv, NEW t \in Threads, IndexInv(t), DeleteCascade(t)
  PROVE  IndexInv(t)'
<1>1. VisibleIsIndexed'
  <2>1. CASE UNCHANGED link_overlay
    BY <2>1, DeleteCascadeEffect DEF IndexInv, VisibleIsIndexed, Visible, Present, ram
  <2>2. ASSUME NEW y \in th[t].scan,
               link_overlay' = [link_overlay EXCEPT ![y] = Remaining(t, y)]
        PROVE  VisibleIsIndexed'
    <3>1. y \in Ids /\ th[t].snap[y] \in Unit
      BY DeleteCascadeEffect, Locals
    <3>2. Remaining(t, y) # None
      BY <3>1, EngineAssumption DEF Remaining, Unit
    <3> QED BY <2>2, <3>1, <3>2, RowIndexed, DeleteCascadeEffect DEF IndexInv, ram
  <2> QED BY <2>1, <2>2, DeleteCascadeEffect
<1>2. IndexHeld(th[t])'
  <2>1. /\ th[t].pc = "cascade" /\ th'[t].pc \in {"unindex", "casc_get"}
        /\ UNCHANGED <<memory_kv, th[t].cur>>
    BY DeleteCascadeEffect
  <2> QED BY <2>1 DEF IndexInv, IndexHeld, Present
<1>3. Replaying(th[t])'
  <2>1. /\ th[t].pc = "cascade" /\ th'[t].pc \in {"unindex", "casc_get"}
        /\ UNCHANGED <<th[t].op>>
    BY DeleteCascadeEffect
  <2> QED BY <2>1 DEF IndexInv, Replaying
<1> QED BY <1>1, <1>2, <1>3 DEF IndexInv

\* The unit that is to be put back is there.
LEMMA DeleteCascadeGetIndex ==
  ASSUME IndInv, NEW t \in Threads, IndexInv(t), DeleteCascadeGet(t)
  PROVE  IndexInv(t)'
<1>1. VisibleIsIndexed'
  BY DeleteCascadeGetEffect
  DEF IndexInv, IndexHeld, VisibleIsIndexed, Visible, Present, disk, ram, hist, Idle
<1>2. IndexHeld(th[t])'
  <2>1. th[t].scan \subseteq Ids /\ UNCHANGED <<memory_kv, th[t].cur>>
    BY DeleteCascadeGetEffect, Locals DEF disk
  <2>2. CASE th'[t].pc = "cascade"
    BY <2>1, <2>2, DeleteCascadeGetEffect DEF IndexInv, IndexHeld, Present
  <2>3. ASSUME NEW y \in th[t].scan, Least(y, th[t].scan), Present(y),
               th'[t].pc = "casc_put", UNCHANGED <<th[t].scan>>
        PROVE  IndexHeld(th[t])'
    <3>1. \A z \in th[t].scan : Least(z, th[t].scan) => z = y
      BY <2>1, <2>3, LeastUnique
    <3>2. th[t].pc = "casc_get"
      BY DeleteCascadeGetEffect
    <3> QED BY <2>1, <2>3, <3>1, <3>2 DEF IndexInv, IndexHeld, Present
  <2> QED BY <2>2, <2>3, DeleteCascadeGetEffect
<1>3. Replaying(th[t])'
  BY DeleteCascadeGetEffect
  DEF IndexInv, Replaying, Visible, Present, disk, ram, hist, Idle
<1> QED BY <1>1, <1>2, <1>3 DEF IndexInv

\* It is put where it was.
LEMMA DeleteCascadePutIndex ==
  ASSUME IndInv, NEW t \in Threads, IndexInv(t), DeleteCascadePut(t)
  PROVE  IndexInv(t)'
<1>1. PICK y \in th[t].scan :
        /\ y \in Ids /\ Present(y) /\ th[t].buf # None
        /\ memory_kv' = [memory_kv EXCEPT ![y] = th[t].buf]
  <2>1. th[t].pc = "casc_put" /\ th[t].buf # None /\ th[t].scan \subseteq Ids
    BY DeleteCascadePutEffect, Locals
  <2> QED BY <2>1, DeleteCascadePutEffect DEF IndexInv, IndexHeld
<1>2. VisibleIsIndexed'
  BY <1>1, PutIndexed, DeleteCascadePutEffect DEF IndexInv, ram
<1>3. IndexHeld(th[t])'
  <2>1. th[t].cur \in Ids /\ th[t].pc = "casc_put"
    BY DeleteCascadePutEffect, Locals
  <2>2. memory_kv'[th[t].cur] = None
    BY <1>1, <2>1, PutVisible DEF IndexInv, IndexHeld, Present
  <2> QED BY <2>2, DeleteCascadePutEffect DEF IndexHeld, Present
<1>4. Replaying(th[t])'
  BY DeleteCascadePutEffect
  DEF IndexInv, Replaying, Visible, Present, disk, ram, hist, Idle
<1> QED BY <1>2, <1>3, <1>4 DEF IndexInv

\* Only the hidden victim loses its postings.
LEMMA DeleteUnindexIndex ==
  ASSUME IndInv, NEW t \in Threads, IndexInv(t), DeleteUnindex(t)
  PROVE  IndexInv(t)'
<1>1. VisibleIsIndexed'
  <2>1. th[t].pc = "unindex" /\ ~ Present(th[t].cur)
    BY DeleteUnindexEffect DEF IndexInv, IndexHeld
  <2> QED BY <2>1, DeleteUnindexEffect
          DEF IndexInv, VisibleIsIndexed, Visible, Present, ram
<1>2. IndexHeld(th[t])'
  BY DeleteUnindexEffect
  DEF IndexInv, IndexHeld, Visible, Present, disk, ram, hist, Idle
<1>3. Replaying(th[t])'
  BY DeleteUnindexEffect
  DEF IndexInv, Replaying, Visible, Present, disk, ram, hist, Idle
<1> QED BY <1>1, <1>2, <1>3 DEF IndexInv

\* The context links are no index of this property.
LEMMA DeleteUnlinkIndex ==
  ASSUME IndInv, NEW t \in Threads, IndexInv(t), DeleteUnlink(t)
  PROVE  IndexInv(t)'
<1>1. VisibleIsIndexed'
  BY DeleteUnlinkEffect
  DEF IndexInv, IndexHeld, VisibleIsIndexed, Visible, Present, disk, ram, hist, Idle
<1>2. IndexHeld(th[t])'
  BY DeleteUnlinkEffect DEF IndexInv, IndexHeld, Visible, Present, disk, ram, hist, Idle
<1>3. Replaying(th[t])'
  BY DeleteUnlinkEffect DEF IndexInv, Replaying, Visible, Present, disk, ram, hist, Idle
<1> QED BY <1>1, <1>2, <1>3 DEF IndexInv

\* A retrieval adds a trace.
LEMMA RetrieveStartIndex ==
  ASSUME IndInv, NEW t \in Threads, IndexInv(t), RetrieveStart(t)
  PROVE  IndexInv(t)'
<1>1. VisibleIsIndexed'
  BY RetrieveStartEffect
  DEF IndexInv, IndexHeld, VisibleIsIndexed, Visible, Present, disk, ram, hist, Idle
<1>2. IndexHeld(th[t])'
  BY RetrieveStartEffect
  DEF IndexInv, IndexHeld, Visible, Present, disk, ram, hist, Idle
<1>3. Replaying(th[t])'
  BY RetrieveStartEffect
  DEF IndexInv, Replaying, Visible, Present, disk, ram, hist, Idle
<1> QED BY <1>1, <1>2, <1>3 DEF IndexInv

\* The unit to be touched is there.
LEMMA RetrieveTouchIndex ==
  ASSUME IndInv, NEW t \in Threads, IndexInv(t), RetrieveTouch(t)
  PROVE  IndexInv(t)'
<1>1. VisibleIsIndexed'
  BY RetrieveTouchEffect
  DEF IndexInv, IndexHeld, VisibleIsIndexed, Visible, Present, disk, ram, hist, Idle
<1>2. IndexHeld(th[t])'
  BY RetrieveTouchEffect
  DEF IndexInv, IndexHeld, Visible, Present, disk, ram, hist, Idle
<1>3. Replaying(th[t])'
  BY RetrieveTouchEffect
  DEF IndexInv, Replaying, Visible, Present, disk, ram, hist, Idle
<1> QED BY <1>1, <1>2, <1>3 DEF IndexInv

\* It is put where it was.
LEMMA RetrieveTouchPutIndex ==
  ASSUME IndInv, NEW t \in Threads, IndexInv(t), RetrieveTouchPut(t)
  PROVE  IndexInv(t)'
<1>1. /\ th[t].cur \in Ids /\ th[t].buf # None /\ Present(th[t].cur)
      /\ memory_kv' = [memory_kv EXCEPT ![th[t].cur] = th[t].buf]
      /\ UNCHANGED <<link_overlay, postings, binary_index>>
  BY RetrieveTouchPutEffect, Locals DEF IndexInv, IndexHeld, ram
<1>2. VisibleIsIndexed'
  BY <1>1, PutIndexed DEF IndexInv
<1>3. IndexHeld(th[t])'
  BY RetrieveTouchPutEffect
  DEF IndexInv, IndexHeld, Visible, Present, disk, ram, hist, Idle
<1>4. Replaying(th[t])'
  BY RetrieveTouchPutEffect
  DEF IndexInv, Replaying, Visible, Present, disk, ram, hist, Idle
<1> QED BY <1>2, <1>3, <1>4 DEF IndexInv

\* Feedback adds an audit row.
LEMMA FeedbackStartIndex ==
  ASSUME IndInv, NEW t \in Threads, IndexInv(t), FeedbackStart(t)
  PROVE  IndexInv(t)'
<1>1. VisibleIsIndexed'
  BY FeedbackStartEffect
  DEF IndexInv, IndexHeld, VisibleIsIndexed, Visible, Present, disk, ram, hist, Idle
<1>2. IndexHeld(th[t])'
  BY FeedbackStartEffect
  DEF IndexInv, IndexHeld, Visible, Present, disk, ram, hist, Idle
<1>3. Replaying(th[t])'
  BY FeedbackStartEffect
  DEF IndexInv, Replaying, Visible, Present, disk, ram, hist, Idle
<1> QED BY <1>1, <1>2, <1>3 DEF IndexInv

\* The unit to be adjusted is there.
LEMMA FeedbackUsageIndex ==
  ASSUME IndInv, NEW t \in Threads, IndexInv(t), FeedbackUsage(t)
  PROVE  IndexInv(t)'
<1>1. VisibleIsIndexed'
  BY FeedbackUsageEffect
  DEF IndexInv, IndexHeld, VisibleIsIndexed, Visible, Present, disk, ram, hist, Idle
<1>2. IndexHeld(th[t])'
  BY FeedbackUsageEffect
  DEF IndexInv, IndexHeld, Visible, Present, disk, ram, hist, Idle
<1>3. Replaying(th[t])'
  BY FeedbackUsageEffect
  DEF IndexInv, Replaying, Visible, Present, disk, ram, hist, Idle
<1> QED BY <1>1, <1>2, <1>3 DEF IndexInv

\* It is put where it was.
LEMMA FeedbackUsagePutIndex ==
  ASSUME IndInv, NEW t \in Threads, IndexInv(t), FeedbackUsagePut(t)
  PROVE  IndexInv(t)'
<1>1. /\ th[t].cur \in Ids /\ th[t].buf # None /\ Present(th[t].cur)
      /\ memory_kv' = [memory_kv EXCEPT ![th[t].cur] = th[t].buf]
      /\ UNCHANGED <<link_overlay, postings, binary_index>>
  BY FeedbackUsagePutEffect, Locals DEF IndexInv, IndexHeld, ram
<1>2. VisibleIsIndexed'
  BY <1>1, PutIndexed DEF IndexInv
<1>3. IndexHeld(th[t])'
  BY FeedbackUsagePutEffect
  DEF IndexInv, IndexHeld, Visible, Present, disk, ram, hist, Idle
<1>4. Replaying(th[t])'
  BY FeedbackUsagePutEffect
  DEF IndexInv, Replaying, Visible, Present, disk, ram, hist, Idle
<1> QED BY <1>2, <1>3, <1>4 DEF IndexInv

\* Binding touches the context links.
LEMMA FeedbackBindIndex ==
  ASSUME IndInv, NEW t \in Threads, IndexInv(t), FeedbackBind(t)
  PROVE  IndexInv(t)'
<1>1. VisibleIsIndexed'
  BY FeedbackBindEffect
  DEF IndexInv, IndexHeld, VisibleIsIndexed, Visible, Present, disk, ram, hist, Idle
<1>2. IndexHeld(th[t])'
  BY FeedbackBindEffect DEF IndexInv, IndexHeld, Visible, Present, disk, ram, hist, Idle
<1>3. Replaying(th[t])'
  BY FeedbackBindEffect DEF IndexInv, Replaying, Visible, Present, disk, ram, hist, Idle
<1> QED BY <1>1, <1>2, <1>3 DEF IndexInv

\* A unit that points at the answer is there.
LEMMA FeedbackEdgeGetIndex ==
  ASSUME IndInv, NEW t \in Threads, IndexInv(t), FeedbackEdgeGet(t)
  PROVE  IndexInv(t)'
<1>1. VisibleIsIndexed'
  BY FeedbackEdgeGetEffect, ZenonT(40)
  DEF IndexInv, IndexHeld, VisibleIsIndexed, Visible, Present, disk, ram, hist, Idle
<1>2. IndexHeld(th[t])'
  BY FeedbackEdgeGetEffect DEF IndexHeld, PointsAt, Present, disk
<1>3. Replaying(th[t])'
  BY FeedbackEdgeGetEffect
  DEF IndexInv, Replaying, Visible, Present, disk, ram, hist, Idle
<1> QED BY <1>1, <1>2, <1>3 DEF IndexInv

\* It is put where it was.
LEMMA FeedbackEdgePutIndex ==
  ASSUME IndInv, NEW t \in Threads, IndexInv(t), FeedbackEdgePut(t)
  PROVE  IndexInv(t)'
<1>1. /\ th[t].path[1] \in Ids /\ th[t].buf # None /\ Present(th[t].path[1])
      /\ memory_kv' = [memory_kv EXCEPT ![th[t].path[1]] = th[t].buf]
      /\ UNCHANGED <<link_overlay, postings, binary_index>>
  BY FeedbackEdgePutEffect, Locals DEF IndexInv, IndexHeld, ram
<1>2. VisibleIsIndexed'
  BY <1>1, PutIndexed DEF IndexInv
<1>3. IndexHeld(th[t])'
  BY FeedbackEdgePutEffect
  DEF IndexInv, IndexHeld, Visible, Present, disk, ram, hist, Idle
<1>4. Replaying(th[t])'
  BY FeedbackEdgePutEffect
  DEF IndexInv, Replaying, Visible, Present, disk, ram, hist, Idle
<1> QED BY <1>2, <1>3, <1>4 DEF IndexInv

\* Reading the row changes nothing.
LEMMA FeedbackRowGetIndex ==
  ASSUME IndInv, NEW t \in Threads, IndexInv(t), FeedbackRowGet(t)
  PROVE  IndexInv(t)'
<1>1. VisibleIsIndexed'
  BY FeedbackRowGetEffect
  DEF IndexInv, IndexHeld, VisibleIsIndexed, Visible, Present, disk, ram, hist, Idle
<1>2. IndexHeld(th[t])'
  BY FeedbackRowGetEffect
  DEF IndexInv, IndexHeld, Visible, Present, disk, ram, hist, Idle
<1>3. Replaying(th[t])'
  BY FeedbackRowGetEffect
  DEF IndexInv, Replaying, Visible, Present, disk, ram, hist, Idle
<1> QED BY <1>1, <1>2, <1>3 DEF IndexInv

\* A row replaces a row.
LEMMA FeedbackRowPutIndex ==
  ASSUME IndInv, NEW t \in Threads, IndexInv(t), FeedbackRowPut(t)
  PROVE  IndexInv(t)'
<1>1. VisibleIsIndexed'
  <2>1. th[t].path[1] \in Ids /\ th[t].row # None
    BY FeedbackRowPutEffect, Locals
  <2> QED BY <2>1, FeedbackRowPutEffect, RowIndexed DEF IndexInv, ram
<1>2. IndexHeld(th[t])'
  BY FeedbackRowPutEffect
  DEF IndexInv, IndexHeld, Visible, Present, disk, ram, hist, Idle
<1>3. Replaying(th[t])'
  BY FeedbackRowPutEffect
  DEF IndexInv, Replaying, Visible, Present, disk, ram, hist, Idle
<1> QED BY <1>1, <1>2, <1>3 DEF IndexInv

\* The snapshot holds units that are there.
LEMMA ConsolidateStartIndex ==
  ASSUME IndInv, NEW t \in Threads, IndexInv(t), ConsolidateStart(t)
  PROVE  IndexInv(t)'
<1>1. VisibleIsIndexed'
  BY ConsolidateStartEffect
  DEF IndexInv, IndexHeld, FreshSnapshot, VisibleIsIndexed, Visible, Present, disk, ram, hist, Idle
<1>2. IndexHeld(th[t])'
  BY ConsolidateStartEffect
  DEF IndexInv, IndexHeld, FreshSnapshot, Visible, Present, disk, ram, hist, Idle
<1>3. Replaying(th[t])'
  BY ConsolidateStartEffect
  DEF IndexInv, Replaying, Visible, Present, disk, ram, hist, Idle
<1> QED BY <1>1, <1>2, <1>3 DEF IndexInv

\* A cycle neither adds nor drops a unit of the snapshot.
LEMMA ConsolidateCycleIndex ==
  ASSUME IndInv, NEW t \in Threads, IndexInv(t), ConsolidateCycle(t)
  PROVE  IndexInv(t)'
<1>1. VisibleIsIndexed'
  BY ConsolidateCycleEffect
  DEF IndexInv, IndexHeld, VisibleIsIndexed, Visible, Present, disk, ram, hist, Idle
<1>2. IndexHeld(th[t])'
  <2>1. th[t].snap \in Table /\ th[t].pc = "cycle" /\ th'[t].pc = "flush_kv"
    BY ConsolidateCycleEffect, Locals
  <2>2. \A x \in Ids : th'[t].snap[x] # None <=> th[t].snap[x] # None
    BY <2>1, CycleKeepsUnits, ConsolidateCycleEffect
  <2>3. UNCHANGED memory_kv
    BY ConsolidateCycleEffect DEF disk
  <2> QED BY <2>1, <2>2, <2>3 DEF IndexInv, IndexHeld, Present
<1>3. Replaying(th[t])'
  BY ConsolidateCycleEffect
  DEF IndexInv, Replaying, Visible, Present, disk, ram, hist, Idle
<1> QED BY <1>1, <1>2, <1>3 DEF IndexInv

\* Nor does one that compresses a cluster.
LEMMA ConsolidateCompressIndex ==
  ASSUME IndInv, NEW t \in Threads, IndexInv(t), ConsolidateCompress(t)
  PROVE  IndexInv(t)'
<1>1. VisibleIsIndexed'
  BY ConsolidateCompressEffect
  DEF IndexInv, IndexHeld, VisibleIsIndexed, Visible, Present, disk, ram, hist, Idle
<1>2. IndexHeld(th[t])'
  <2>1. th[t].snap \in Table /\ th[t].pc = "cycle" /\ th'[t].pc = "flush_kv"
    BY ConsolidateCompressEffect, Locals
  <2>2. PICK c \in CycleInputs, age \in 0..2, C \in SUBSET Ids, s \in Ids :
          th'[t].snap = AfterCycle(th[t].snap, c, age, C, s)
    BY ConsolidateCompressEffect, SMTT(30)
  <2>3. \A x \in Ids : th'[t].snap[x] # None <=> th[t].snap[x] # None
    <3>1. \A x \in Ids : AfterCycle(th[t].snap, c, age, C, s)[x] # None
                           <=> th[t].snap[x] # None
      BY <2>1, CompressKeepsUnits, ZenonT(40)
    <3> QED BY <2>2, <3>1
  <2>4. UNCHANGED memory_kv
    BY ConsolidateCompressEffect DEF disk
  <2> QED BY <2>1, <2>3, <2>4 DEF IndexInv, IndexHeld, Present
<1>3. Replaying(th[t])'
  BY ConsolidateCompressEffect
  DEF IndexInv, Replaying, Visible, Present, disk, ram, hist, Idle
<1> QED BY <1>1, <1>2, <1>3 DEF IndexInv

\* A copy is put where its unit was.
LEMMA FlushKvIndex ==
  ASSUME IndInv, NEW t \in Threads, IndexInv(t), FlushKv(t)
  PROVE  IndexInv(t)'
<1>1. \/ UNCHANGED memory_kv
      \/ \E x \in th[t].todo :
            /\ x \in Ids /\ Present(x) /\ th[t].snap[x] # None
            /\ memory_kv' = [memory_kv EXCEPT ![x] = th[t].snap[x]]
  <2>1. /\ th[t].pc = "flush_kv" /\ th[t].todo \subseteq Ids
        /\ \A x \in th[t].todo : th[t].snap[x] # None
    BY FlushKvEffect, Locals, EngineAssumption
  <2>2. \A x \in th[t].todo : Present(x)
    BY <2>1 DEF IndexInv, IndexHeld
  <2> QED BY <2>1, <2>2, FlushKvEffect
<1>2. VisibleIsIndexed'
  <2>1. UNCHANGED <<link_overlay, postings, binary_index>>
    BY FlushKvEffect DEF ram
  <2>2. CASE UNCHANGED memory_kv
    BY <2>1, <2>2 DEF IndexInv, VisibleIsIndexed, Visible, Present
  <2> QED BY <1>1, <2>1, <2>2, PutIndexed DEF IndexInv
<1>3. IndexHeld(th[t])'
  <2>1. \A x \in Ids : Present(x)' <=> Present(x)
    <3>1. CASE UNCHANGED memory_kv
      BY <3>1 DEF Present
    <3> QED BY <1>1, <3>1, PutVisible
  <2>2. CASE th'[t] = Idle
    BY <2>2 DEF IndexHeld, Idle
  <2>3. CASE th'[t].pc \in {"summary", "flush_row"} /\ UNCHANGED <<th[t].snap>>
    BY <2>1, <2>3, FlushKvEffect DEF IndexInv, IndexHeld
  <2> QED BY <2>2, <2>3, FlushKvEffect
<1>4. Replaying(th[t])'
  BY FlushKvEffect DEF IndexInv, Replaying, Visible, Present, disk, ram, hist, Idle
<1> QED BY <1>2, <1>3, <1>4 DEF IndexInv

\* And its row where a row was.
LEMMA FlushRowIndex ==
  ASSUME IndInv, NEW t \in Threads, IndexInv(t), FlushRow(t)
  PROVE  IndexInv(t)'
<1>1. VisibleIsIndexed'
  <2>1. PICK x \in th[t].todo :
          link_overlay' = [link_overlay EXCEPT ![x] = th[t].snap[x].links]
    BY FlushRowEffect
  <2>2. x \in Ids /\ th[t].snap[x] \in Unit
    BY FlushRowEffect, Locals
  <2>3. th[t].snap[x].links # None
    BY <2>2, EngineAssumption DEF Unit
  <2> QED BY <2>1, <2>2, <2>3, RowIndexed, FlushRowEffect DEF IndexInv, ram
<1>2. IndexHeld(th[t])'
  BY FlushRowEffect DEF IndexInv, IndexHeld, Visible, Present, disk, ram, hist, Idle
<1>3. Replaying(th[t])'
  BY FlushRowEffect DEF IndexInv, Replaying, Visible, Present, disk, ram, hist, Idle
<1> QED BY <1>1, <1>2, <1>3 DEF IndexInv

\* The summary enters the binary index before it is persisted.
LEMMA SummaryWriteIndex ==
  ASSUME IndInv, NEW t \in Threads, IndexInv(t), SummaryWrite(t)
  PROVE  IndexInv(t)'
<1>1. VisibleIsIndexed'
  <2>1. binary_index \subseteq binary_index'
    BY SummaryWriteEffect DEF EmbedInto
  <2> QED BY <2>1, SummaryWriteEffect
          DEF IndexInv, VisibleIsIndexed, Visible, Present, disk
<1>2. IndexHeld(th[t])'
  BY SummaryWriteEffect DEF IndexHeld, EmbedInto
<1>3. Replaying(th[t])'
  BY SummaryWriteEffect DEF IndexInv, Replaying, Visible, Present, disk, ram, hist, Idle
<1> QED BY <1>1, <1>2, <1>3 DEF IndexInv

\* The summary's row is emptied, not removed.
LEMMA SealRowIndex ==
  ASSUME IndInv, NEW t \in Threads, IndexInv(t), SealRow(t)
  PROVE  IndexInv(t)'
<1>1. VisibleIsIndexed'
  <2>1. th[t].cur \in Ids /\ {} # None
    BY SealRowEffect, Locals, EngineAssumption
  <2> QED BY <2>1, SealRowEffect, RowIndexed, ZenonT(40) DEF IndexInv, ram
<1>2. IndexHeld(th[t])'
  BY SealRowEffect DEF IndexInv, IndexHeld, Visible, Present, disk, ram, hist, Idle
<1>3. Replaying(th[t])'
  BY SealRowEffect DEF IndexInv, Replaying, Visible, Present, disk, ram, hist, Idle
<1> QED BY <1>1, <1>2, <1>3 DEF IndexInv

\* The summary is there when it is read again.
LEMMA SealGetIndex ==
  ASSUME IndInv, NEW t \in Threads, IndexInv(t), SealGet(t)
  PROVE  IndexInv(t)'
<1>1. VisibleIsIndexed'
  BY SealGetEffect
  DEF IndexInv, IndexHeld, VisibleIsIndexed, Visible, Present, disk, ram, hist, Idle
<1>2. IndexHeld(th[t])'
  <2>1. \/ th'[t] = Idle
        \/ /\ th'[t].pc = "seal_put" /\ memory_kv[th[t].cur] # None
           /\ UNCHANGED <<memory_kv, th[t].cur>>
    BY SealGetEffect DEF disk, Present
  <2> QED BY <2>1 DEF IndexHeld, Present, Idle
<1>3. Replaying(th[t])'
  <2>1. th[t].pc = "seal_get" /\ (th'[t] = Idle \/ (th'[t].pc = "seal_put" /\ UNCHANGED <<th[t].op>>))
    BY SealGetEffect
  <2> QED BY <2>1 DEF IndexInv, Replaying, Idle
<1> QED BY <1>1, <1>2, <1>3 DEF IndexInv

\* It is put where it was.
LEMMA SealPutIndex ==
  ASSUME IndInv, NEW t \in Threads, IndexInv(t), SealPut(t)
  PROVE  IndexInv(t)'
<1>1. /\ th[t].cur \in Ids /\ th[t].buf # None /\ Present(th[t].cur)
      /\ memory_kv' = [memory_kv EXCEPT ![th[t].cur] = th[t].buf]
      /\ UNCHANGED <<link_overlay, postings, binary_index>>
  BY SealPutEffect, Locals DEF IndexInv, IndexHeld, ram
<1>2. VisibleIsIndexed'
  BY <1>1, PutIndexed DEF IndexInv
<1>3. IndexHeld(th[t])'
  BY SealPutEffect DEF IndexInv, IndexHeld, Visible, Present, disk, ram, hist, Idle
<1>4. Replaying(th[t])'
  BY SealPutEffect DEF IndexInv, Replaying, Visible, Present, disk, ram, hist, Idle
<1> QED BY <1>2, <1>3, <1>4 DEF IndexInv

\* A reindex has the whole log to do.
LEMMA ReindexStartIndex ==
  ASSUME IndInv, NEW t \in Threads, IndexInv(t), ReindexStart(t)
  PROVE  IndexInv(t)'
<1>1. VisibleIsIndexed'
  BY ReindexStartEffect
  DEF IndexInv, IndexHeld, VisibleIsIndexed, Visible, Present, disk, ram, hist, Idle
<1>2. IndexHeld(th[t])'
  BY ReindexStartEffect DEF IndexInv, IndexHeld, Visible, Present, disk, ram, hist, Idle
<1>3. Replaying(th[t])'
  BY ReindexStartEffect DEF IndexInv, Replaying, Visible, Present, disk, ram, hist, Idle
<1> QED BY <1>1, <1>2, <1>3 DEF IndexInv

\* With the units gone nothing has to be indexed.
LEMMA ReindexClearIndex ==
  ASSUME IndInv, NEW t \in Threads, IndexInv(t), ReindexClear(t)
  PROVE  IndexInv(t)'
<1>1. VisibleIsIndexed'
  BY ReindexClearEffect
  DEF IndexInv, IndexHeld, VisibleIsIndexed, Visible, Present, disk, ram, hist, Idle
<1>2. IndexHeld(th[t])'
  BY ReindexClearEffect DEF IndexInv, IndexHeld, Visible, Present, disk, ram, hist, Idle
<1>3. Replaying(th[t])'
  BY ReindexClearEffect DEF IndexInv, Replaying, Visible, Present, disk, ram, hist, Idle
<1> QED BY <1>1, <1>2, <1>3 DEF IndexInv

\* No document is left.
LEMMA ReindexFulltextIndex ==
  ASSUME IndInv, NEW t \in Threads, IndexInv(t), ReindexFulltext(t)
  PROVE  IndexInv(t)'
<1>1. VisibleIsIndexed'
  BY ReindexFulltextEffect
  DEF IndexInv, IndexHeld, VisibleIsIndexed, Visible, Present, disk, ram, hist, Idle
<1>2. IndexHeld(th[t])'
  BY ReindexFulltextEffect
  DEF IndexInv, IndexHeld, Visible, Present, disk, ram, hist, Idle
<1>3. Replaying(th[t])'
  BY ReindexFulltextEffect
  DEF IndexInv, Replaying, Visible, Present, disk, ram, hist, Idle
<1> QED BY <1>1, <1>2, <1>3 DEF IndexInv

\* No code is left: nothing is replayed yet, everywhere.
LEMMA ReindexRamIndex ==
  ASSUME IndInv, NEW t \in Threads, IndexInv(t), ReindexRam(t)
  PROVE  IndexInv(t)'
<1>1. VisibleIsIndexed'
  <2>1. Visible = {}
    BY ReindexRamEffect DEF IndexInv, Replaying
  <2> QED BY <2>1, ReindexRamEffect DEF VisibleIsIndexed, Visible, Present, disk
<1>2. IndexHeld(th[t])'
  BY ReindexRamEffect DEF IndexInv, IndexHeld, Visible, Present, disk, ram, hist, Idle
<1>3. Replaying(th[t])'
  BY ReindexRamEffect DEF IndexInv, Replaying, Visible, Present, disk, ram, hist, Idle
<1> QED BY <1>1, <1>2, <1>3 DEF IndexInv

\* The next record of the log enters the binary index first.
LEMMA ReindexNextIndex ==
  ASSUME IndInv, NEW t \in Threads, IndexInv(t), ReindexNext(t)
  PROVE  IndexInv(t)'
<1>1. th[t].pc = "re_next" /\ UNCHANGED <<disk, hist>>
  BY ReindexNextEffect
<1>2. CASE th'[t] = Idle /\ UNCHANGED ram
  BY <1>1, <1>2, ReturnIndexed
  DEF IndexInv, VisibleIsIndexed, Visible, Present, disk, ram
<1>3. ASSUME NEW x \in th[t].todo, NEW ok \in Embeds, EmbedInto(x, ok),
             th'[t].pc = "discover", th'[t].cur = x,
             UNCHANGED <<th[t].op, th[t].todo>>
      PROVE  IndexInv(t)'
  <2>1. binary_index' = binary_index \cup {x}
    BY <1>3 DEF EmbedInto
  <2>2. UNCHANGED <<Visible, memory_log, link_overlay, postings, fulltext>>
    BY <1>1 DEF Visible, Present, disk
  <2>3. VisibleIsIndexed'
    BY <2>1, <2>2 DEF IndexInv, VisibleIsIndexed
  <2>4. IndexHeld(th[t])'
    BY <1>3, <2>1 DEF IndexHeld
  <2>5. Replaying(th[t])'
    BY <1>1, <1>3, <2>1, <2>2 DEF IndexInv, Replaying
  <2> QED BY <2>3, <2>4, <2>5 DEF IndexInv
<1> QED BY <1>2, <1>3, ReindexNextEffect

\* A failed step leaves the indexes complete, whichever step it was.
LEMMA FailIndex ==
  ASSUME IndInv, NEW t \in Threads, IndexInv(t), Fail(t)
  PROVE  IndexInv(t)'
<1>1. VisibleIsIndexed'
  BY FailEffect
  DEF IndexInv, IndexHeld, VisibleIsIndexed, Visible, Present, disk, ram, hist, Idle
<1>2. IndexHeld(th[t])'
  BY FailEffect DEF IndexInv, IndexHeld, Visible, Present, disk, ram, hist, Idle
<1>3. Replaying(th[t])'
  BY FailEffect DEF IndexInv, Replaying, Visible, Present, disk, ram, hist, Idle
<1> QED BY <1>1, <1>2, <1>3 DEF IndexInv

\* One thread calls the engine; the theorems below are about one call at a time.
OneCaller == \E t : Threads = {t}
\* open rebuilds the in-memory index from the visible units.
LEMMA RestartIndex ==
  ASSUME IndInv, NEW t \in Threads, IndexInv(t), Restart
  PROVE  IndexInv(t)'
<1>1. VisibleIsIndexed'
  BY DEF Restart, IndexInv, VisibleIsIndexed, Visible, Present, disk
<1>2. th'[t] = Idle
  BY DEF Restart
<1> QED BY <1>1, <1>2, ReturnIndexed

\* Every step of a lone caller keeps the indexes complete.
LEMMA NextIndex ==
  ASSUME NEW t \in Threads, Threads = {t}, IndInv, IndexInv(t),
         [Next]_vars
  PROVE  IndexInv(t)'
<1>1. CASE WriteStep(t)
  BY <1>1, WriteStartIndex, WriteDiscoverIndex, WriteLinkIndex, WritePersistIndex,
     WriteFulltextIndex, WriteEnrichIndex, WriteReputIndex
  DEF WriteStep
<1>2. CASE DeleteStep(t)
  BY <1>2, DeleteStartIndex, DeleteNextIndex, DeleteRemoveIndex, DeleteCascadeIndex,
     DeleteCascadeGetIndex, DeleteCascadePutIndex, DeleteUnindexIndex,
     DeleteUnlinkIndex
  DEF DeleteStep
<1>3. CASE RetrieveStep(t)
  BY <1>3, RetrieveStartIndex, RetrieveTouchIndex, RetrieveTouchPutIndex
  DEF RetrieveStep
<1>4. CASE FeedbackStep(t)
  BY <1>4, FeedbackStartIndex, FeedbackUsageIndex, FeedbackUsagePutIndex,
     FeedbackBindIndex, FeedbackEdgeGetIndex, FeedbackEdgePutIndex,
     FeedbackRowGetIndex, FeedbackRowPutIndex
  DEF FeedbackStep
<1>5. CASE ConsolidateStep(t)
  BY <1>5, ConsolidateStartIndex, ConsolidateCycleIndex, ConsolidateCompressIndex,
     FlushKvIndex, FlushRowIndex, SummaryWriteIndex, SealRowIndex, SealGetIndex,
     SealPutIndex
  DEF ConsolidateStep
<1>6. CASE ReindexStep(t)
  BY <1>6, ReindexStartIndex, ReindexClearIndex, ReindexFulltextIndex,
     ReindexRamIndex, ReindexNextIndex
  DEF ReindexStep
<1>7. CASE Fail(t)
  BY <1>7, FailIndex
<1>8. CASE Restart
  BY <1>8, RestartIndex
<1>9. CASE UNCHANGED vars
  BY <1>9 DEF IndexInv, IndexHeld, Replaying, VisibleIsIndexed, Visible, Present,
               vars, disk, ram
<1> QED BY <1>1, <1>2, <1>3, <1>4, <1>5, <1>6, <1>7, <1>8, <1>9 DEF Next

\* The invariant of one caller, with faults.
LEMMA IndexInvariance ==
  ASSUME NEW t \in Threads, Threads = {t}
  PROVE  Spec => []IndexInv(t)
<1>1. Init => IndexInv(t)
  BY DEF Init, IndexInv, IndexHeld, Replaying, VisibleIsIndexed, Visible, Present, Idle
<1>2. IndInv /\ IndexInv(t) /\ [Next]_vars => IndexInv(t)'
  BY NextIndex
<1> QED BY <1>1, <1>2, Invariance, PTL DEF Spec

\* One caller: a visible memory is posted, expandable and in the binary index at
\* every moment, the middle of a call, a failed step and a crash included.
THEOREM VisibleMemoriesAreIndexed ==
  ASSUME OneCaller
  PROVE  Spec => []VisibleIsIndexed
<1>1. PICK t \in Threads : Threads = {t}
  BY DEF OneCaller
<1>2. IndexInv(t) => VisibleIsIndexed
  BY DEF IndexInv
<1> QED BY <1>1, <1>2, IndexInvariance, PTL

\* One caller: between two records a reindex has rebuilt exactly the part of the
\* log it has replayed, whatever state it found.
THEOREM ReindexReplaysTheLog ==
  ASSUME OneCaller
  PROVE  Spec => []ReindexReplays
<1>1. PICK t \in Threads : Threads = {t}
  BY DEF OneCaller
<1>2. IndexInv(t) => ReindexReplays
  BY <1>1 DEF IndexInv, Replaying, ReindexReplays, At
<1> QED BY <1>1, <1>2, IndexInvariance, PTL
=============================================================================
