---------------------------- MODULE QuietProofs -----------------------------
(***************************************************************************)
(* Proofs about an engine with one caller and no failing step: between two *)
(* calls the overlay has the links of the units, every visible memory has  *)
(* its document, and what a unit names has a raw record.                   *)
(*                                                                         *)
(* Each of the three is false in the middle of a call, so each has an      *)
(* invariant that says how far the call has come.                          *)
(***************************************************************************)
EXTENDS SerialProofs

-----------------------------------------------------------------------------
(***************************************************************************)
(* The overlay follows the units.                                          *)
(***************************************************************************)
\* The row of x is about to be brought in line with its unit.
Lagging(r, x) ==
    \/ r.pc \in {"casc_get", "casc_put"} /\ Least(x, r.scan)
    \/ r.pc \in {"row_get", "row_put"} /\ x = r.path[1]
    \/ r.pc = "flush_row" /\ Least(x, r.todo)
    \/ r.pc \in {"seal_get", "seal_put"} /\ x = r.cur

\* Every other row has the links of its unit.
RowsAgree(r) ==
    \A x \in Visible : ~ Lagging(r, x) => link_overlay[x] = memory_kv[x].links

\* A row and a raised copy of it.
RaisedRow(l, x) == IF x \in Targets(l) THEN Raise(l, x) ELSE l

\* What a thread holds will bring the lagging row and its unit in line.
OverlayHeld(r) ==
    /\ r.pc \in {"fulltext", "enrich", "reput", "touch_put", "usage_put", "seal_put"}
         => r.buf.links = link_overlay[r.cur]
    /\ r.pc = "seal_get" => link_overlay[r.cur] = {}
    /\ r.pc = "casc_get" => \A y \in r.scan : Least(y, r.scan) =>
            link_overlay[y] = {e \in r.snap[y].links : e.to # r.cur}
    /\ r.pc = "casc_put" => \A y \in r.scan : Least(y, r.scan) =>
            link_overlay[y] = r.buf.links
    /\ r.pc = "edge_put" =>
            /\ r.path[2] \in Targets(link_overlay[r.path[1]])
            /\ r.buf.links = Raise(link_overlay[r.path[1]], r.path[2])
    /\ r.pc = "row_get" /\ Present(r.path[1]) =>
          memory_kv[r.path[1]].links = RaisedRow(link_overlay[r.path[1]], r.path[2])
    /\ r.pc = "row_put" /\ Present(r.path[1]) => memory_kv[r.path[1]].links = r.row
    /\ r.pc = "flush_row" =>
          \A x \in r.todo : Least(x, r.todo) => memory_kv[x] = r.snap[x]

\* The invariant of the overlay.
OverlayInv(t) == RowsAgree(th[t]) /\ OverlayHeld(th[t])

\* All rows agree after a put that brings a unit in line with its row ...
LEMMA PutAgrees ==
  ASSUME IndInv, NEW t \in Threads, NEW x \in Ids, NEW u, u # None, Present(x),
         memory_kv' = [memory_kv EXCEPT ![x] = u], UNCHANGED link_overlay,
         link_overlay[x] = u.links,
         \A y \in Visible \ {x} : link_overlay[y] = memory_kv[y].links
  PROVE  RowsAgree(th[t])'
<1>1. /\ Visible' = Visible /\ memory_kv'[x] = u
      /\ \A y \in Ids \ {x} : memory_kv'[y] = memory_kv[y]
  BY PutVisible
<1>2. \A y \in Visible' : link_overlay'[y] = memory_kv'[y].links
  BY <1>1 DEF Visible
<1> QED BY <1>2 DEF RowsAgree

\* ... or a row with its unit.
LEMMA RowAgrees ==
  ASSUME IndInv, NEW t \in Threads, NEW x \in Ids, NEW l,
         link_overlay' = [link_overlay EXCEPT ![x] = l], UNCHANGED memory_kv,
         Present(x) => memory_kv[x].links = l,
         \A y \in Visible \ {x} : link_overlay[y] = memory_kv[y].links
  PROVE  RowsAgree(th[t])'
<1>1. \A y \in Visible' : link_overlay'[y] = memory_kv'[y].links
  BY Tables DEF Visible, Present
<1> QED BY <1>1 DEF RowsAgree

\* Steps at which no row lags.
LEMMA NoneLags ==
  ASSUME NEW t \in Threads, OverlayInv(t),
         th[t].pc \notin {"casc_get", "casc_put", "row_get", "row_put", "flush_row",
                          "seal_get", "seal_put"}
  PROVE  \A x \in Visible : link_overlay[x] = memory_kv[x].links
BY DEF OverlayInv, RowsAgree, Lagging

\* The usage of a unit is no part of its links.
LEMMA AdjustLinks ==
  ASSUME NEW u \in Unit, NEW pos
  PROVE  Adjust(u, pos).links = u.links
BY DEF Adjust, Unit

\* A new id has no row yet.
LEMMA WriteStartOverlay ==
  ASSUME IndInv, NEW t \in Threads, IndexInv(t), OverlayInv(t), WriteStart(t)
  PROVE  OverlayInv(t)'
<1>1. RowsAgree(th[t])'
  BY WriteStartEffect
  DEF OverlayInv, RowsAgree, Lagging, Visible, Present, disk, ram, hist, Idle
<1>2. OverlayHeld(th[t])'
  BY WriteStartEffect
  DEF OverlayInv, OverlayHeld, Visible, Present, disk, ram, hist, Idle
<1> QED BY <1>1, <1>2 DEF OverlayInv

\* Discovery only reads.
LEMMA WriteDiscoverOverlay ==
  ASSUME IndInv, NEW t \in Threads, IndexInv(t), OverlayInv(t), WriteDiscover(t)
  PROVE  OverlayInv(t)'
<1>1. RowsAgree(th[t])'
  BY WriteDiscoverEffect
  DEF OverlayInv, RowsAgree, Lagging, Visible, Present, disk, ram, hist, Idle
<1>2. OverlayHeld(th[t])'
  BY WriteDiscoverEffect
  DEF OverlayInv, OverlayHeld, Visible, Present, disk, ram, hist, Idle
<1> QED BY <1>1, <1>2 DEF OverlayInv

\* Linking only reads.
LEMMA WriteLinkOverlay ==
  ASSUME IndInv, NEW t \in Threads, IndexInv(t), OverlayInv(t), WriteLink(t)
  PROVE  OverlayInv(t)'
<1>1. RowsAgree(th[t])'
  BY WriteLinkEffect
  DEF OverlayInv, RowsAgree, Lagging, Visible, Present, disk, ram, hist, Idle
<1>2. OverlayHeld(th[t])'
  BY WriteLinkEffect
  DEF OverlayInv, OverlayHeld, Visible, Present, disk, ram, hist, Idle
<1> QED BY <1>1, <1>2 DEF OverlayInv

\* Unit and row are written in one transaction, from the same links.
LEMMA WritePersistOverlay ==
  ASSUME IndInv, NEW t \in Threads, IndexInv(t), OverlayInv(t), WritePersist(t)
  PROVE  OverlayInv(t)'
<1>1. th[t].cur \in Ids /\ th[t].buf # None /\ th[t].pc = "persist"
  BY WritePersistEffect, Locals
<1>2. \A x \in Visible : link_overlay[x] = memory_kv[x].links
  BY <1>1, NoneLags
<1>3. CASE /\ th'[t].pc = "fulltext" /\ PersistUnit(t)
           /\ UNCHANGED <<th[t].cur, th[t].buf>>
  <2>1. \A x \in Ids : IF x = th[t].cur
                       THEN memory_kv'[x] = th[t].buf /\ link_overlay'[x] = th[t].buf.links
                       ELSE memory_kv'[x] = memory_kv[x] /\ link_overlay'[x] = link_overlay[x]
    BY <1>1, <1>3, Tables DEF PersistUnit
  <2>2. RowsAgree(th[t])'
    BY <1>2, <2>1 DEF RowsAgree, Visible, Present
  <2>3. OverlayHeld(th[t])'
    BY <1>1, <1>3, <2>1 DEF OverlayHeld
  <2> QED BY <2>2, <2>3 DEF OverlayInv
<1>4. CASE th'[t] = Idle /\ UNCHANGED disk
  BY <1>2, <1>4 DEF OverlayInv, RowsAgree, OverlayHeld, Visible, Present, disk, Idle
<1> QED BY <1>3, <1>4, WritePersistEffect

\* The document has no links.
LEMMA WriteFulltextOverlay ==
  ASSUME IndInv, NEW t \in Threads, IndexInv(t), OverlayInv(t), WriteFulltext(t)
  PROVE  OverlayInv(t)'
<1>1. RowsAgree(th[t])'
  BY WriteFulltextEffect
  DEF OverlayInv, RowsAgree, Lagging, Visible, Present, disk, ram, hist, Idle
<1>2. OverlayHeld(th[t])'
  BY WriteFulltextEffect
  DEF OverlayInv, OverlayHeld, Visible, Present, disk, ram, hist, Idle
<1> QED BY <1>1, <1>2 DEF OverlayInv

\* Nor have the postings.
LEMMA WriteEnrichOverlay ==
  ASSUME IndInv, NEW t \in Threads, IndexInv(t), OverlayInv(t), WriteEnrich(t)
  PROVE  OverlayInv(t)'
<1>1. RowsAgree(th[t])'
  BY WriteEnrichEffect
  DEF OverlayInv, RowsAgree, Lagging, Visible, Present, disk, ram, hist, Idle
<1>2. OverlayHeld(th[t])'
  BY WriteEnrichEffect
  DEF OverlayInv, OverlayHeld, Visible, Present, disk, ram, hist, Idle
<1> QED BY <1>1, <1>2 DEF OverlayInv

\* The second put has the links of the first.
LEMMA WriteReputOverlay ==
  ASSUME IndInv, NEW t \in Threads, IndexInv(t), OverlayInv(t), WriteReput(t)
  PROVE  OverlayInv(t)'
<1>1. RowsAgree(th[t])'
  <2>1. /\ th[t].cur \in Ids /\ th[t].buf # None /\ Present(th[t].cur)
        /\ link_overlay[th[t].cur] = th[t].buf.links
    BY WriteReputEffect, Locals DEF IndexInv, IndexHeld, OverlayInv, OverlayHeld
  <2>2. \A y \in Visible \ {th[t].cur} : link_overlay[y] = memory_kv[y].links
    BY WriteReputEffect DEF OverlayInv, RowsAgree, Lagging
  <2> QED BY <2>1, <2>2, PutAgrees, WriteReputEffect
<1>2. OverlayHeld(th[t])'
  BY WriteReputEffect
  DEF OverlayInv, OverlayHeld, Visible, Present, disk, ram, hist, Idle
<1> QED BY <1>1, <1>2 DEF OverlayInv

\* A delete starts when the rows agree.
LEMMA DeleteStartOverlay ==
  ASSUME IndInv, NEW t \in Threads, IndexInv(t), OverlayInv(t), DeleteStart(t)
  PROVE  OverlayInv(t)'
<1>1. RowsAgree(th[t])'
  BY DeleteStartEffect
  DEF OverlayInv, RowsAgree, Lagging, Visible, Present, disk, ram, hist, Idle
<1>2. OverlayHeld(th[t])'
  BY DeleteStartEffect
  DEF OverlayInv, OverlayHeld, FreshSnapshot, Visible, Present, disk, ram, hist, Idle
<1> QED BY <1>1, <1>2 DEF OverlayInv

\* The lookup only reads.
LEMMA DeleteNextOverlay ==
  ASSUME IndInv, NEW t \in Threads, IndexInv(t), OverlayInv(t), DeleteNext(t)
  PROVE  OverlayInv(t)'
<1>1. RowsAgree(th[t])'
  BY DeleteNextEffect
  DEF OverlayInv, RowsAgree, Lagging, Visible, Present, disk, ram, hist, Idle
<1>2. OverlayHeld(th[t])'
  BY DeleteNextEffect
  DEF OverlayInv, OverlayHeld, Visible, Present, disk, ram, hist, Idle
<1> QED BY <1>1, <1>2 DEF OverlayInv

\* Unit and row go in one transaction.
LEMMA DeleteRemoveOverlay ==
  ASSUME IndInv, NEW t \in Threads, IndexInv(t), OverlayInv(t), DeleteRemove(t)
  PROVE  OverlayInv(t)'
<1>1. RowsAgree(th[t])'
  <2>1. th[t].cur \in Ids /\ \A x \in Visible : link_overlay[x] = memory_kv[x].links
    BY DeleteRemoveEffect, Locals, NoneLags
  <2>2. \A x \in Ids \ {th[t].cur} :
            memory_kv'[x] = memory_kv[x] /\ link_overlay'[x] = link_overlay[x]
    BY <2>1, DeleteRemoveEffect, Tables
  <2>3. memory_kv'[th[t].cur] = None
    BY <2>1, DeleteRemoveEffect, Tables
  <2> QED BY <2>1, <2>2, <2>3 DEF RowsAgree, Visible, Present
<1>2. OverlayHeld(th[t])'
  BY DeleteRemoveEffect
  DEF OverlayInv, OverlayHeld, Visible, Present, disk, ram, hist, Idle
<1> QED BY <1>1, <1>2 DEF OverlayInv

\* The row runs ahead of its unit, by the links that remain.
LEMMA DeleteCascadeOverlay ==
  ASSUME IndInv, NEW t \in Threads, IndexInv(t), OverlayInv(t), DeleteCascade(t)
  PROVE  OverlayInv(t)'
<1>1. /\ th[t].pc = "cascade" /\ th[t].scan \subseteq Ids /\ UNCHANGED memory_kv
      /\ \A x \in Visible : link_overlay[x] = memory_kv[x].links
  BY DeleteCascadeEffect, Locals, NoneLags
<1>2. CASE th'[t].pc = "unindex" /\ UNCHANGED link_overlay
  BY <1>1, <1>2 DEF OverlayInv, RowsAgree, OverlayHeld, Visible, Present
<1>3. ASSUME NEW y \in th[t].scan, Least(y, th[t].scan), th'[t].pc = "casc_get",
             link_overlay' = [link_overlay EXCEPT ![y] = Remaining(t, y)],
             UNCHANGED <<th[t].cur, th[t].scan, th[t].snap>>
      PROVE  OverlayInv(t)'
  <2>1. \A z \in th[t].scan : Least(z, th[t].scan) => z = y
    BY <1>1, <1>3, LeastUnique
  <2>2. /\ link_overlay'[y] = Remaining(t, y)
        /\ \A x \in Ids \ {y} : link_overlay'[x] = link_overlay[x]
    BY <1>1, <1>3, Tables
  <2>3. RowsAgree(th[t])'
    BY <1>1, <1>3, <2>2 DEF RowsAgree, Lagging, Visible, Present
  <2>4. OverlayHeld(th[t])'
    BY <1>3, <2>1, <2>2 DEF OverlayHeld, Remaining
  <2> QED BY <2>3, <2>4 DEF OverlayInv
<1> QED BY <1>2, <1>3, DeleteCascadeEffect

\* The unit to put has just those links.
LEMMA DeleteCascadeGetOverlay ==
  ASSUME IndInv, NEW t \in Threads, IndexInv(t), OverlayInv(t), DeleteCascadeGet(t)
  PROVE  OverlayInv(t)'
<1>1. /\ th[t].pc = "casc_get" /\ th[t].scan \subseteq Ids
      /\ UNCHANGED <<memory_kv, link_overlay>>
  BY DeleteCascadeGetEffect, Locals DEF disk
<1>2. PICK y \in th[t].scan :
        /\ Least(y, th[t].scan)
        /\ \/ /\ Present(y) /\ th'[t].pc = "casc_put" /\ UNCHANGED <<th[t].scan>>
              /\ th'[t].buf = [memory_kv[y] EXCEPT !.links = Remaining(t, y)]
           \/ ~ Present(y) /\ th'[t].pc = "cascade"
  BY DeleteCascadeGetEffect
<1>3. \A z : Least(z, th[t].scan) => z = y
  BY <1>1, <1>2, LeastUnique
<1>4. RowsAgree(th[t])'
  BY <1>1, <1>2, <1>3 DEF OverlayInv, RowsAgree, Lagging, Visible, Present
<1>5. OverlayHeld(th[t])'
  <2>1. CASE th'[t].pc = "cascade"
    BY <2>1 DEF OverlayHeld
  <2>2. CASE Present(y) /\ th'[t].pc = "casc_put"
    <3>1. memory_kv[y] \in Unit
      BY <1>1, <2>2, Tables DEF Present
    <3>2. th'[t].buf.links = Remaining(t, y) /\ UNCHANGED <<th[t].scan>>
      BY <1>2, <2>2, <3>1 DEF Unit
    <3>3. link_overlay[y] = Remaining(t, y)
      BY <1>1, <1>2 DEF OverlayInv, OverlayHeld, Remaining
    <3> QED BY <1>1, <1>3, <2>2, <3>2, <3>3 DEF OverlayHeld
  <2> QED BY <1>2, <2>1, <2>2
<1> QED BY <1>4, <1>5 DEF OverlayInv

\* Then the unit has caught up.
LEMMA DeleteCascadePutOverlay ==
  ASSUME IndInv, NEW t \in Threads, IndexInv(t), OverlayInv(t), DeleteCascadePut(t)
  PROVE  OverlayInv(t)'
<1>1. RowsAgree(th[t])'
  <2>1. /\ th[t].pc = "casc_put" /\ th[t].buf # None /\ th[t].scan \subseteq Ids
        /\ UNCHANGED link_overlay
    BY DeleteCascadePutEffect, Locals
  <2>2. PICK y \in th[t].scan :
          /\ Least(y, th[t].scan)
          /\ memory_kv' = [memory_kv EXCEPT ![y] = th[t].buf]
    BY DeleteCascadePutEffect
  <2>3. Present(y) /\ link_overlay[y] = th[t].buf.links
    BY <2>1, <2>2 DEF IndexInv, IndexHeld, OverlayInv, OverlayHeld
  <2>4. \A z : Least(z, th[t].scan) => z = y
    BY <2>1, <2>2, LeastUnique
  <2>5. \A x \in Visible \ {y} : link_overlay[x] = memory_kv[x].links
    BY <2>1, <2>4 DEF OverlayInv, RowsAgree, Lagging
  <2> QED BY <2>1, <2>2, <2>3, <2>5, PutAgrees
<1>2. OverlayHeld(th[t])'
  BY DeleteCascadePutEffect
  DEF OverlayInv, OverlayHeld, Visible, Present, disk, ram, hist, Idle
<1> QED BY <1>1, <1>2 DEF OverlayInv

\* The postings have no links.
LEMMA DeleteUnindexOverlay ==
  ASSUME IndInv, NEW t \in Threads, IndexInv(t), OverlayInv(t), DeleteUnindex(t)
  PROVE  OverlayInv(t)'
<1>1. RowsAgree(th[t])'
  BY DeleteUnindexEffect
  DEF OverlayInv, RowsAgree, Lagging, Visible, Present, disk, ram, hist, Idle
<1>2. OverlayHeld(th[t])'
  BY DeleteUnindexEffect
  DEF OverlayInv, OverlayHeld, Visible, Present, disk, ram, hist, Idle
<1> QED BY <1>1, <1>2 DEF OverlayInv

\* The context links are not edges.
LEMMA DeleteUnlinkOverlay ==
  ASSUME IndInv, NEW t \in Threads, IndexInv(t), OverlayInv(t), DeleteUnlink(t)
  PROVE  OverlayInv(t)'
<1>1. RowsAgree(th[t])'
  BY DeleteUnlinkEffect
  DEF OverlayInv, RowsAgree, Lagging, Visible, Present, disk, ram, hist, Idle
<1>2. OverlayHeld(th[t])'
  BY DeleteUnlinkEffect
  DEF OverlayInv, OverlayHeld, Visible, Present, disk, ram, hist, Idle
<1> QED BY <1>1, <1>2 DEF OverlayInv

\* The trace is no edge.
LEMMA RetrieveStartOverlay ==
  ASSUME IndInv, NEW t \in Threads, IndexInv(t), OverlayInv(t), RetrieveStart(t)
  PROVE  OverlayInv(t)'
<1>1. RowsAgree(th[t])'
  BY RetrieveStartEffect
  DEF OverlayInv, RowsAgree, Lagging, Visible, Present, disk, ram, hist, Idle
<1>2. OverlayHeld(th[t])'
  BY RetrieveStartEffect
  DEF OverlayInv, OverlayHeld, Visible, Present, disk, ram, hist, Idle
<1> QED BY <1>1, <1>2 DEF OverlayInv

\* The touched unit keeps its links.
LEMMA RetrieveTouchOverlay ==
  ASSUME IndInv, NEW t \in Threads, IndexInv(t), OverlayInv(t), RetrieveTouch(t)
  PROVE  OverlayInv(t)'
<1>1. RowsAgree(th[t])'
  BY RetrieveTouchEffect
  DEF OverlayInv, RowsAgree, Lagging, Visible, Present, disk, ram, hist, Idle
<1>2. OverlayHeld(th[t])'
  <2>1. \A x \in Visible : link_overlay[x] = memory_kv[x].links
    BY RetrieveTouchEffect, NoneLags
  <2>2. th[t].todo \subseteq Ids /\ UNCHANGED link_overlay
    BY RetrieveTouchEffect, Locals DEF disk
  <2>3. \A x \in th[t].todo : Present(x) => memory_kv[x].links = link_overlay[x]
    BY <2>1, <2>2 DEF Visible
  <2>4. \/ th'[t] = Idle \/ th'[t].pc = "touch"
        \/ \E x \in th[t].todo : /\ Present(x) /\ th'[t].pc = "touch_put"
                                 /\ th'[t].cur = x /\ th'[t].buf = memory_kv[x]
    BY RetrieveTouchEffect
  <2> QED BY <2>2, <2>3, <2>4 DEF OverlayHeld, Idle
<1> QED BY <1>1, <1>2 DEF OverlayInv

\* It is put back with them.
LEMMA RetrieveTouchPutOverlay ==
  ASSUME IndInv, NEW t \in Threads, IndexInv(t), OverlayInv(t), RetrieveTouchPut(t)
  PROVE  OverlayInv(t)'
<1>1. RowsAgree(th[t])'
  <2>1. /\ th[t].cur \in Ids /\ th[t].buf # None /\ Present(th[t].cur)
        /\ link_overlay[th[t].cur] = th[t].buf.links
    BY RetrieveTouchPutEffect, Locals DEF IndexInv, IndexHeld, OverlayInv, OverlayHeld
  <2>2. \A y \in Visible \ {th[t].cur} : link_overlay[y] = memory_kv[y].links
    BY RetrieveTouchPutEffect DEF OverlayInv, RowsAgree, Lagging
  <2> QED BY <2>1, <2>2, PutAgrees, RetrieveTouchPutEffect
<1>2. OverlayHeld(th[t])'
  BY RetrieveTouchPutEffect
  DEF OverlayInv, OverlayHeld, Visible, Present, disk, ram, hist, Idle
<1> QED BY <1>1, <1>2 DEF OverlayInv

\* The audit row is no edge.
LEMMA FeedbackStartOverlay ==
  ASSUME IndInv, NEW t \in Threads, IndexInv(t), OverlayInv(t), FeedbackStart(t)
  PROVE  OverlayInv(t)'
<1>1. RowsAgree(th[t])'
  BY FeedbackStartEffect
  DEF OverlayInv, RowsAgree, Lagging, Visible, Present, disk, ram, hist, Idle
<1>2. OverlayHeld(th[t])'
  BY FeedbackStartEffect
  DEF OverlayInv, OverlayHeld, Visible, Present, disk, ram, hist, Idle
<1> QED BY <1>1, <1>2 DEF OverlayInv

\* The adjusted unit keeps its links.
LEMMA FeedbackUsageOverlay ==
  ASSUME IndInv, NEW t \in Threads, IndexInv(t), OverlayInv(t), FeedbackUsage(t)
  PROVE  OverlayInv(t)'
<1>1. RowsAgree(th[t])'
  BY FeedbackUsageEffect
  DEF OverlayInv, RowsAgree, Lagging, Visible, Present, disk, ram, hist, Idle
<1>2. OverlayHeld(th[t])'
  <2>1. \A x \in Visible : link_overlay[x] = memory_kv[x].links
    BY FeedbackUsageEffect, NoneLags
  <2>2. th[t].todo \subseteq Ids /\ UNCHANGED link_overlay
    BY FeedbackUsageEffect, Locals DEF disk
  <2>3. \A x \in th[t].todo :
          Present(x) => Adjust(memory_kv[x], th[t].pos).links = link_overlay[x]
    BY <2>1, <2>2, AdjustLinks, Tables DEF Visible, Present
  <2>4. \/ th'[t] = Idle \/ th'[t].pc \in {"usage", "bind"}
        \/ \E x \in th[t].todo : /\ Present(x) /\ th'[t].pc = "usage_put" /\ th'[t].cur = x
                                 /\ th'[t].buf = Adjust(memory_kv[x], th[t].pos)
    BY FeedbackUsageEffect
  <2> QED BY <2>2, <2>3, <2>4 DEF OverlayHeld, Idle
<1> QED BY <1>1, <1>2 DEF OverlayInv

\* It is put back with them.
LEMMA FeedbackUsagePutOverlay ==
  ASSUME IndInv, NEW t \in Threads, IndexInv(t), OverlayInv(t), FeedbackUsagePut(t)
  PROVE  OverlayInv(t)'
<1>1. RowsAgree(th[t])'
  <2>1. /\ th[t].cur \in Ids /\ th[t].buf # None /\ Present(th[t].cur)
        /\ link_overlay[th[t].cur] = th[t].buf.links
    BY FeedbackUsagePutEffect, Locals DEF IndexInv, IndexHeld, OverlayInv, OverlayHeld
  <2>2. \A y \in Visible \ {th[t].cur} : link_overlay[y] = memory_kv[y].links
    BY FeedbackUsagePutEffect DEF OverlayInv, RowsAgree, Lagging
  <2> QED BY <2>1, <2>2, PutAgrees, FeedbackUsagePutEffect
<1>2. OverlayHeld(th[t])'
  BY FeedbackUsagePutEffect
  DEF OverlayInv, OverlayHeld, Visible, Present, disk, ram, hist, Idle
<1> QED BY <1>1, <1>2 DEF OverlayInv

\* The context links are not edges.
LEMMA FeedbackBindOverlay ==
  ASSUME IndInv, NEW t \in Threads, IndexInv(t), OverlayInv(t), FeedbackBind(t)
  PROVE  OverlayInv(t)'
<1>1. RowsAgree(th[t])'
  BY FeedbackBindEffect
  DEF OverlayInv, RowsAgree, Lagging, Visible, Present, disk, ram, hist, Idle
<1>2. OverlayHeld(th[t])'
  BY FeedbackBindEffect
  DEF OverlayInv, OverlayHeld, Visible, Present, disk, ram, hist, Idle
<1> QED BY <1>1, <1>2 DEF OverlayInv

\* Feedback strengthens the links of the row as they stand in the unit.
LEMMA FeedbackEdgeGetOverlay ==
  ASSUME IndInv, NEW t \in Threads, IndexInv(t), OverlayInv(t), FeedbackEdgeGet(t)
  PROVE  OverlayInv(t)'
<1>1. RowsAgree(th[t])'
  BY FeedbackEdgeGetEffect, ZenonT(40)
  DEF OverlayInv, RowsAgree, Lagging, Visible, Present, disk, ram, hist, Idle
<1>2. OverlayHeld(th[t])'
  <2>1. /\ \A x \in Visible : link_overlay[x] = memory_kv[x].links
        /\ th[t].path[1] \in Ids /\ UNCHANGED <<memory_kv, link_overlay, th[t].path>>
    BY FeedbackEdgeGetEffect, NoneLags, Locals DEF disk
  <2>2. Present(th[t].path[1]) => memory_kv[th[t].path[1]] \in Unit
                                  /\ link_overlay[th[t].path[1]] = memory_kv[th[t].path[1]].links
    BY <2>1, Tables DEF Visible, Present
  <2>3. CASE PointsAt(memory_kv[th[t].path[1]], th[t].path[2])
    <3>1. /\ th'[t].pc = "edge_put"
          /\ th'[t].buf = [memory_kv[th[t].path[1]] EXCEPT !.links = Raise(@, th[t].path[2])]
      BY <2>3, FeedbackEdgeGetEffect
    <3>2. /\ th[t].path[2] \in Targets(link_overlay[th[t].path[1]])
          /\ th'[t].buf.links = Raise(link_overlay[th[t].path[1]], th[t].path[2])
      BY <2>2, <2>3, <3>1 DEF PointsAt, Present, Unit
    <3> QED BY <2>1, <3>1, <3>2 DEF OverlayHeld
  <2>4. CASE ~ PointsAt(memory_kv[th[t].path[1]], th[t].path[2])
    <3>1. th'[t].pc = "row_get"
      BY <2>4, FeedbackEdgeGetEffect
    <3>2. Present(th[t].path[1]) =>
            th[t].path[2] \notin Targets(link_overlay[th[t].path[1]])
      BY <2>2, <2>4 DEF PointsAt, Present
    <3> QED BY <2>1, <2>2, <3>1, <3>2 DEF OverlayHeld, RaisedRow, Present
  <2> QED BY <2>3, <2>4
<1> QED BY <1>1, <1>2 DEF OverlayInv

\* The unit runs ahead of its row, by one level of the edges to the answer.
LEMMA FeedbackEdgePutOverlay ==
  ASSUME IndInv, NEW t \in Threads, IndexInv(t), OverlayInv(t), FeedbackEdgePut(t)
  PROVE  OverlayInv(t)'
<1>1. /\ th[t].pc = "edge_put" /\ th'[t].pc = "row_get"
      /\ th[t].path[1] \in Ids /\ th[t].buf # None /\ Present(th[t].path[1])
      /\ memory_kv' = [memory_kv EXCEPT ![th[t].path[1]] = th[t].buf]
      /\ UNCHANGED <<link_overlay, th[t].path>>
  BY FeedbackEdgePutEffect, Locals DEF IndexInv, IndexHeld
<1>2. /\ Visible' = Visible /\ memory_kv'[th[t].path[1]] = th[t].buf
      /\ \A x \in Ids \ {th[t].path[1]} : memory_kv'[x] = memory_kv[x]
  BY <1>1, PutVisible
<1>3. RowsAgree(th[t])'
  BY <1>1, <1>2, NoneLags DEF RowsAgree, Lagging, Visible
<1>4. OverlayHeld(th[t])'
  BY <1>1, <1>2 DEF OverlayInv, OverlayHeld, RaisedRow
<1> QED BY <1>3, <1>4 DEF OverlayInv

\* The row to put is the row strengthened in the same way.
LEMMA FeedbackRowGetOverlay ==
  ASSUME IndInv, NEW t \in Threads, IndexInv(t), OverlayInv(t), FeedbackRowGet(t)
  PROVE  OverlayInv(t)'
<1>1. /\ th[t].pc = "row_get" /\ th[t].path[1] \in Ids
      /\ UNCHANGED <<memory_kv, link_overlay, Visible>>
  BY FeedbackRowGetEffect, Locals DEF disk, Visible, Present
<1>2. /\ \A x \in Visible \ {th[t].path[1]} : link_overlay[x] = memory_kv[x].links
      /\ Present(th[t].path[1]) => memory_kv[th[t].path[1]].links =
            RaisedRow(link_overlay[th[t].path[1]], th[t].path[2])
  BY <1>1 DEF OverlayInv, RowsAgree, OverlayHeld, Lagging
<1>3. CASE /\ th[t].path[2] \in Targets(link_overlay[th[t].path[1]])
           /\ th'[t].pc = "row_put" /\ UNCHANGED <<th[t].path>>
           /\ th'[t].row = Raise(link_overlay[th[t].path[1]], th[t].path[2])
  BY <1>1, <1>2, <1>3
  DEF OverlayInv, RowsAgree, OverlayHeld, RaisedRow, Lagging, Present
<1>4. CASE /\ ~ (link_overlay[th[t].path[1]] # None
                 /\ th[t].path[2] \in Targets(link_overlay[th[t].path[1]]))
           /\ th'[t] = Idle
  <2>1. Present(th[t].path[1]) => link_overlay[th[t].path[1]] # None
    BY <1>1 DEF IndexInv, VisibleIsIndexed, Visible
  <2>2. \A x \in Visible : link_overlay[x] = memory_kv[x].links
    BY <1>2, <1>4, <2>1 DEF RaisedRow, Visible
  <2> QED BY <1>1, <1>4, <2>2 DEF OverlayInv, RowsAgree, OverlayHeld, Idle
<1> QED BY <1>3, <1>4, FeedbackRowGetEffect

\* Then the row has caught up.
LEMMA FeedbackRowPutOverlay ==
  ASSUME IndInv, NEW t \in Threads, IndexInv(t), OverlayInv(t), FeedbackRowPut(t)
  PROVE  OverlayInv(t)'
<1>1. RowsAgree(th[t])'
  <2>1. th[t].pc = "row_put" /\ th[t].path[1] \in Ids
    BY FeedbackRowPutEffect, Locals
  <2>2. /\ Present(th[t].path[1]) => memory_kv[th[t].path[1]].links = th[t].row
        /\ \A x \in Visible \ {th[t].path[1]} : link_overlay[x] = memory_kv[x].links
    BY <2>1 DEF OverlayInv, OverlayHeld, RowsAgree, Lagging
  <2> QED BY <2>1, <2>2, RowAgrees, FeedbackRowPutEffect
<1>2. OverlayHeld(th[t])'
  BY FeedbackRowPutEffect
  DEF OverlayInv, OverlayHeld, Visible, Present, disk, ram, hist, Idle
<1> QED BY <1>1, <1>2 DEF OverlayInv

\* The snapshot is taken when the rows agree.
LEMMA ConsolidateStartOverlay ==
  ASSUME IndInv, NEW t \in Threads, IndexInv(t), OverlayInv(t), ConsolidateStart(t)
  PROVE  OverlayInv(t)'
<1>1. RowsAgree(th[t])'
  BY ConsolidateStartEffect
  DEF OverlayInv, RowsAgree, Lagging, Visible, Present, disk, ram, hist, Idle
<1>2. OverlayHeld(th[t])'
  BY ConsolidateStartEffect
  DEF OverlayInv, OverlayHeld, FreshSnapshot, Visible, Present, disk, ram, hist, Idle
<1> QED BY <1>1, <1>2 DEF OverlayInv

\* The cycle works on copies.
LEMMA ConsolidateCycleOverlay ==
  ASSUME IndInv, NEW t \in Threads, IndexInv(t), OverlayInv(t), ConsolidateCycle(t)
  PROVE  OverlayInv(t)'
<1>1. RowsAgree(th[t])'
  BY ConsolidateCycleEffect
  DEF OverlayInv, RowsAgree, Lagging, Visible, Present, disk, ram, hist, Idle
<1>2. OverlayHeld(th[t])'
  BY ConsolidateCycleEffect
  DEF OverlayInv, OverlayHeld, Visible, Present, disk, ram, hist, Idle
<1> QED BY <1>1, <1>2 DEF OverlayInv

\* So does one that compresses a cluster.
LEMMA ConsolidateCompressOverlay ==
  ASSUME IndInv, NEW t \in Threads, IndexInv(t), OverlayInv(t), ConsolidateCompress(t)
  PROVE  OverlayInv(t)'
<1>1. RowsAgree(th[t])'
  BY ConsolidateCompressEffect
  DEF OverlayInv, RowsAgree, Lagging, Visible, Present, disk, ram, hist, Idle
<1>2. OverlayHeld(th[t])'
  BY ConsolidateCompressEffect
  DEF OverlayInv, OverlayHeld, Visible, Present, disk, ram, hist, Idle
<1> QED BY <1>1, <1>2 DEF OverlayInv

\* The unit runs ahead of its row, by the copy.
LEMMA FlushKvOverlay ==
  ASSUME IndInv, NEW t \in Threads, IndexInv(t), OverlayInv(t), FlushKv(t)
  PROVE  OverlayInv(t)'
<1>1. /\ th[t].pc = "flush_kv" /\ th[t].todo \subseteq Ids /\ UNCHANGED link_overlay
      /\ \A x \in th[t].todo : th[t].snap[x] # None
      /\ \A x \in Visible : link_overlay[x] = memory_kv[x].links
  BY FlushKvEffect, Locals, NoneLags, EngineAssumption
<1>2. CASE UNCHANGED memory_kv /\ (th'[t] = Idle \/ th'[t].pc = "summary")
  BY <1>1, <1>2 DEF OverlayInv, RowsAgree, OverlayHeld, Visible, Present, Idle
<1>3. ASSUME NEW x \in th[t].todo, Least(x, th[t].todo), th'[t].pc = "flush_row",
             memory_kv' = [memory_kv EXCEPT ![x] = th[t].snap[x]],
             UNCHANGED <<th[t].todo, th[t].snap>>
      PROVE  OverlayInv(t)'
  <2>1. Present(x) /\ x \in Ids /\ th[t].snap[x] # None
    BY <1>1 DEF IndexInv, IndexHeld
  <2>2. /\ Visible' = Visible /\ memory_kv'[x] = th[t].snap[x]
        /\ \A y \in Ids \ {x} : memory_kv'[y] = memory_kv[y]
    BY <1>3, <2>1, PutVisible
  <2>3. RowsAgree(th[t])'
    BY <1>1, <1>3, <2>2 DEF RowsAgree, Lagging, Visible
  <2>4. \A z : Least(z, th[t].todo) => z = x
    BY <1>1, <1>3, LeastUnique
  <2>5. OverlayHeld(th[t])'
    BY <1>3, <2>2, <2>4 DEF OverlayHeld
  <2> QED BY <2>3, <2>5 DEF OverlayInv
<1> QED BY <1>2, <1>3, FlushKvEffect

\* Then the row is the copy's.
LEMMA FlushRowOverlay ==
  ASSUME IndInv, NEW t \in Threads, IndexInv(t), OverlayInv(t), FlushRow(t)
  PROVE  OverlayInv(t)'
<1>1. RowsAgree(th[t])'
  <2>1. th[t].pc = "flush_row" /\ th[t].todo \subseteq Ids /\ UNCHANGED memory_kv
    BY FlushRowEffect, Locals
  <2>2. PICK x \in th[t].todo :
          /\ Least(x, th[t].todo)
          /\ link_overlay' = [link_overlay EXCEPT ![x] = th[t].snap[x].links]
    BY FlushRowEffect
  <2>3. memory_kv[x] = th[t].snap[x]
    BY <2>1, <2>2 DEF OverlayInv, OverlayHeld
  <2>4. \A z : Least(z, th[t].todo) => z = x
    BY <2>1, <2>2, LeastUnique
  <2>5. \A y \in Visible \ {x} : link_overlay[y] = memory_kv[y].links
    BY <2>1, <2>4 DEF OverlayInv, RowsAgree, Lagging
  <2> QED BY <2>1, <2>2, <2>3, <2>5, RowAgrees
<1>2. OverlayHeld(th[t])'
  BY FlushRowEffect DEF OverlayInv, OverlayHeld, Visible, Present, disk, ram, hist, Idle
<1> QED BY <1>1, <1>2 DEF OverlayInv

\* The summary has no row yet.
LEMMA SummaryWriteOverlay ==
  ASSUME IndInv, NEW t \in Threads, IndexInv(t), OverlayInv(t), SummaryWrite(t)
  PROVE  OverlayInv(t)'
<1>1. RowsAgree(th[t])'
  BY SummaryWriteEffect
  DEF OverlayInv, RowsAgree, Lagging, Visible, Present, disk, ram, hist, Idle
<1>2. OverlayHeld(th[t])'
  BY SummaryWriteEffect
  DEF OverlayInv, OverlayHeld, Visible, Present, disk, ram, hist, Idle
<1> QED BY <1>1, <1>2 DEF OverlayInv

\* The summary's row is emptied ahead of its unit.
LEMMA SealRowOverlay ==
  ASSUME IndInv, NEW t \in Threads, IndexInv(t), OverlayInv(t), SealRow(t)
  PROVE  OverlayInv(t)'
<1>1. /\ th[t].pc = "seal_row" /\ th'[t].pc = "seal_get" /\ th[t].cur \in Ids
      /\ \A x \in Visible : link_overlay[x] = memory_kv[x].links
      /\ UNCHANGED <<memory_kv, th[t].cur>>
  BY SealRowEffect, Locals, NoneLags
<1>2. /\ link_overlay'[th[t].cur] = {}
      /\ \A x \in Ids \ {th[t].cur} : link_overlay'[x] = link_overlay[x]
  BY <1>1, SealRowEffect, Tables
<1>3. RowsAgree(th[t])'
  BY <1>1, <1>2 DEF RowsAgree, Lagging, Visible, Present
<1>4. OverlayHeld(th[t])'
  BY <1>1, <1>2 DEF OverlayHeld
<1> QED BY <1>3, <1>4 DEF OverlayInv

\* The unit to put has no links either.
LEMMA SealGetOverlay ==
  ASSUME IndInv, NEW t \in Threads, IndexInv(t), OverlayInv(t), SealGet(t)
  PROVE  OverlayInv(t)'
<1>1. /\ th[t].pc = "seal_get" /\ th[t].cur \in Ids /\ link_overlay[th[t].cur] = {}
      /\ UNCHANGED <<memory_kv, link_overlay>>
      /\ \A x \in Visible \ {th[t].cur} : link_overlay[x] = memory_kv[x].links
  <2>1. th[t].pc = "seal_get" /\ th[t].cur \in Ids /\ UNCHANGED <<memory_kv, link_overlay>>
    BY SealGetEffect, Locals DEF disk
  <2> QED BY <2>1 DEF OverlayInv, OverlayHeld, RowsAgree, Lagging
<1>2. \/ th'[t] = Idle /\ ~ Present(th[t].cur)
      \/ th'[t].pc = "seal_put" /\ th'[t].buf.links = {} /\ UNCHANGED <<th[t].cur>>
  <2>1. CASE Present(th[t].cur)
    <3>1. memory_kv[th[t].cur] \in Unit
      BY <1>1, <2>1, Tables DEF Present
    <3>2. /\ th'[t].pc = "seal_put" /\ UNCHANGED <<th[t].cur>>
          /\ th'[t].buf = [memory_kv[th[t].cur] EXCEPT !.links = {}, !.gen = "cons"]
      BY <2>1, SealGetEffect
    <3>3. [memory_kv[th[t].cur] EXCEPT !.links = {}, !.gen = "cons"].links = {}
      BY <3>1 DEF Unit
    <3> QED BY <3>2, <3>3
  <2>2. CASE ~ Present(th[t].cur)
    BY <2>2, SealGetEffect
  <2> QED BY <2>1, <2>2
<1>3. RowsAgree(th[t])'
  BY <1>1, <1>2 DEF RowsAgree, Lagging, Visible, Present
<1>4. OverlayHeld(th[t])'
  <2>1. CASE th'[t] = Idle
    BY <2>1 DEF OverlayHeld, Idle
  <2>2. CASE th'[t].pc = "seal_put" /\ th'[t].buf.links = {} /\ UNCHANGED <<th[t].cur>>
    <3>1. link_overlay'[th'[t].cur] = {}
      BY <1>1, <2>2
    <3> QED BY <2>2, <3>1 DEF OverlayHeld
  <2> QED BY <1>2, <2>1, <2>2
<1> QED BY <1>3, <1>4 DEF OverlayInv

\* Then the unit has caught up.
LEMMA SealPutOverlay ==
  ASSUME IndInv, NEW t \in Threads, IndexInv(t), OverlayInv(t), SealPut(t)
  PROVE  OverlayInv(t)'
<1>1. RowsAgree(th[t])'
  <2>1. /\ th[t].cur \in Ids /\ th[t].buf # None /\ Present(th[t].cur)
        /\ link_overlay[th[t].cur] = th[t].buf.links
    BY SealPutEffect, Locals DEF IndexInv, IndexHeld, OverlayInv, OverlayHeld
  <2>2. \A y \in Visible \ {th[t].cur} : link_overlay[y] = memory_kv[y].links
    BY SealPutEffect DEF OverlayInv, RowsAgree, Lagging
  <2> QED BY <2>1, <2>2, PutAgrees, SealPutEffect
<1>2. OverlayHeld(th[t])'
  BY SealPutEffect DEF OverlayInv, OverlayHeld, Visible, Present, disk, ram, hist, Idle
<1> QED BY <1>1, <1>2 DEF OverlayInv

\* A reindex lists the log.
LEMMA ReindexStartOverlay ==
  ASSUME IndInv, NEW t \in Threads, IndexInv(t), OverlayInv(t), ReindexStart(t)
  PROVE  OverlayInv(t)'
<1>1. RowsAgree(th[t])'
  BY ReindexStartEffect
  DEF OverlayInv, RowsAgree, Lagging, Visible, Present, disk, ram, hist, Idle
<1>2. OverlayHeld(th[t])'
  BY ReindexStartEffect
  DEF OverlayInv, OverlayHeld, Visible, Present, disk, ram, hist, Idle
<1> QED BY <1>1, <1>2 DEF OverlayInv

\* Units and rows are cleared together.
LEMMA ReindexClearOverlay ==
  ASSUME IndInv, NEW t \in Threads, IndexInv(t), OverlayInv(t), ReindexClear(t)
  PROVE  OverlayInv(t)'
<1>1. RowsAgree(th[t])'
  BY ReindexClearEffect
  DEF OverlayInv, RowsAgree, Lagging, Visible, Present, disk, ram, hist, Idle
<1>2. OverlayHeld(th[t])'
  BY ReindexClearEffect
  DEF OverlayInv, OverlayHeld, Visible, Present, disk, ram, hist, Idle
<1> QED BY <1>1, <1>2 DEF OverlayInv

\* The documents have no links.
LEMMA ReindexFulltextOverlay ==
  ASSUME IndInv, NEW t \in Threads, IndexInv(t), OverlayInv(t), ReindexFulltext(t)
  PROVE  OverlayInv(t)'
<1>1. RowsAgree(th[t])'
  BY ReindexFulltextEffect
  DEF OverlayInv, RowsAgree, Lagging, Visible, Present, disk, ram, hist, Idle
<1>2. OverlayHeld(th[t])'
  BY ReindexFulltextEffect
  DEF OverlayInv, OverlayHeld, Visible, Present, disk, ram, hist, Idle
<1> QED BY <1>1, <1>2 DEF OverlayInv

\* Nor have the in-memory indexes.
LEMMA ReindexRamOverlay ==
  ASSUME IndInv, NEW t \in Threads, IndexInv(t), OverlayInv(t), ReindexRam(t)
  PROVE  OverlayInv(t)'
<1>1. RowsAgree(th[t])'
  BY ReindexRamEffect
  DEF OverlayInv, RowsAgree, Lagging, Visible, Present, disk, ram, hist, Idle
<1>2. OverlayHeld(th[t])'
  BY ReindexRamEffect
  DEF OverlayInv, OverlayHeld, Visible, Present, disk, ram, hist, Idle
<1> QED BY <1>1, <1>2 DEF OverlayInv

\* The next record has no row yet.
LEMMA ReindexNextOverlay ==
  ASSUME IndInv, NEW t \in Threads, IndexInv(t), OverlayInv(t), ReindexNext(t)
  PROVE  OverlayInv(t)'
<1>1. RowsAgree(th[t])'
  BY ReindexNextEffect
  DEF OverlayInv, RowsAgree, Lagging, Visible, Present, disk, ram, hist, Idle
<1>2. OverlayHeld(th[t])'
  BY ReindexNextEffect
  DEF OverlayInv, OverlayHeld, Visible, Present, disk, ram, hist, Idle
<1> QED BY <1>1, <1>2 DEF OverlayInv

-----------------------------------------------------------------------------
(***************************************************************************)
(* What units name has a raw record.                                       *)
(***************************************************************************)
\* The ids a unit may name: the logged ones, and the summary being written.
Known(r) ==
    IF r.op = "consolidate"
       /\ r.pc \in {"flush_kv", "flush_row", "summary", "discover", "link", "persist"}
    THEN memory_log \cup ({r.cur} \cap Ids) ELSE memory_log

\* A unit is compressed only into an id of S, and links only to ids of S or to
\* what positive feedback named.
Sound(u, S) == (u.into # None => u.into \in S) /\ Targets(u.links) \subseteq S \cup Hot

\* The invariant of the evidence chain: the units of the table and the copies of
\* a thread name what is known.
SummaryInv(t) ==
    /\ \A x \in Ids : memory_kv[x] # None => Sound(memory_kv[x], Known(th[t]))
    /\ \A x \in Ids : th[t].snap[x] # None => Sound(th[t].snap[x], Known(th[t]))
    /\ th[t].buf # None => Sound(th[t].buf, Known(th[t]))

\* A reindex holds no units when it clears the tables.
Blank(t) == th[t].pc = "clear" =>
                th[t].buf = None /\ \A x \in Ids : th[t].snap[x] = None

\* Strengthening an edge leads nowhere new.
LEMMA RaiseTargets ==
  ASSUME NEW l \in SUBSET Edge, NEW x
  PROVE  Targets(Raise(l, x)) = Targets(l)
<1>1. \A e \in l : (IF e.to = x /\ e.lvl < MaxLevel THEN [e EXCEPT !.lvl = @ + 1] ELSE e).to = e.to
  BY DEF Edge
<1> QED BY <1>1 DEF Raise, Targets

\* New edges lead where they are drawn to.
LEMMA FreshTargets ==
  ASSUME NEW Y
  PROVE  Targets({[to |-> y, lvl |-> 1] : y \in Y}) = Y
<1>1. \A y : [to |-> y, lvl |-> 1].to = y
  OBVIOUS
<1>2. PICK L : L = {[to |-> y, lvl |-> 1] : y \in Y}
  OBVIOUS
<1>3. \A e \in L : e.to \in Y
  BY <1>1, <1>2
<1>4. \A y \in Y : \E e \in L : e.to = y
  BY <1>1, <1>2
<1> QED BY <1>2, <1>3, <1>4 DEF Targets

\* A cycle builds edges between memories that positive feedback named.
LEMMA BuiltFromLog ==
  ASSUME NEW c \in CycleInputs
  PROVE  c.built \subseteq CoPairs
<1>1. \A A : \A d \in ReadLog(A) : d.built \subseteq CoPairs
  BY DEF ReadLog
<1>2. Unread.built \subseteq CoPairs
  BY DEF Unread
<1>3. c = Unread \/ \E A : c \in ReadLog(A)
  <2>1. CASE c \in {d \in {Unread} : Swallows}
    BY <2>1
  <2>2. CASE c \in UNION {ReadLog(A) : A \in SUBSET Hot}
    BY <2>2, Zenon
  <2> QED BY <2>1, <2>2 DEF CycleInputs
<1> QED BY <1>1, <1>2, <1>3

\* What a cycle makes of the links of a unit leads where they led, or to a
\* co-activated memory.
LEMMA RunCycleTargets ==
  ASSUME NEW x \in Ids, NEW l \in SUBSET Edge, NEW c \in CycleInputs, NEW age
  PROVE  Targets(RunCycle(x, l, c, age)) \subseteq Targets(l) \cup Hot
<1>1. \A e \in Edge : Reinforce(e, c) \in [to : Ids, lvl : Int] /\ Reinforce(e, c).to = e.to
  BY EngineAssumption DEF Reinforce, Edge
<1>2. \A e \in [to : Ids, lvl : Int] : Weaken(x, e, c).to = e.to
  BY DEF Weaken
<1>3. \A e \in l : Weaken(x, Reinforce(e, c), c).to = e.to
  BY <1>1, <1>2
<1>4. \A e \in l : (IF age > 0 /\ e.lvl > 1 THEN [e EXCEPT !.lvl = @ - 1] ELSE e).to = e.to
  BY DEF Edge
<1>5. Targets({Weaken(x, Reinforce(e, c), c) : e \in {f \in l : Reviewed(x, f, c)}})
        \subseteq Targets(l)
  BY <1>3 DEF Targets
<1>6. Targets(Fade({f \in l : ~ Reviewed(x, f, c)}, age)) \subseteq Targets(l)
  BY <1>4 DEF Targets, Fade
<1>7. Targets(NewEdges(x, c)) \subseteq Hot
  <2>1. \A z : <<x, z>> \in CoPairs => z \in Hot
    BY DEF CoPairs
  <2>2. \A y \in {z \in Ids : <<x, z>> \in c.built} : y \in Hot
    BY <2>1, BuiltFromLog
  <2> QED BY <2>2, FreshTargets DEF NewEdges
<1>8. \A A, B, C : Targets(A \cup B \cup C) = Targets(A) \cup Targets(B) \cup Targets(C)
  BY DEF Targets
<1>9. PICK A, B, C :
        /\ A = {Weaken(x, Reinforce(e, c), c) : e \in {f \in l : Reviewed(x, f, c)}}
        /\ B = Fade({f \in l : ~ Reviewed(x, f, c)}, age)
        /\ C = NewEdges(x, c)
  OBVIOUS
<1>10. RunCycle(x, l, c, age) = A \cup B \cup C
  BY <1>9 DEF RunCycle
<1>11. Targets(A) \cup Targets(B) \cup Targets(C) \subseteq Targets(l) \cup Hot
  BY <1>5, <1>6, <1>7, <1>9
<1> QED BY <1>8, <1>10, <1>11

\* Redirection leads to the summary, or where the links led.
LEMMA RedirectTargets ==
  ASSUME NEW l \in SUBSET Edge, NEW C, NEW s
  PROVE  Targets(Redirect(l, C, s)) \subseteq Targets(l) \cup (IF C = {} THEN {} ELSE {s})
<1>1. \A e \in l : (IF e.to \in C THEN [e EXCEPT !.to = s] ELSE e).to
                     \in {e.to} \cup (IF C = {} THEN {} ELSE {s})
  BY DEF Edge
<1> QED BY <1>1 DEF Redirect, Targets

\* A copy v of unit u names what u names, a co-activated memory or a new id.
Derives(v, u, new) ==
    /\ Targets(v.links) \subseteq Targets(u.links) \cup Hot \cup new
    /\ v.into \in {u.into} \cup new

\* The copies of a cycle name what the loaded units name, a co-activated memory
\* or the summary.
LEMMA CycleTargets ==
  ASSUME NEW units \in Table, NEW c \in CycleInputs, NEW age \in 0..2,
         NEW C \in SUBSET Ids, NEW s, NEW x \in Ids, units[x] # None
  PROVE  Derives(AfterCycle(units, c, age, C, s)[x], units[x],
                 IF C = {} THEN {} ELSE {s})
<1>1. units[x] \in Unit
  BY DEF Table
<1>2. PICK l : l = RunCycle(x, units[x].links, c, age)
  OBVIOUS
<1>3. l \in SUBSET Edge
  BY <1>1, <1>2, RunCycleType DEF Unit
<1>4. Targets(l) \subseteq Targets(units[x].links) \cup Hot
  BY <1>1, <1>2, RunCycleTargets DEF Unit
<1>5. PICK m : m = Redirect(l, C, s)
  OBVIOUS
<1>6. Targets(m) \subseteq Targets(l) \cup (IF C = {} THEN {} ELSE {s})
  BY <1>3, <1>5, RedirectTargets
<1>7. AfterCycle(units, c, age, C, s)[x]
        = [units[x] EXCEPT !.links = m, !.into = IF x \in C THEN s ELSE @]
  BY <1>2, <1>5 DEF AfterCycle
<1>8. PICK u, new : /\ u = AfterCycle(units, c, age, C, s)[x]
                    /\ new = IF C = {} THEN {} ELSE {s}
  OBVIOUS
<1>9. u.links = m /\ u.into = IF x \in C THEN s ELSE units[x].into
  BY <1>1, <1>7, <1>8 DEF Unit
<1>10. Derives(u, units[x], new)
  BY <1>4, <1>6, <1>8, <1>9 DEF Derives
<1> QED BY <1>8, <1>10, Zenon

\* What is sound before the step is sound after it, if no id is forgotten.
LEMMA SoundStep ==
  ASSUME NEW t \in Threads, Hot \subseteq Hot', Known(th[t]) \subseteq Known(th[t])',
         \A x \in Ids : memory_kv'[x] # None => Sound(memory_kv'[x], Known(th[t])),
         \A x \in Ids : th'[t].snap[x] # None => Sound(th'[t].snap[x], Known(th[t])),
         th'[t].buf # None => Sound(th'[t].buf, Known(th[t]))
  PROVE  SummaryInv(t)'
BY DEF SummaryInv, Sound

\* A logged id is known.
LEMMA LoggedIsKnown ==
  ASSUME NEW t \in Threads
  PROVE  memory_log \subseteq Known(th[t])
BY DEF Known

\* A put of what the thread holds.
LEMMA PutSound ==
  ASSUME IndInv, NEW t \in Threads, SummaryInv(t), Hot \subseteq Hot',
         Known(th[t]) \subseteq Known(th[t])',
         NEW x \in Ids, NEW u, Sound(u, Known(th[t])),
         memory_kv' = [memory_kv EXCEPT ![x] = u],
         \A y \in Ids : th'[t].snap[y] \in {None, th[t].snap[y]},
         th'[t].buf \in {None, th[t].buf}
  PROVE  SummaryInv(t)'
<1>1. \A y \in Ids : memory_kv'[y] # None => Sound(memory_kv'[y], Known(th[t]))
  BY Tables DEF SummaryInv
<1>2. \A y \in Ids : th'[t].snap[y] # None => Sound(th'[t].snap[y], Known(th[t]))
  BY DEF SummaryInv
<1>3. th'[t].buf # None => Sound(th'[t].buf, Known(th[t]))
  BY DEF SummaryInv
<1> QED BY <1>1, <1>2, <1>3, SoundStep

\* A step that builds a unit to put.
LEMMA HoldSound ==
  ASSUME NEW t \in Threads, SummaryInv(t), Hot \subseteq Hot',
         Known(th[t]) \subseteq Known(th[t])',
         UNCHANGED memory_kv, Sound(th'[t].buf, Known(th[t])),
         UNCHANGED <<th[t].snap>>
  PROVE  SummaryInv(t)'
BY SoundStep DEF SummaryInv

\* A write has named nothing yet.
LEMMA WriteStartSummary ==
  ASSUME IndInv, NEW t \in Threads, IndexInv(t), SummaryInv(t), WriteStart(t)
  PROVE  SummaryInv(t)'
<1>1. Hot \subseteq Hot'
  BY WriteStartEffect DEF Hot, disk
<1>2. Known(th[t]) \subseteq Known(th[t])'
  BY WriteStartEffect DEF Known, disk, Idle
<1> QED
  BY <1>1, <1>2, WriteStartEffect DEF SummaryInv, Sound, disk, Idle

\* Discovery only reads.
LEMMA WriteDiscoverSummary ==
  ASSUME IndInv, NEW t \in Threads, IndexInv(t), SummaryInv(t), WriteDiscover(t)
  PROVE  SummaryInv(t)'
<1>1. Hot \subseteq Hot'
  BY WriteDiscoverEffect DEF Hot, disk
<1>2. Known(th[t]) \subseteq Known(th[t])'
  BY WriteDiscoverEffect DEF Known, disk, Idle
<1> QED
  BY <1>1, <1>2, WriteDiscoverEffect DEF SummaryInv, Sound, disk, Idle

\* A new unit names candidates that are there, hence logged.
LEMMA WriteLinkSummary ==
  ASSUME IndInv, NEW t \in Threads, IndexInv(t), SummaryInv(t), WriteLink(t)
  PROVE  SummaryInv(t)'
<1>1. Hot \subseteq Hot'
  BY WriteLinkEffect DEF Hot, disk
<1>2. Known(th[t]) \subseteq Known(th[t])'
  BY WriteLinkEffect DEF Known, disk, Idle
<1> QED
  <2>1. PICK S \in SUBSET {x \in th[t].scan : Present(x)} :
          th'[t].buf = NewUnit({[to |-> x, lvl |-> 1] : x \in S})
    BY WriteLinkEffect
  <2>2. th[t].scan \subseteq Ids /\ UNCHANGED <<memory_kv, th[t].snap>>
    BY WriteLinkEffect, Locals DEF disk
  <2>3. S \subseteq memory_log
    BY <2>2 DEF IndInv, DataInv, DerivedFromLog, Visible
  <2>4. Targets({[to |-> x, lvl |-> 1] : x \in S}) = S
    BY FreshTargets
  <2>5. Sound(th'[t].buf, Known(th[t]))
    <3>1. PICK L : L = {[to |-> x, lvl |-> 1] : x \in S}
      OBVIOUS
    <3>2. th'[t].buf.links = L /\ th'[t].buf.into = None
      BY <2>1, <3>1 DEF NewUnit
    <3> QED BY <2>3, <2>4, <3>1, <3>2, LoggedIsKnown DEF Sound
  <2> QED BY <1>1, <1>2, <2>2, <2>5, HoldSound

\* The summary whose id the copies name is logged with its unit.
LEMMA WritePersistSummary ==
  ASSUME IndInv, NEW t \in Threads, IndexInv(t), SummaryInv(t), WritePersist(t)
  PROVE  SummaryInv(t)'
<1>1. th[t].cur \in Ids /\ th[t].buf # None /\ th[t].pc = "persist"
  BY WritePersistEffect, Locals
<1>2. CASE /\ th'[t].pc = "fulltext" /\ PersistUnit(t)
           /\ UNCHANGED <<activation_log, traces>>
           /\ UNCHANGED <<th[t].op, th[t].cur, th[t].snap, th[t].buf>>
  <2>1. memory_log \subseteq memory_log'
    BY <1>2 DEF PersistUnit
  <2>2. Hot \subseteq Hot'
    BY <1>2 DEF Hot
  <2>3. Known(th[t]) \subseteq Known(th[t])'
    BY <1>2, <2>1 DEF Known, PersistUnit
  <2>4. Sound(th[t].buf, Known(th[t]))
    BY <1>1 DEF SummaryInv
  <2> QED BY <1>1, <1>2, <2>2, <2>3, <2>4, PutSound DEF PersistUnit
<1>3. CASE th[t].cur \in memory_log /\ th'[t] = Idle /\ UNCHANGED disk
  <2>1. Known(th[t]) \subseteq Known(th[t])'
    BY <1>3 DEF Known, disk, Idle
  <2>2. Hot \subseteq Hot' /\ UNCHANGED memory_kv
    BY <1>3 DEF Hot, disk
  <2>3. th'[t].buf = None /\ \A x \in Ids : th'[t].snap[x] = None
    BY <1>3 DEF Idle
  <2> QED BY <2>1, <2>2, <2>3, SoundStep DEF SummaryInv
<1> QED BY <1>2, <1>3, WritePersistEffect

\* The document names nothing.
LEMMA WriteFulltextSummary ==
  ASSUME IndInv, NEW t \in Threads, IndexInv(t), SummaryInv(t), WriteFulltext(t)
  PROVE  SummaryInv(t)'
<1>1. Hot \subseteq Hot'
  BY WriteFulltextEffect DEF Hot, disk
<1>2. Known(th[t]) \subseteq Known(th[t])'
  BY WriteFulltextEffect DEF Known, disk, Idle
<1> QED
  BY <1>1, <1>2, WriteFulltextEffect DEF SummaryInv, Sound, disk, Idle

\* Nor do the postings.
LEMMA WriteEnrichSummary ==
  ASSUME IndInv, NEW t \in Threads, IndexInv(t), SummaryInv(t), WriteEnrich(t)
  PROVE  SummaryInv(t)'
<1>1. Hot \subseteq Hot'
  BY WriteEnrichEffect DEF Hot, disk
<1>2. Known(th[t]) \subseteq Known(th[t])'
  BY WriteEnrichEffect DEF Known, disk, Idle
<1> QED
  BY <1>1, <1>2, WriteEnrichEffect DEF SummaryInv, Sound, disk, Idle

\* The unit put again is the unit persisted.
LEMMA WriteReputSummary ==
  ASSUME IndInv, NEW t \in Threads, IndexInv(t), SummaryInv(t), WriteReput(t)
  PROVE  SummaryInv(t)'
<1>1. Hot \subseteq Hot'
  BY WriteReputEffect DEF Hot, disk
<1>2. Known(th[t]) \subseteq Known(th[t])'
  BY WriteReputEffect DEF Known, disk, Idle
<1> QED
  <2>1. th[t].buf # None /\ th[t].cur \in Ids
    BY WriteReputEffect, Locals
  <2>2. Sound(th[t].buf, Known(th[t]))
    BY <2>1 DEF SummaryInv
  <2>3. /\ \A y \in Ids : th'[t].snap[y] \in {None, th[t].snap[y]}
        /\ th'[t].buf \in {None, th[t].buf}
    BY WriteReputEffect DEF Idle
  <2> QED BY <1>1, <1>2, <2>1, <2>2, <2>3, PutSound, WriteReputEffect

\* The snapshot is the table.
LEMMA DeleteStartSummary ==
  ASSUME IndInv, NEW t \in Threads, IndexInv(t), SummaryInv(t), DeleteStart(t)
  PROVE  SummaryInv(t)'
<1>1. Hot \subseteq Hot'
  BY DeleteStartEffect DEF Hot, disk
<1>2. Known(th[t]) \subseteq Known(th[t])'
  BY DeleteStartEffect DEF Known, disk, Idle
<1> QED
  BY <1>1, <1>2, DeleteStartEffect DEF SummaryInv, FreshSnapshot, Sound, disk, Idle

\* The lookup only reads.
LEMMA DeleteNextSummary ==
  ASSUME IndInv, NEW t \in Threads, IndexInv(t), SummaryInv(t), DeleteNext(t)
  PROVE  SummaryInv(t)'
<1>1. Hot \subseteq Hot'
  BY DeleteNextEffect DEF Hot, disk
<1>2. Known(th[t]) \subseteq Known(th[t])'
  BY DeleteNextEffect DEF Known, disk, Idle
<1> QED
  BY <1>1, <1>2, DeleteNextEffect DEF SummaryInv, Sound, disk, Idle

\* A unit less.
LEMMA DeleteRemoveSummary ==
  ASSUME IndInv, NEW t \in Threads, IndexInv(t), SummaryInv(t), DeleteRemove(t)
  PROVE  SummaryInv(t)'
<1>1. Hot \subseteq Hot'
  BY DeleteRemoveEffect DEF Hot, disk
<1>2. Known(th[t]) \subseteq Known(th[t])'
  BY DeleteRemoveEffect DEF Known, disk, Idle
<1> QED
  <2>1. th[t].cur \in Ids
    BY DeleteRemoveEffect, Locals
  <2>2. \A x \in Ids : memory_kv'[x] \in {None, memory_kv[x]}
    BY <2>1, DeleteRemoveEffect, Tables
  <2>3. UNCHANGED <<th[t].snap, th[t].buf>>
    BY DeleteRemoveEffect
  <2> QED BY <1>1, <1>2, <2>2, <2>3, SoundStep DEF SummaryInv

\* The rows are not units.
LEMMA DeleteCascadeSummary ==
  ASSUME IndInv, NEW t \in Threads, IndexInv(t), SummaryInv(t), DeleteCascade(t)
  PROVE  SummaryInv(t)'
<1>1. Hot \subseteq Hot'
  BY DeleteCascadeEffect DEF Hot, disk
<1>2. Known(th[t]) \subseteq Known(th[t])'
  BY DeleteCascadeEffect DEF Known, disk, Idle
<1> QED
  BY <1>1, <1>2, DeleteCascadeEffect DEF SummaryInv, Sound, disk, Idle

\* Links are only dropped.
LEMMA DeleteCascadeGetSummary ==
  ASSUME IndInv, NEW t \in Threads, IndexInv(t), SummaryInv(t), DeleteCascadeGet(t)
  PROVE  SummaryInv(t)'
<1>1. Hot \subseteq Hot'
  BY DeleteCascadeGetEffect DEF Hot, disk
<1>2. Known(th[t]) \subseteq Known(th[t])'
  BY DeleteCascadeGetEffect DEF Known, disk, Idle
<1> QED
  <2>1. CASE UNCHANGED <<memory_kv, th[t].snap, th[t].buf>>
    BY <1>1, <1>2, <2>1, SoundStep DEF SummaryInv
  <2>2. ASSUME NEW y \in th[t].scan, Present(y), UNCHANGED <<memory_kv, th[t].snap>>,
               th'[t].buf = [memory_kv[y] EXCEPT !.links = Remaining(t, y)]
        PROVE  SummaryInv(t)'
    <3>1. y \in Ids /\ th[t].snap[y] \in Unit
      BY DeleteCascadeGetEffect, Locals
    <3>2. memory_kv[y] \in Unit
      BY <2>2, <3>1, Tables DEF Present
    <3>3. th'[t].buf.into = memory_kv[y].into /\ th'[t].buf.links = Remaining(t, y)
      BY <2>2, <3>2 DEF Unit
    <3>4. Sound(memory_kv[y], Known(th[t])) /\ Sound(th[t].snap[y], Known(th[t]))
      BY <2>2, <3>1, EngineAssumption DEF SummaryInv, Present
    <3>5. Targets(Remaining(t, y)) \subseteq Targets(th[t].snap[y].links)
      BY DEF Remaining, Targets
    <3>6. Sound(th'[t].buf, Known(th[t]))
      BY <3>3, <3>4, <3>5 DEF Sound
    <3> QED BY <1>1, <1>2, <2>2, <3>6, HoldSound
  <2> QED BY <2>1, <2>2, DeleteCascadeGetEffect DEF disk

\* The unit without them is put.
LEMMA DeleteCascadePutSummary ==
  ASSUME IndInv, NEW t \in Threads, IndexInv(t), SummaryInv(t), DeleteCascadePut(t)
  PROVE  SummaryInv(t)'
<1>1. Hot \subseteq Hot'
  BY DeleteCascadePutEffect DEF Hot, disk
<1>2. Known(th[t]) \subseteq Known(th[t])'
  BY DeleteCascadePutEffect DEF Known, disk, Idle
<1> QED
  <2>1. th[t].buf # None /\ th[t].scan \subseteq Ids
    BY DeleteCascadePutEffect, Locals
  <2>2. Sound(th[t].buf, Known(th[t]))
    BY <2>1 DEF SummaryInv
  <2>3. /\ \A y \in Ids : th'[t].snap[y] \in {None, th[t].snap[y]}
        /\ th'[t].buf \in {None, th[t].buf}
    BY DeleteCascadePutEffect
  <2>4. PICK y \in Ids : memory_kv' = [memory_kv EXCEPT ![y] = th[t].buf]
    BY <2>1, DeleteCascadePutEffect
  <2> QED BY <1>1, <1>2, <2>2, <2>3, <2>4, PutSound

\* The postings name nothing.
LEMMA DeleteUnindexSummary ==
  ASSUME IndInv, NEW t \in Threads, IndexInv(t), SummaryInv(t), DeleteUnindex(t)
  PROVE  SummaryInv(t)'
<1>1. Hot \subseteq Hot'
  BY DeleteUnindexEffect DEF Hot, disk
<1>2. Known(th[t]) \subseteq Known(th[t])'
  BY DeleteUnindexEffect DEF Known, disk, Idle
<1> QED
  BY <1>1, <1>2, DeleteUnindexEffect DEF SummaryInv, Sound, disk, Idle

\* Nor do the context links.
LEMMA DeleteUnlinkSummary ==
  ASSUME IndInv, NEW t \in Threads, IndexInv(t), SummaryInv(t), DeleteUnlink(t)
  PROVE  SummaryInv(t)'
<1>1. Hot \subseteq Hot'
  BY DeleteUnlinkEffect DEF Hot, disk
<1>2. Known(th[t]) \subseteq Known(th[t])'
  BY DeleteUnlinkEffect DEF Known, disk, Idle
<1> QED
  BY <1>1, <1>2, DeleteUnlinkEffect DEF SummaryInv, Sound, disk, Idle

\* A trace is not a unit.
LEMMA RetrieveStartSummary ==
  ASSUME IndInv, NEW t \in Threads, IndexInv(t), SummaryInv(t), RetrieveStart(t)
  PROVE  SummaryInv(t)'
<1>1. Hot \subseteq Hot'
  BY RetrieveStartEffect DEF Hot
<1>2. Known(th[t]) \subseteq Known(th[t])'
  BY RetrieveStartEffect DEF Known, disk, Idle
<1> QED
  BY <1>1, <1>2, RetrieveStartEffect DEF SummaryInv, Sound, disk, Idle

\* The touched unit is the unit.
LEMMA RetrieveTouchSummary ==
  ASSUME IndInv, NEW t \in Threads, IndexInv(t), SummaryInv(t), RetrieveTouch(t)
  PROVE  SummaryInv(t)'
<1>1. Hot \subseteq Hot'
  BY RetrieveTouchEffect DEF Hot, disk
<1>2. Known(th[t]) \subseteq Known(th[t])'
  BY RetrieveTouchEffect DEF Known, disk, Idle
<1> QED
  <2>1. th[t].todo \subseteq Ids /\ UNCHANGED memory_kv
    BY RetrieveTouchEffect, Locals DEF disk
  <2>2. ASSUME NEW x \in th[t].todo, Present(x), th'[t].buf = memory_kv[x],
               UNCHANGED <<th[t].snap>>
        PROVE  SummaryInv(t)'
    BY <1>1, <1>2, <2>1, <2>2, HoldSound DEF SummaryInv, Present
  <2>3. CASE th'[t] = Idle \/ UNCHANGED <<th[t].snap, th[t].buf>>
    BY <1>1, <1>2, <2>1, <2>3, SoundStep DEF SummaryInv, Idle
  <2> QED BY <2>2, <2>3, RetrieveTouchEffect

\* It is put back.
LEMMA RetrieveTouchPutSummary ==
  ASSUME IndInv, NEW t \in Threads, IndexInv(t), SummaryInv(t), RetrieveTouchPut(t)
  PROVE  SummaryInv(t)'
<1>1. Hot \subseteq Hot'
  BY RetrieveTouchPutEffect DEF Hot, disk
<1>2. Known(th[t]) \subseteq Known(th[t])'
  BY RetrieveTouchPutEffect DEF Known, disk, Idle
<1> QED
  <2>1. th[t].buf # None /\ th[t].cur \in Ids
    BY RetrieveTouchPutEffect, Locals
  <2>2. Sound(th[t].buf, Known(th[t]))
    BY <2>1 DEF SummaryInv
  <2>3. /\ \A y \in Ids : th'[t].snap[y] \in {None, th[t].snap[y]}
        /\ th'[t].buf \in {None, th[t].buf}
    BY RetrieveTouchPutEffect DEF Idle
  <2> QED BY <1>1, <1>2, <2>1, <2>2, <2>3, PutSound, RetrieveTouchPutEffect

\* An audit row names memories of a trace.
LEMMA FeedbackStartSummary ==
  ASSUME IndInv, NEW t \in Threads, IndexInv(t), SummaryInv(t), FeedbackStart(t)
  PROVE  SummaryInv(t)'
<1>1. Hot \subseteq Hot'
  BY FeedbackStartEffect DEF Hot, disk
<1>2. Known(th[t]) \subseteq Known(th[t])'
  BY FeedbackStartEffect DEF Known, disk, Idle
<1> QED
  BY <1>1, <1>2, FeedbackStartEffect DEF SummaryInv, Sound, disk, Idle

\* The usage names nothing.
LEMMA FeedbackUsageSummary ==
  ASSUME IndInv, NEW t \in Threads, IndexInv(t), SummaryInv(t), FeedbackUsage(t)
  PROVE  SummaryInv(t)'
<1>1. Hot \subseteq Hot'
  BY FeedbackUsageEffect DEF Hot, disk
<1>2. Known(th[t]) \subseteq Known(th[t])'
  BY FeedbackUsageEffect DEF Known, disk, Idle
<1> QED
  <2>1. th[t].todo \subseteq Ids /\ UNCHANGED memory_kv
    BY FeedbackUsageEffect, Locals DEF disk
  <2>2. ASSUME NEW x \in th[t].todo, Present(x),
               th'[t].buf = Adjust(memory_kv[x], th[t].pos), UNCHANGED <<th[t].snap>>
        PROVE  SummaryInv(t)'
    <3>1. memory_kv[x] \in Unit /\ Sound(memory_kv[x], Known(th[t]))
      BY <2>1, <2>2, Tables DEF Present, SummaryInv
    <3>2. /\ Adjust(memory_kv[x], th[t].pos).links = memory_kv[x].links
          /\ Adjust(memory_kv[x], th[t].pos).into = memory_kv[x].into
      BY <3>1 DEF Adjust, Unit
    <3> QED BY <1>1, <1>2, <2>1, <2>2, <3>1, <3>2, HoldSound DEF Sound
  <2>3. CASE th'[t] = Idle \/ UNCHANGED <<th[t].snap, th[t].buf>>
    BY <1>1, <1>2, <2>1, <2>3, SoundStep DEF SummaryInv, Idle
  <2> QED BY <2>2, <2>3, FeedbackUsageEffect

\* The adjusted unit is put back.
LEMMA FeedbackUsagePutSummary ==
  ASSUME IndInv, NEW t \in Threads, IndexInv(t), SummaryInv(t), FeedbackUsagePut(t)
  PROVE  SummaryInv(t)'
<1>1. Hot \subseteq Hot'
  BY FeedbackUsagePutEffect DEF Hot, disk
<1>2. Known(th[t]) \subseteq Known(th[t])'
  BY FeedbackUsagePutEffect DEF Known, disk, Idle
<1> QED
  <2>1. th[t].buf # None /\ th[t].cur \in Ids
    BY FeedbackUsagePutEffect, Locals
  <2>2. Sound(th[t].buf, Known(th[t]))
    BY <2>1 DEF SummaryInv
  <2>3. /\ \A y \in Ids : th'[t].snap[y] \in {None, th[t].snap[y]}
        /\ th'[t].buf \in {None, th[t].buf}
    BY FeedbackUsagePutEffect DEF Idle
  <2> QED BY <1>1, <1>2, <2>1, <2>2, <2>3, PutSound, FeedbackUsagePutEffect

\* The context links name nothing.
LEMMA FeedbackBindSummary ==
  ASSUME IndInv, NEW t \in Threads, IndexInv(t), SummaryInv(t), FeedbackBind(t)
  PROVE  SummaryInv(t)'
<1>1. Hot \subseteq Hot'
  BY FeedbackBindEffect DEF Hot, disk
<1>2. Known(th[t]) \subseteq Known(th[t])'
  BY FeedbackBindEffect DEF Known, disk, Idle
<1> QED
  BY <1>1, <1>2, FeedbackBindEffect DEF SummaryInv, Sound, disk, Idle

\* A strengthened edge leads where it led.
LEMMA FeedbackEdgeGetSummary ==
  ASSUME IndInv, NEW t \in Threads, IndexInv(t), SummaryInv(t), FeedbackEdgeGet(t)
  PROVE  SummaryInv(t)'
<1>1. Hot \subseteq Hot'
  BY FeedbackEdgeGetEffect DEF Hot, disk
<1>2. Known(th[t]) \subseteq Known(th[t])'
  BY FeedbackEdgeGetEffect DEF Known, disk, Idle
<1> QED
  <2>1. th[t].path[1] \in Ids /\ UNCHANGED <<memory_kv, th[t].snap>>
    BY FeedbackEdgeGetEffect, Locals DEF disk
  <2>2. CASE /\ PointsAt(memory_kv[th[t].path[1]], th[t].path[2])
             /\ th'[t].buf = [memory_kv[th[t].path[1]] EXCEPT !.links = Raise(@, th[t].path[2])]
    <3>1. /\ memory_kv[th[t].path[1]] \in Unit
          /\ Sound(memory_kv[th[t].path[1]], Known(th[t]))
      BY <2>1, <2>2, Tables DEF PointsAt, SummaryInv
    <3>2. PICK l : l = Raise(memory_kv[th[t].path[1]].links, th[t].path[2])
      OBVIOUS
    <3>3. Targets(l) = Targets(memory_kv[th[t].path[1]].links)
      BY <3>1, <3>2, RaiseTargets DEF Unit
    <3>4. th'[t].buf.into = memory_kv[th[t].path[1]].into /\ th'[t].buf.links = l
      BY <2>2, <3>1, <3>2 DEF Unit
    <3> QED BY <1>1, <1>2, <2>1, <3>1, <3>3, <3>4, HoldSound DEF Sound
  <2>3. CASE UNCHANGED <<th[t].buf>>
    BY <1>1, <1>2, <2>1, <2>3, SoundStep DEF SummaryInv
  <2> QED BY <2>2, <2>3, FeedbackEdgeGetEffect

\* The unit is put back.
LEMMA FeedbackEdgePutSummary ==
  ASSUME IndInv, NEW t \in Threads, IndexInv(t), SummaryInv(t), FeedbackEdgePut(t)
  PROVE  SummaryInv(t)'
<1>1. Hot \subseteq Hot'
  BY FeedbackEdgePutEffect DEF Hot, disk
<1>2. Known(th[t]) \subseteq Known(th[t])'
  BY FeedbackEdgePutEffect DEF Known, disk, Idle
<1> QED
  <2>1. th[t].buf # None /\ th[t].path[1] \in Ids
    BY FeedbackEdgePutEffect, Locals
  <2>2. Sound(th[t].buf, Known(th[t]))
    BY <2>1 DEF SummaryInv
  <2>3. /\ \A y \in Ids : th'[t].snap[y] \in {None, th[t].snap[y]}
        /\ th'[t].buf \in {None, th[t].buf}
    BY FeedbackEdgePutEffect DEF Idle
  <2> QED BY <1>1, <1>2, <2>1, <2>2, <2>3, PutSound, FeedbackEdgePutEffect

\* The rows are not units.
LEMMA FeedbackRowGetSummary ==
  ASSUME IndInv, NEW t \in Threads, IndexInv(t), SummaryInv(t), FeedbackRowGet(t)
  PROVE  SummaryInv(t)'
<1>1. Hot \subseteq Hot'
  BY FeedbackRowGetEffect DEF Hot, disk
<1>2. Known(th[t]) \subseteq Known(th[t])'
  BY FeedbackRowGetEffect DEF Known, disk, Idle
<1> QED
  BY <1>1, <1>2, FeedbackRowGetEffect DEF SummaryInv, Sound, disk, Idle

\* The rows are not units.
LEMMA FeedbackRowPutSummary ==
  ASSUME IndInv, NEW t \in Threads, IndexInv(t), SummaryInv(t), FeedbackRowPut(t)
  PROVE  SummaryInv(t)'
<1>1. Hot \subseteq Hot'
  BY FeedbackRowPutEffect DEF Hot, disk
<1>2. Known(th[t]) \subseteq Known(th[t])'
  BY FeedbackRowPutEffect DEF Known, disk, Idle
<1> QED
  BY <1>1, <1>2, FeedbackRowPutEffect DEF SummaryInv, Sound, disk, Idle

\* The snapshot is the table.
LEMMA ConsolidateStartSummary ==
  ASSUME IndInv, NEW t \in Threads, IndexInv(t), SummaryInv(t), ConsolidateStart(t)
  PROVE  SummaryInv(t)'
<1>1. Hot \subseteq Hot'
  BY ConsolidateStartEffect DEF Hot, disk
<1>2. Known(th[t]) \subseteq Known(th[t])'
  BY ConsolidateStartEffect DEF Known, disk, Idle
<1> QED
  BY <1>1, <1>2, ConsolidateStartEffect DEF SummaryInv, FreshSnapshot, Sound, disk, Idle

\* A cycle draws edges to ids of positive audit rows.
LEMMA ConsolidateCycleSummary ==
  ASSUME IndInv, NEW t \in Threads, IndexInv(t), SummaryInv(t), ConsolidateCycle(t)
  PROVE  SummaryInv(t)'
<1>1. Hot \subseteq Hot'
  BY ConsolidateCycleEffect DEF Hot, disk
<1>2. Known(th[t]) \subseteq Known(th[t])'
  BY ConsolidateCycleEffect DEF Known, disk, Idle
<1> QED
  <2>1. th[t].snap \in Table /\ UNCHANGED <<memory_kv, th[t].buf>>
    BY ConsolidateCycleEffect, Locals DEF disk
  <2>2. PICK c \in CycleInputs, age \in 0..2 :
          th'[t].snap = AfterCycle(th[t].snap, c, age, {}, None)
    BY ConsolidateCycleEffect
  <2>3. \A x \in Ids : th'[t].snap[x] # None <=> th[t].snap[x] # None
    BY <2>1, <2>2, CycleKeepsUnits
  <2>4. ASSUME NEW x \in Ids, th'[t].snap[x] # None
        PROVE  Sound(th'[t].snap[x], Known(th[t]))
    <3>1. Sound(th[t].snap[x], Known(th[t]))
      BY <2>3, <2>4 DEF SummaryInv
    <3>2. {} \in SUBSET Ids /\ th[t].snap[x] # None
      BY <2>3, <2>4
    <3>3. Derives(AfterCycle(th[t].snap, c, age, {}, None)[x], th[t].snap[x],
                  IF {} = {} THEN {} ELSE {None})
      BY <2>1, <3>2, CycleTargets
    <3>4. Derives(th'[t].snap[x], th[t].snap[x], {})
      BY <2>2, <3>3
    <3> QED BY <3>1, <3>4 DEF Sound, Derives
  <2> QED BY <1>1, <1>2, <2>1, <2>4, SoundStep DEF SummaryInv

\* Sources and redirected edges name the summary that is going to be written.
LEMMA ConsolidateCompressSummary ==
  ASSUME IndInv, NEW t \in Threads, IndexInv(t), SummaryInv(t), ConsolidateCompress(t)
  PROVE  SummaryInv(t)'
<1>1. Hot \subseteq Hot'
  BY ConsolidateCompressEffect DEF Hot, disk
<1>2. Known(th[t]) \subseteq Known(th[t])'
  BY ConsolidateCompressEffect DEF Known, disk, Idle
<1> QED
  <2>1. th[t].snap \in Table /\ UNCHANGED <<memory_kv, memory_log, th[t].buf>>
    BY ConsolidateCompressEffect, Locals DEF disk
  <2>2. PICK c \in CycleInputs, age \in 0..2, C \in SUBSET Ids, s \in Ids :
          s = th'[t].cur /\ th'[t].snap = AfterCycle(th[t].snap, c, age, C, s)
    <3>1. PICK c \in CycleInputs, age \in 0..2, C \in SUBSET Ids :
            th'[t].snap = AfterCycle(th[t].snap, c, age, C, th'[t].cur)
      BY ConsolidateCompressEffect
    <3>2. PICK s \in Ids : s = th'[t].cur
      BY ConsolidateCompressEffect
    <3>3. th'[t].snap = AfterCycle(th[t].snap, c, age, C, s)
      BY <3>1, <3>2
    <3> QED BY <3>2, <3>3, Zenon
  <2>3. \A x \in Ids : th'[t].snap[x] # None <=> th[t].snap[x] # None
    <3>1. \A x \in Ids : AfterCycle(th[t].snap, c, age, C, s)[x] # None
                           <=> th[t].snap[x] # None
      BY <2>1, CompressKeepsUnits, ZenonT(40)
    <3> QED BY <2>2, <3>1
  <2>4. s \in Known(th[t])' /\ memory_log \subseteq Known(th[t])'
    <3>1. th[t].op = "consolidate"
      BY ThreadFacts, ConsolidateCompressEffect DEF IndInv, Carries
    <3> QED BY <2>1, <2>2, <3>1, ConsolidateCompressEffect DEF Known
  <2>5. ASSUME NEW x \in Ids, th'[t].snap[x] # None
        PROVE  Sound(th'[t].snap[x], Known(th[t])')
    <3>1. Sound(th[t].snap[x], Known(th[t]))
      BY <2>3, <2>5 DEF SummaryInv
    <3>2. th[t].snap[x] # None
      BY <2>3, <2>5
    <3>3. Derives(AfterCycle(th[t].snap, c, age, C, s)[x], th[t].snap[x],
                  IF C = {} THEN {} ELSE {s})
      BY <2>1, <3>2, CycleTargets
    <3>4. Derives(th'[t].snap[x], th[t].snap[x], IF C = {} THEN {} ELSE {s})
      BY <2>2, <3>3
    <3> QED BY <1>1, <1>2, <2>4, <3>1, <3>4 DEF Sound, Derives
  <2> QED BY <1>1, <1>2, <2>1, <2>5 DEF SummaryInv, Sound

\* The copies are put; a cycle without a summary names none.
LEMMA FlushKvSummary ==
  ASSUME IndInv, NEW t \in Threads, IndexInv(t), SummaryInv(t), FlushKv(t)
  PROVE  SummaryInv(t)'
<1>1. Hot \subseteq Hot'
  BY FlushKvEffect DEF Hot, disk
<1>2. Known(th[t]) \subseteq Known(th[t])'
  <2>1. /\ th[t].pc = "flush_kv" /\ UNCHANGED memory_log
        /\ \/ th[t].cur = None /\ th'[t] = Idle
           \/ th'[t].pc \in {"summary", "flush_row"} /\ UNCHANGED <<th[t].op, th[t].cur>>
    BY FlushKvEffect
  <2> QED BY <2>1, EngineAssumption DEF Known, Idle
<1> QED
  <2>1. /\ th[t].todo \subseteq Ids /\ \A x \in th[t].todo : th[t].snap[x] # None
        /\ \A y \in Ids : th'[t].snap[y] \in {None, th[t].snap[y]}
        /\ th'[t].buf \in {None, th[t].buf}
    BY FlushKvEffect, Locals, EngineAssumption DEF Idle
  <2>2. CASE UNCHANGED memory_kv
    BY <1>1, <1>2, <2>1, <2>2, SoundStep DEF SummaryInv
  <2>3. ASSUME NEW x \in th[t].todo, memory_kv' = [memory_kv EXCEPT ![x] = th[t].snap[x]]
        PROVE  SummaryInv(t)'
    <3>1. x \in Ids /\ Sound(th[t].snap[x], Known(th[t]))
      BY <2>1 DEF SummaryInv
    <3> QED BY <1>1, <1>2, <2>1, <2>3, <3>1, PutSound
  <2> QED BY <2>2, <2>3, FlushKvEffect

\* The rows are not units.
LEMMA FlushRowSummary ==
  ASSUME IndInv, NEW t \in Threads, IndexInv(t), SummaryInv(t), FlushRow(t)
  PROVE  SummaryInv(t)'
<1>1. Hot \subseteq Hot'
  BY FlushRowEffect DEF Hot, disk
<1>2. Known(th[t]) \subseteq Known(th[t])'
  BY FlushRowEffect DEF Known, disk, Idle
<1> QED
  BY <1>1, <1>2, FlushRowEffect DEF SummaryInv, Sound, disk, Idle

\* The summary is still on its way to the log.
LEMMA SummaryWriteSummary ==
  ASSUME IndInv, NEW t \in Threads, IndexInv(t), SummaryInv(t), SummaryWrite(t)
  PROVE  SummaryInv(t)'
<1>1. Hot \subseteq Hot'
  BY SummaryWriteEffect DEF Hot, disk
<1>2. Known(th[t]) \subseteq Known(th[t])'
  BY SummaryWriteEffect DEF Known, disk, Idle
<1> QED
  BY <1>1, <1>2, SummaryWriteEffect DEF SummaryInv, Sound, disk, Idle

\* The rows are not units.
LEMMA SealRowSummary ==
  ASSUME IndInv, NEW t \in Threads, IndexInv(t), SummaryInv(t), SealRow(t)
  PROVE  SummaryInv(t)'
<1>1. Hot \subseteq Hot'
  BY SealRowEffect DEF Hot, disk
<1>2. Known(th[t]) \subseteq Known(th[t])'
  BY SealRowEffect DEF Known, disk, Idle
<1> QED
  BY <1>1, <1>2, SealRowEffect DEF SummaryInv, Sound, disk, Idle

\* The sealed summary has no links.
LEMMA SealGetSummary ==
  ASSUME IndInv, NEW t \in Threads, IndexInv(t), SummaryInv(t), SealGet(t)
  PROVE  SummaryInv(t)'
<1>1. Hot \subseteq Hot'
  BY SealGetEffect DEF Hot, disk
<1>2. Known(th[t]) \subseteq Known(th[t])'
  BY SealGetEffect DEF Known, disk, Idle
<1> QED
  <2>1. th[t].cur \in Ids /\ UNCHANGED memory_kv
    BY SealGetEffect, Locals DEF disk
  <2>2. CASE th'[t] = Idle
    <3>1. th'[t].buf = None /\ \A x \in Ids : th'[t].snap[x] = None
      BY <2>2 DEF Idle
    <3> QED BY <1>1, <1>2, <2>1, <3>1, SoundStep DEF SummaryInv
  <2>3. CASE /\ Present(th[t].cur) /\ UNCHANGED <<th[t].snap>>
             /\ th'[t].buf = [memory_kv[th[t].cur] EXCEPT !.links = {}, !.gen = "cons"]
    <3>1. memory_kv[th[t].cur] \in Unit /\ Sound(memory_kv[th[t].cur], Known(th[t]))
      BY <2>1, <2>3, Tables DEF Present, SummaryInv
    <3>2. PICK u : u = [memory_kv[th[t].cur] EXCEPT !.links = {}, !.gen = "cons"]
      OBVIOUS
    <3>3. u.links = {} /\ u.into = memory_kv[th[t].cur].into
      BY <3>1, <3>2 DEF Unit
    <3>4. Targets(u.links) = {}
      BY <3>3 DEF Targets
    <3> QED BY <1>1, <1>2, <2>1, <2>3, <3>1, <3>2, <3>3, <3>4, HoldSound DEF Sound
  <2> QED BY <2>2, <2>3, SealGetEffect

\* It is put.
LEMMA SealPutSummary ==
  ASSUME IndInv, NEW t \in Threads, IndexInv(t), SummaryInv(t), SealPut(t)
  PROVE  SummaryInv(t)'
<1>1. Hot \subseteq Hot'
  BY SealPutEffect DEF Hot, disk
<1>2. Known(th[t]) \subseteq Known(th[t])'
  BY SealPutEffect DEF Known, disk, Idle
<1> QED
  <2>1. th[t].buf # None /\ th[t].cur \in Ids
    BY SealPutEffect, Locals
  <2>2. Sound(th[t].buf, Known(th[t]))
    BY <2>1 DEF SummaryInv
  <2>3. /\ \A y \in Ids : th'[t].snap[y] \in {None, th[t].snap[y]}
        /\ th'[t].buf \in {None, th[t].buf}
    BY SealPutEffect DEF Idle
  <2> QED BY <1>1, <1>2, <2>1, <2>2, <2>3, PutSound, SealPutEffect

\* A reindex lists the log.
LEMMA ReindexStartSummary ==
  ASSUME IndInv, NEW t \in Threads, IndexInv(t), SummaryInv(t), ReindexStart(t)
  PROVE  SummaryInv(t)'
<1>1. Hot \subseteq Hot'
  BY ReindexStartEffect DEF Hot, disk
<1>2. Known(th[t]) \subseteq Known(th[t])'
  BY ReindexStartEffect DEF Known, disk, Idle
<1> QED
  BY <1>1, <1>2, ReindexStartEffect DEF SummaryInv, Sound, disk, Idle

\* No unit, no name.
LEMMA ReindexClearSummary ==
  ASSUME IndInv, NEW t \in Threads, Blank(t), ReindexClear(t)
  PROVE  SummaryInv(t)'
BY ReindexClearEffect DEF Blank, SummaryInv

\* The documents name nothing.
LEMMA ReindexFulltextSummary ==
  ASSUME IndInv, NEW t \in Threads, IndexInv(t), SummaryInv(t), ReindexFulltext(t)
  PROVE  SummaryInv(t)'
<1>1. Hot \subseteq Hot'
  BY ReindexFulltextEffect DEF Hot, disk
<1>2. Known(th[t]) \subseteq Known(th[t])'
  BY ReindexFulltextEffect DEF Known, disk, Idle
<1> QED
  BY <1>1, <1>2, ReindexFulltextEffect DEF SummaryInv, Sound, disk, Idle

\* Nor do the in-memory indexes.
LEMMA ReindexRamSummary ==
  ASSUME IndInv, NEW t \in Threads, IndexInv(t), SummaryInv(t), ReindexRam(t)
  PROVE  SummaryInv(t)'
<1>1. Hot \subseteq Hot'
  BY ReindexRamEffect DEF Hot, disk
<1>2. Known(th[t]) \subseteq Known(th[t])'
  BY ReindexRamEffect DEF Known, disk, Idle
<1> QED
  BY <1>1, <1>2, ReindexRamEffect DEF SummaryInv, Sound, disk, Idle

\* A replayed record has named nothing yet.
LEMMA ReindexNextSummary ==
  ASSUME IndInv, NEW t \in Threads, IndexInv(t), SummaryInv(t), ReindexNext(t)
  PROVE  SummaryInv(t)'
<1>1. Hot \subseteq Hot'
  BY ReindexNextEffect DEF Hot, disk
<1>2. Known(th[t]) \subseteq Known(th[t])'
  BY ReindexNextEffect DEF Known, disk, Idle
<1> QED
  BY <1>1, <1>2, ReindexNextEffect DEF SummaryInv, Sound, disk, Idle

\* Without faults no step fails and nothing restarts.
LEMMA NoFaults ==
  ASSUME MaxFaults = 0, IndInv
  PROVE  ~ Restart /\ \A t \in Threads : ~ Fail(t)
<1>1. faults \in Nat
  BY DEF IndInv, DataInv, DataType
<1>2. ~ (faults < MaxFaults)
  BY <1>1
<1> QED BY <1>2, Zenon DEF Restart, Fail

-----------------------------------------------------------------------------
(***************************************************************************)
(* Full-text documents.                                                    *)
(***************************************************************************)
\* Every visible memory has its document, or is about to get it.
FulltextInv(t) ==
    \A x \in Visible : x \in fulltext \/ (th[t].pc = "fulltext" /\ x = th[t].cur)

\* The steps that put a unit of a lone caller: one was there.
Puts(t) == \/ WriteReput(t) \/ DeleteCascadePut(t) \/ RetrieveTouchPut(t)
           \/ FeedbackUsagePut(t) \/ FeedbackEdgePut(t) \/ FlushKv(t) \/ SealPut(t)

\* They leave the visible memories as they are.
LEMMA PutsKeepVisible ==
  ASSUME IndInv, NEW t \in Threads, IndexInv(t), Puts(t)
  PROVE  Visible' = Visible /\ UNCHANGED fulltext /\ th[t].pc # "fulltext"
<1>1. CASE WriteReput(t) \/ RetrieveTouchPut(t) \/ FeedbackUsagePut(t) \/ SealPut(t)
  <2>1. /\ th[t].cur \in Ids /\ th[t].buf # None /\ Present(th[t].cur)
        /\ memory_kv' = [memory_kv EXCEPT ![th[t].cur] = th[t].buf]
        /\ UNCHANGED fulltext /\ th[t].pc # "fulltext"
    BY <1>1, WriteReputEffect, RetrieveTouchPutEffect, FeedbackUsagePutEffect,
       SealPutEffect, Locals DEF IndexInv, IndexHeld
  <2> QED BY <2>1, PutVisible
<1>2. CASE FeedbackEdgePut(t)
  <2>1. /\ th[t].path[1] \in Ids /\ th[t].buf # None /\ Present(th[t].path[1])
        /\ memory_kv' = [memory_kv EXCEPT ![th[t].path[1]] = th[t].buf]
        /\ UNCHANGED fulltext /\ th[t].pc # "fulltext"
    BY <1>2, FeedbackEdgePutEffect, Locals DEF IndexInv, IndexHeld
  <2> QED BY <2>1, PutVisible
<1>3. CASE DeleteCascadePut(t)
  <2>1. /\ th[t].pc = "casc_put" /\ th[t].buf # None /\ th[t].scan \subseteq Ids
        /\ UNCHANGED fulltext
    BY <1>3, DeleteCascadePutEffect, Locals
  <2>2. PICK y \in th[t].scan : /\ Least(y, th[t].scan)
                                /\ memory_kv' = [memory_kv EXCEPT ![y] = th[t].buf]
    BY <1>3, DeleteCascadePutEffect
  <2>3. Present(y)
    BY <2>1, <2>2 DEF IndexInv, IndexHeld
  <2> QED BY <2>1, <2>2, <2>3, PutVisible
<1>4. CASE FlushKv(t)
  <2>1. /\ th[t].pc = "flush_kv" /\ th[t].todo \subseteq Ids /\ UNCHANGED fulltext
        /\ \A x \in th[t].todo : th[t].snap[x] # None
    BY <1>4, FlushKvEffect, Locals, EngineAssumption
  <2>2. \A x \in th[t].todo : Present(x)
    BY <2>1 DEF IndexInv, IndexHeld
  <2>3. CASE UNCHANGED memory_kv
    BY <2>1, <2>3 DEF Visible, Present
  <2>4. ASSUME NEW x \in th[t].todo, memory_kv' = [memory_kv EXCEPT ![x] = th[t].snap[x]]
        PROVE  Visible' = Visible
    BY <2>1, <2>2, <2>4, PutVisible
  <2> QED BY <1>4, <2>1, <2>3, <2>4, FlushKvEffect
<1> QED BY <1>1, <1>2, <1>3, <1>4 DEF Puts

\* A step between persist and full-text that shows nothing new.
LEMMA FulltextStep ==
  ASSUME NEW t \in Threads, FulltextInv(t), th[t].pc # "fulltext",
         Visible' \subseteq Visible, fulltext \subseteq fulltext'
  PROVE  FulltextInv(t)'
BY DEF FulltextInv

\* Every step of a lone caller keeps the visible memories documented.
LEMMA NextFulltext ==
  ASSUME NEW t \in Threads, Threads = {t}, MaxFaults = 0, IndInv, IndexInv(t),
         FulltextInv(t), [Next]_vars
  PROVE  FulltextInv(t)'
<1>1. CASE Puts(t)
  BY <1>1, PutsKeepVisible, FulltextStep
<1>2. CASE WritePersist(t)
  <2>1. th[t].cur \in Ids /\ th[t].pc = "persist"
    BY <1>2, WritePersistEffect, Locals
  <2>2. CASE th'[t].pc = "fulltext" /\ PersistUnit(t) /\ UNCHANGED <<fulltext, th[t].cur>>
    <3>1. Visible' \subseteq Visible \cup {th[t].cur}
      BY <2>1, <2>2, Tables DEF PersistUnit, Visible, Present
    <3> QED BY <2>1, <2>2, <3>1 DEF FulltextInv
  <2>3. CASE UNCHANGED disk
    BY <2>1, <2>3, FulltextStep DEF disk, Visible, Present
  <2> QED BY <1>2, <2>2, <2>3, WritePersistEffect
<1>3. CASE WriteFulltext(t)
  <2>1. UNCHANGED Visible /\ fulltext' = fulltext \cup {th[t].cur}
    BY <1>3, WriteFulltextEffect DEF Visible, Present
  <2> QED BY <2>1 DEF FulltextInv
<1>4. CASE DeleteRemove(t)
  <2>1. th[t].cur \in Ids /\ th[t].pc = "remove" /\ UNCHANGED fulltext
    BY <1>4, DeleteRemoveEffect, Locals
  <2>2. Visible' \subseteq Visible
    BY <1>4, <2>1, DeleteRemoveEffect, Tables DEF Visible, Present
  <2> QED BY <2>1, <2>2, FulltextStep
<1>5. CASE ReindexClear(t) \/ ReindexFulltext(t)
  <2>1. Visible' = {}
    BY <1>5, ReindexClearEffect, ReindexFulltextEffect
    DEF IndexInv, Replaying, Visible, Present
  <2> QED BY <2>1 DEF FulltextInv
<1>6. CASE WriteStart(t) \/ WriteDiscover(t) \/ WriteLink(t) \/ WriteEnrich(t)
  <2>1. th[t].pc # "fulltext" /\ UNCHANGED <<memory_kv, fulltext>>
    BY <1>6, WriteStartEffect, WriteDiscoverEffect, WriteLinkEffect, WriteEnrichEffect
    DEF disk
  <2> QED BY <2>1, FulltextStep DEF Visible, Present
<1>7. CASE DeleteStart(t) \/ DeleteNext(t) \/ DeleteCascade(t) \/ DeleteCascadeGet(t)
           \/ DeleteUnindex(t) \/ DeleteUnlink(t)
  <2>1. th[t].pc # "fulltext" /\ UNCHANGED <<memory_kv, fulltext>>
    BY <1>7, DeleteStartEffect, DeleteNextEffect, DeleteCascadeEffect,
       DeleteCascadeGetEffect, DeleteUnindexEffect, DeleteUnlinkEffect
    DEF disk
  <2> QED BY <2>1, FulltextStep DEF Visible, Present
<1>8. CASE RetrieveStart(t) \/ RetrieveTouch(t)
  <2>1. th[t].pc # "fulltext" /\ UNCHANGED <<memory_kv, fulltext>>
    BY <1>8, RetrieveStartEffect, RetrieveTouchEffect
    DEF disk
  <2> QED BY <2>1, FulltextStep DEF Visible, Present
<1>9. CASE FeedbackStart(t) \/ FeedbackUsage(t) \/ FeedbackBind(t) \/ FeedbackEdgeGet(t)
           \/ FeedbackRowGet(t) \/ FeedbackRowPut(t)
  <2>1. th[t].pc # "fulltext" /\ UNCHANGED <<memory_kv, fulltext>>
    BY <1>9, FeedbackStartEffect, FeedbackUsageEffect, FeedbackBindEffect,
       FeedbackEdgeGetEffect, FeedbackRowGetEffect, FeedbackRowPutEffect
    DEF disk
  <2> QED BY <2>1, FulltextStep DEF Visible, Present
<1>10. CASE ConsolidateStart(t) \/ ConsolidateCycle(t) \/ ConsolidateCompress(t) \/ FlushRow(t)
           \/ SummaryWrite(t) \/ SealRow(t) \/ SealGet(t)
  <2>1. th[t].pc # "fulltext" /\ UNCHANGED <<memory_kv, fulltext>>
    BY <1>10, ConsolidateStartEffect, ConsolidateCycleEffect, ConsolidateCompressEffect,
       FlushRowEffect, SummaryWriteEffect, SealRowEffect, SealGetEffect
    DEF disk
  <2> QED BY <2>1, FulltextStep DEF Visible, Present
<1>11. CASE ReindexStart(t) \/ ReindexRam(t) \/ ReindexNext(t)
  <2>1. th[t].pc # "fulltext" /\ UNCHANGED <<memory_kv, fulltext>>
    BY <1>11, ReindexStartEffect, ReindexRamEffect, ReindexNextEffect
    DEF disk
  <2> QED BY <2>1, FulltextStep DEF Visible, Present
<1>12. CASE Fail(t) \/ Restart
  BY <1>12, NoFaults
<1>13. CASE UNCHANGED vars
  BY <1>13 DEF FulltextInv, Visible, Present, vars, disk
<1> QED
  BY <1>1, <1>2, <1>3, <1>4, <1>5, <1>6, <1>7, <1>8, <1>9, <1>10, <1>11, <1>12,
     <1>13
  DEF Next, WriteStep, DeleteStep, RetrieveStep, FeedbackStep, ConsolidateStep,
      ReindexStep, Puts

\* Every step of a lone caller keeps the rows in line.
LEMMA NextOverlay ==
  ASSUME NEW t \in Threads, Threads = {t}, MaxFaults = 0, IndInv, IndexInv(t),
         OverlayInv(t),
         [Next]_vars
  PROVE  OverlayInv(t)'
<1>1. CASE WriteStep(t)
  BY <1>1, WriteStartOverlay, WriteDiscoverOverlay, WriteLinkOverlay,
     WritePersistOverlay, WriteFulltextOverlay, WriteEnrichOverlay,
     WriteReputOverlay
  DEF WriteStep
<1>2. CASE DeleteStep(t)
  BY <1>2, DeleteStartOverlay, DeleteNextOverlay, DeleteRemoveOverlay,
     DeleteCascadeOverlay, DeleteCascadeGetOverlay, DeleteCascadePutOverlay,
     DeleteUnindexOverlay, DeleteUnlinkOverlay
  DEF DeleteStep
<1>3. CASE RetrieveStep(t)
  BY <1>3, RetrieveStartOverlay, RetrieveTouchOverlay, RetrieveTouchPutOverlay
  DEF RetrieveStep
<1>4. CASE FeedbackStep(t)
  BY <1>4, FeedbackStartOverlay, FeedbackUsageOverlay, FeedbackUsagePutOverlay,
     FeedbackBindOverlay, FeedbackEdgeGetOverlay, FeedbackEdgePutOverlay,
     FeedbackRowGetOverlay, FeedbackRowPutOverlay
  DEF FeedbackStep
<1>5. CASE ConsolidateStep(t)
  BY <1>5, ConsolidateStartOverlay, ConsolidateCycleOverlay,
     ConsolidateCompressOverlay, FlushKvOverlay, FlushRowOverlay,
     SummaryWriteOverlay, SealRowOverlay, SealGetOverlay, SealPutOverlay
  DEF ConsolidateStep
<1>6. CASE ReindexStep(t)
  BY <1>6, ReindexStartOverlay, ReindexClearOverlay, ReindexFulltextOverlay,
     ReindexRamOverlay, ReindexNextOverlay
  DEF ReindexStep
<1>7. CASE Fail(t) \/ Restart
  BY <1>7, NoFaults
<1>8. CASE UNCHANGED vars
  BY <1>8 DEF OverlayInv, OverlayHeld, RowsAgree, Lagging, Visible, Present, vars, disk
<1> QED BY <1>1, <1>2, <1>3, <1>4, <1>5, <1>6, <1>7, <1>8 DEF Next

\* A reindex starts with nothing in hand, and comes to the clearing at once.
LEMMA NextBlank ==
  ASSUME NEW t \in Threads, Threads = {t}, MaxFaults = 0, IndInv, Blank(t),
         [Next]_vars
  PROVE  Blank(t)'
<1>1. CASE WriteStep(t)
  <2>1. CASE WriteStart(t)
    BY <2>1, WriteStartEffect DEF Blank, Idle
  <2>2. CASE WriteDiscover(t)
    BY <2>2, WriteDiscoverEffect DEF Blank, Idle
  <2>3. CASE WriteLink(t)
    BY <2>3, WriteLinkEffect DEF Blank, Idle
  <2>4. CASE WritePersist(t)
    BY <2>4, WritePersistEffect DEF Blank, Idle
  <2>5. CASE WriteFulltext(t)
    BY <2>5, WriteFulltextEffect DEF Blank, Idle
  <2>6. CASE WriteEnrich(t)
    BY <2>6, WriteEnrichEffect DEF Blank, Idle
  <2>7. CASE WriteReput(t)
    BY <2>7, WriteReputEffect DEF Blank, Idle
  <2> QED BY <1>1, <2>1, <2>2, <2>3, <2>4, <2>5, <2>6, <2>7 DEF WriteStep
<1>2. CASE DeleteStep(t)
  <2>1. CASE DeleteStart(t)
    BY <2>1, DeleteStartEffect DEF Blank, Idle
  <2>2. CASE DeleteNext(t)
    BY <2>2, DeleteNextEffect DEF Blank, Idle
  <2>3. CASE DeleteRemove(t)
    BY <2>3, DeleteRemoveEffect DEF Blank, Idle
  <2>4. CASE DeleteCascade(t)
    BY <2>4, DeleteCascadeEffect DEF Blank, Idle
  <2>5. CASE DeleteCascadeGet(t)
    BY <2>5, DeleteCascadeGetEffect DEF Blank, Idle
  <2>6. CASE DeleteCascadePut(t)
    BY <2>6, DeleteCascadePutEffect DEF Blank, Idle
  <2>7. CASE DeleteUnindex(t)
    BY <2>7, DeleteUnindexEffect DEF Blank, Idle
  <2>8. CASE DeleteUnlink(t)
    BY <2>8, DeleteUnlinkEffect DEF Blank, Idle
  <2> QED BY <1>2, <2>1, <2>2, <2>3, <2>4, <2>5, <2>6, <2>7, <2>8 DEF DeleteStep
<1>3. CASE RetrieveStep(t)
  BY <1>3, RetrieveStartEffect, RetrieveTouchEffect, RetrieveTouchPutEffect
  DEF RetrieveStep, Blank, Idle
<1>4. CASE FeedbackStep(t)
  BY <1>4, FeedbackStartEffect, FeedbackUsageEffect, FeedbackUsagePutEffect,
     FeedbackBindEffect, FeedbackEdgeGetEffect, FeedbackEdgePutEffect,
     FeedbackRowGetEffect, FeedbackRowPutEffect
  DEF FeedbackStep, Blank, Idle
<1>5. CASE ConsolidateStep(t)
  BY <1>5, ConsolidateStartEffect, ConsolidateCycleEffect,
     ConsolidateCompressEffect, FlushKvEffect, FlushRowEffect,
     SummaryWriteEffect, SealRowEffect, SealGetEffect, SealPutEffect
  DEF ConsolidateStep, Blank, Idle
<1>6. CASE ReindexStep(t)
  BY <1>6, ReindexStartEffect, ReindexClearEffect, ReindexFulltextEffect,
     ReindexRamEffect, ReindexNextEffect
  DEF ReindexStep, Blank, Idle
<1>7. CASE Fail(t) \/ Restart
  BY <1>7, NoFaults
<1>8. CASE UNCHANGED vars
  BY <1>8 DEF Blank, vars
<1> QED BY <1>1, <1>2, <1>3, <1>4, <1>5, <1>6, <1>7, <1>8 DEF Next

\* Every step of a lone caller keeps the units sound.
LEMMA NextSummary ==
  ASSUME NEW t \in Threads, Threads = {t}, MaxFaults = 0, IndInv, IndexInv(t),
         Blank(t), SummaryInv(t),
         [Next]_vars
  PROVE  SummaryInv(t)'
<1>1. CASE WriteStep(t)
  BY <1>1, WriteStartSummary, WriteDiscoverSummary, WriteLinkSummary,
     WritePersistSummary, WriteFulltextSummary, WriteEnrichSummary,
     WriteReputSummary
  DEF WriteStep
<1>2. CASE DeleteStep(t)
  BY <1>2, DeleteStartSummary, DeleteNextSummary, DeleteRemoveSummary,
     DeleteCascadeSummary, DeleteCascadeGetSummary, DeleteCascadePutSummary,
     DeleteUnindexSummary, DeleteUnlinkSummary
  DEF DeleteStep
<1>3. CASE RetrieveStep(t)
  BY <1>3, RetrieveStartSummary, RetrieveTouchSummary, RetrieveTouchPutSummary
  DEF RetrieveStep
<1>4. CASE FeedbackStep(t)
  BY <1>4, FeedbackStartSummary, FeedbackUsageSummary, FeedbackUsagePutSummary,
     FeedbackBindSummary, FeedbackEdgeGetSummary, FeedbackEdgePutSummary,
     FeedbackRowGetSummary, FeedbackRowPutSummary
  DEF FeedbackStep
<1>5. CASE ConsolidateStep(t)
  BY <1>5, ConsolidateStartSummary, ConsolidateCycleSummary,
     ConsolidateCompressSummary, FlushKvSummary, FlushRowSummary,
     SummaryWriteSummary, SealRowSummary, SealGetSummary, SealPutSummary
  DEF ConsolidateStep
<1>6. CASE ReindexStep(t)
  BY <1>6, ReindexStartSummary, ReindexClearSummary, ReindexFulltextSummary,
     ReindexRamSummary, ReindexNextSummary
  DEF ReindexStep
<1>7. CASE Fail(t) \/ Restart
  BY <1>7, NoFaults
<1>8. CASE UNCHANGED vars
  BY <1>8 DEF SummaryInv, Known, Sound, Hot, vars, disk
<1> QED BY <1>1, <1>2, <1>3, <1>4, <1>5, <1>6, <1>7, <1>8 DEF Next

\* The invariants of one caller without faults.
LEMMA SerialInvariance ==
  ASSUME NEW t \in Threads, Threads = {t}, MaxFaults = 0
  PROVE  Spec => [](OverlayInv(t) /\ FulltextInv(t) /\ SummaryInv(t) /\ Blank(t))
<1>1. ASSUME Init PROVE OverlayInv(t) /\ FulltextInv(t) /\ SummaryInv(t) /\ Blank(t)
  <2>1. Visible = {} /\ th[t] = Idle
    BY <1>1 DEF Init, Visible, Present
  <2>2. OverlayInv(t) /\ FulltextInv(t)
    BY <2>1 DEF OverlayInv, RowsAgree, OverlayHeld, FulltextInv, Idle
  <2>3. SummaryInv(t) /\ Blank(t)
    BY <1>1, <2>1 DEF Init, SummaryInv, Blank, Idle
  <2> QED BY <2>2, <2>3
<1>2. /\ IndInv /\ IndexInv(t)
      /\ OverlayInv(t) /\ FulltextInv(t) /\ SummaryInv(t) /\ Blank(t)
      /\ [Next]_vars
      => OverlayInv(t)' /\ FulltextInv(t)' /\ SummaryInv(t)' /\ Blank(t)'
  BY NextOverlay, NextFulltext, NextSummary, NextBlank
<1> QED BY <1>1, <1>2, Invariance, IndexInvariance, PTL DEF Spec

\* One caller, no faults: between two calls the edges that retrieval follows are
\* the edges of the unit that consolidation reads.
THEOREM OverlayFollowsUnits ==
  ASSUME OneCaller, MaxFaults = 0
  PROVE  Spec => []OverlayAgrees
<1>1. PICK t \in Threads : Threads = {t}
  BY DEF OneCaller
<1>2. OverlayInv(t) => OverlayAgrees
  BY <1>1, NoneLags DEF OverlayAgrees, Quiet, At
<1> QED BY <1>1, <1>2, SerialInvariance, PTL

\* One caller, no faults: between two calls every visible memory has its
\* full-text document.
THEOREM VisibleMemoriesHaveDocuments ==
  ASSUME OneCaller, MaxFaults = 0
  PROVE  Spec => []FulltextComplete
<1>1. PICK t \in Threads : Threads = {t}
  BY DEF OneCaller
<1>2. FulltextInv(t) => FulltextComplete
  BY <1>1 DEF FulltextInv, FulltextComplete, Quiet, At
<1> QED BY <1>1, <1>2, SerialInvariance, PTL

\* One caller, no faults: between two calls a unit is compressed only into a
\* summary that has its raw record, and its links lead to memories that have
\* theirs, or to ids that positive feedback named.
THEOREM SummariesExist ==
  ASSUME OneCaller, MaxFaults = 0
  PROVE  Spec => []SummaryExists
<1>1. PICK t \in Threads : Threads = {t}
  BY DEF OneCaller
<1>2. SummaryInv(t) => SummaryExists
  BY <1>1 DEF SummaryInv, Sound, Known, SummaryExists, Quiet, At,
              Visible, Present
<1> QED BY <1>1, <1>2, SerialInvariance, PTL
=============================================================================
