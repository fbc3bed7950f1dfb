----------------------------- MODULE LinkGraph -----------------------------
(***************************************************************************)
(* The association links of the memories in detail: what a write builds,   *)
(* what feedback reviews, what a consolidation cycle reinforces, weakens,  *)
(* decays, compacts and redirects.  MemoryEngine shows how these calls     *)
(* interleave; here a call is one step, and a link has its type, strength, *)
(* observation state, activation count and activation day.                 *)
(*                                                                         *)
(* Abstractions.  Strength is a level: 1 is min_retained_strength (0.12),  *)
(* 2 the band in which edges are built, up to MaxLevel (1.0); one level is *)
(* one halving, one Hebbian delta and one rejection.  Time is in days (the *)
(* base half-life); feedback rows of one day lie within the co-activation  *)
(* window of an hour and rows of different days do not.  Every positive    *)
(* signal weighs 1.  A cycle forms at most one summary.                    *)
(***************************************************************************)
EXTENDS Integers, FiniteSets, FiniteSetsExt

CONSTANTS
    Ids,            \* memory ids, in the order they are drawn
    None,           \* no summary
    MaxLevel,       \* strength 1.0
    ObsLevel,       \* observation_max: an edge built at or below is observed
    Threshold,      \* coactivation_threshold
    MaxCandidates,  \* max_candidates of the write path
    DegreeLimit,    \* degree_limit of compaction
    Trigger,        \* summary_trigger_count
    MaxDoublings,   \* half_life_max_doublings; activation counts are capped here
    MaxUsed,        \* bound: memories one positive feedback names
    MaxRejected,    \* bound: memories one rejection names
    MaxCount,       \* bound: activation entries of one memory on one day
    MaxDay,         \* bound: days
    MaxCalls        \* bound: API calls

\* One type of the protected set (co-activation builds the same one) and one
\* that decays.
Types == {"Causal", "EntityOverlap"}
Protected == {"Causal"}

Levels == 1..MaxLevel
Days == 0..MaxDay

\* orig is the memory the edge was built for (its evidence keeps a note when
\* the edge is redirected); last is last_activated_at.
Link == [to : Ids, orig : Ids, type : Types, lvl : Levels,
         act : 0..MaxDoublings, last : Days, obs : BOOLEAN]

ASSUME LinkGraphAssumption ==
    /\ Ids \subseteq Nat /\ IsFiniteSet(Ids)
    /\ None \notin Ids
    /\ MaxLevel \in Nat /\ MaxLevel >= 2
    /\ ObsLevel \in Levels
    /\ {Threshold, DegreeLimit, Trigger} \subseteq Nat \ {0}
    /\ {MaxCandidates, MaxDoublings, MaxUsed, MaxRejected, MaxCount, MaxDay,
        MaxCalls} \subseteq Nat

VARIABLES
    links,      \* id -> out-edges of its unit
    live,       \* ids with a unit
    issued,     \* ids handed out
    into,       \* id -> the summary it was compressed into, or None
    summaries,  \* ids generated by consolidation
    entries,    \* id -> day -> activation entries its feedback rows amount to
    rejected,   \* ids named by a rejection
    day, calls

vars == <<links, live, issued, into, summaries, entries, rejected, day, calls>>

Init ==
    /\ links = [x \in Ids |-> {}]
    /\ live = {} /\ issued = {}
    /\ into = [x \in Ids |-> None]
    /\ summaries = {}
    /\ entries = [x \in Ids |-> [d \in Days |-> 0]]
    /\ rejected = {}
    /\ day = 0 /\ calls = 0

Smaller(a, b) == IF a < b THEN a ELSE b
Larger(a, b) == IF a > b THEN a ELSE b

\* Ids are drawn in ascending order.
Fresh(x) == x \in Ids \ issued /\ \A y \in Ids \ issued : x <= y

Call == calls < MaxCalls /\ calls' = calls + 1

(***************************************************************************)
(* raw_to_indexed, build_edges.                                            *)
(***************************************************************************)
\* The edge built for candidate y whose score is l, at the caller's local_time.
Built(y, ty, l, at) ==
    [to |-> y, orig |-> y, type |-> ty, lvl |-> l, act |-> 0, last |-> at,
     obs |-> l <= ObsLevel]

\* build_edges looks for a duplicate among the candidate's own links.
Blocked(y, ty) == \E f \in links[y] : f.to = y /\ f.type = ty

\* Any candidates that score at least min_score, each with one type.
Write(x) ==
    /\ Call
    /\ Fresh(x)
    /\ \E C \in SUBSET live, at \in 0..day :
        /\ Cardinality(C) <= MaxCandidates
        /\ \E ty \in [C -> Types], sc \in [C -> 2..MaxLevel] :
             links' = [links EXCEPT ![x] =
                 {Built(y, ty[y], sc[y], at) : y \in {z \in C : ~ Blocked(z, ty[z])}}]
    /\ live' = live \cup {x}
    /\ issued' = issued \cup {x}
    /\ UNCHANGED <<into, summaries, entries, rejected, day>>

(***************************************************************************)
(* feedback: the activation row, and the review of the edge that carried   *)
(* an answer.                                                              *)
(***************************************************************************)
\* A row that names n memories yields n - 1 entries for each of them.
Recorded(U) ==
    [x \in Ids |-> IF x \in U
                   THEN [entries[x] EXCEPT ![day] = @ + Cardinality(U) - 1]
                   ELSE entries[x]]

\* strengthen_edge: stronger, used today, and one more doubling.
Review(e) == [e EXCEPT !.lvl = Smaller(@ + 1, MaxLevel),
                       !.act = Smaller(@ + 1, MaxDoublings),
                       !.last = day]

\* A stored path is guide and answer; it may be stale, and then it does nothing.
ReviewPath(p) ==
    [links EXCEPT ![p[1]] = {IF e.to = p[2] THEN Review(e) ELSE e : e \in @}]

FeedbackPositive(U) ==
    /\ Call
    /\ Cardinality(U) \in 1..MaxUsed
    /\ \A x \in U : entries[x][day] + Cardinality(U) - 1 <= MaxCount
    /\ entries' = Recorded(U)
    /\ \/ UNCHANGED links
       \/ \E p \in live \X U : links' = ReviewPath(p)
    /\ UNCHANGED <<live, issued, into, summaries, rejected, day>>

FeedbackRejected(U) ==
    /\ Call
    /\ Cardinality(U) \in 1..MaxRejected
    /\ rejected' = rejected \cup U
    /\ UNCHANGED <<links, live, issued, into, summaries, entries, day>>

(***************************************************************************)
(* consolidate: co_activation_pairs and run_cycle.                         *)
(***************************************************************************)
\* Entry pairs of a and b that fall into one window, over the whole log.
Weight(a, b) ==
    LET n(x, d) == entries[x][d]
        Of(d) == IF a = b THEN (n(a, d) * (n(a, d) - 1)) \div 2
                 ELSE n(a, d) * n(b, d)
    IN  MapThenSumSet(Of, Days)

\* Memories that some row pairs with another.
Paired == {x \in Ids : \E d \in Days : entries[x][d] > 0}

CoPairs ==
    {p \in Paired \X Paired : p[1] <= p[2] /\ Weight(p[1], p[2]) >= Threshold}

\* Mutant: strength_max is not applied.
ReinforceUncapped(e, P) ==
    LET k == Cardinality({p \in P : e.to \in {p[1], p[2]}})
    IN  IF k = 0 THEN e
        ELSE [e EXCEPT !.lvl = @ + k, !.act = Smaller(@ + k, MaxDoublings), !.last = day]

\* hebbian_reinforce: once for every pair that names the target.
Reinforce(e, P) ==
    LET k == Cardinality({p \in P : e.to \in {p[1], p[2]}})
    IN  IF k = 0 THEN e
        ELSE [e EXCEPT !.lvl = Smaller(@ + k, MaxLevel),
                       !.act = Smaller(@ + k, MaxDoublings),
                       !.last = day]

\* A pair at the threshold: its weight is the edge's activation count.
CoLink(y) ==
    [to |-> y, orig |-> y, type |-> "Causal", lvl |-> 2,
     act |-> Smaller(Threshold, MaxDoublings), last |-> day, obs |-> TRUE]

\* Mutant: the (target, type) check is dropped.
CoLinksRepeated(x, L, P) == {CoLink(p[2]) : p \in {q \in P : q[1] = x}}

\* build_coactivation_links: the pair's first memory gets an edge unless it
\* has one with that target and type.
CoLinks(x, L, P) ==
    {CoLink(p[2]) : p \in {q \in P : /\ q[1] = x
                                     /\ ~ \E e \in L : e.to = q[2] /\ e.type = "Causal"}}

\* reject_weaken: edges of and to rejected memories, not below the floor.
Weaken(x, e) ==
    IF e.lvl > 1 /\ (x \in rejected \/ e.to \in rejected)
    THEN [e EXCEPT !.lvl = @ - 1, !.act = Larger(@ - 1, 0), !.last = day]
    ELSE e

\* is_protected.
IsProtected(e) == ~ e.obs /\ e.type \in Protected

\* Half-lives that have passed since the last activation, up to MaxLevel.
Halvings(e) == Cardinality({k \in Levels : k * 2^(e.act) <= day - e.last})

Faded(e) ==
    IF IsProtected(e) THEN e ELSE [e EXCEPT !.lvl = Larger(@ - Halvings(e), 1)]

\* Mutants: a confirmed edge below the floor is dropped; protection is lost.
DecayDropsConfirmed(L) ==
    {Faded(e) : e \in {f \in L : IsProtected(f) \/ f.lvl - Halvings(f) >= 1}}
DecayUnprotected(L) ==
    {[e EXCEPT !.lvl = Larger(@ - Halvings(e), 1)] :
        e \in {f \in L : ~ f.obs \/ f.lvl - Halvings(f) >= 1}}

\* apply_decay_with_protection: an observed edge that falls below the floor
\* goes, any other edge stops there.
Decay(L) == {Faded(e) : e \in {f \in L : ~ f.obs \/ f.lvl - Halvings(f) >= 1}}

RunCycle(x, P) ==
    LET old == {Reinforce(e, P) : e \in links[x]}
    IN  Decay({Weaken(x, e) : e \in old \cup CoLinks(x, old, P)})

\* Mutant: compaction without the degree limit.
CompactionsUnlimited(L) == {L}

\* compact_edges: no edge is below the floor; past the degree limit the
\* strongest stay, protected or not (the order among equals is left open).
Compactions(L) ==
    IF Cardinality(L) <= DegreeLimit THEN {L}
    ELSE {K \in SUBSET L : /\ Cardinality(K) = DegreeLimit
                           /\ \A e \in K, f \in L \ K : e.lvl >= f.lvl}

\* B5: edges at a compressed source move to its summary.
Redirect(L, C, s) == {IF e.to \in C THEN [e EXCEPT !.to = s] ELSE e : e \in L}

\* The new links of every unit when cluster C is compressed into s.
Cycled(C, s) ==
    \E P \in {CoPairs} : \E after \in {[x \in live |-> RunCycle(x, P)]} :
    \E kept \in [live -> UNION {Compactions(after[x]) : x \in live}] :
        /\ \A x \in live : kept[x] \in Compactions(after[x])
        /\ links' = [x \in Ids |-> IF x \in live THEN Redirect(kept[x], C, s)
                                   ELSE links[x]]

Consolidate ==
    /\ Call
    /\ Cycled({}, None)
    /\ UNCHANGED <<live, issued, into, summaries, entries, rejected, day>>

\* plan_summary_clusters: neither compressed nor a summary.
Candidates == {x \in live : into[x] = None /\ x \notin summaries}

\* The summary is written last, and its links are removed: every one of them
\* leads to a compressed source.
ConsolidateCompress(C, s) ==
    /\ Call
    /\ C \subseteq Candidates /\ Cardinality(C) >= Trigger
    /\ Fresh(s)
    /\ Cycled(C, s)
    /\ live' = live \cup {s}
    /\ issued' = issued \cup {s}
    /\ summaries' = summaries \cup {s}
    /\ into' = [x \in Ids |-> IF x \in C THEN s ELSE into[x]]
    /\ UNCHANGED <<entries, rejected, day>>

(***************************************************************************)
(* delete of one memory: its unit, and the edges at it.  The feedback rows *)
(* that name it stay.                                                      *)
(***************************************************************************)
Delete(v) ==
    /\ Call
    /\ v \in live
    /\ live' = live \ {v}
    /\ links' = [x \in Ids |-> IF x = v THEN {} ELSE {e \in links[x] : e.to # v}]
    /\ into' = [into EXCEPT ![v] = None]
    /\ UNCHANGED <<issued, summaries, entries, rejected, day>>

Tick ==
    /\ day < MaxDay
    /\ day' = day + 1
    /\ UNCHANGED <<links, live, issued, into, summaries, entries, rejected, calls>>

Next ==
    \/ \E x \in Ids : Write(x)
    \/ \E U \in SUBSET issued : FeedbackPositive(U)
    \/ \E U \in SUBSET issued : FeedbackRejected(U)
    \/ Consolidate
    \/ \E C \in SUBSET Ids, s \in Ids : ConsolidateCompress(C, s)
    \/ \E v \in Ids : Delete(v)
    \/ Tick

Spec == Init /\ [][Next]_vars

-----------------------------------------------------------------------------
(***************************************************************************)
(* Properties.                                                             *)
(***************************************************************************)
TypeOK ==
    /\ links \in [Ids -> SUBSET Link]
    /\ live \subseteq issued /\ issued \subseteq Ids
    /\ into \in [Ids -> Ids \cup {None}]
    /\ summaries \subseteq issued
    /\ entries \in [Ids -> [Days -> Nat]]
    /\ rejected \subseteq Ids
    /\ day \in Days /\ calls \in 0..MaxCalls

\* Deduplication by (target_id, link_type): two edges of one unit that agree
\* on both were built for different sources and redirected to one summary.
DuplicatesAreRedirected ==
    \A x \in Ids : \A e, f \in links[x] :
        e.to = f.to /\ e.type = f.type /\ e # f =>
            e.orig # e.to /\ f.orig # f.to /\ e.orig # f.orig

\* Node degree: co-activation cannot grow a unit past the larger of what a
\* write may build and what compaction lets stand.
DegreeBounded ==
    \A x \in Ids : Cardinality(links[x]) <= Larger(MaxCandidates, DegreeLimit)

\* A confirmed edge is known by what it was built for: observed edges are
\* never promoted, and a write builds one edge per candidate.
SameEdge(e, f) == e.orig = f.orig /\ e.type = f.type /\ e.obs = f.obs

ConfirmedKept(x) ==
    \A e \in links[x] :
        \/ e.obs
        \/ \E f \in links'[x] : SameEdge(e, f)
        \/ {x, e.to} \cap (live \ live') # {}
        \/ Cardinality(links'[x]) = DegreeLimit

\* Rejection, decay and compaction never destroy a confirmed edge: it goes
\* only with one of its two memories or past the degree limit.
ConfirmedSurvive == [][\A x \in Ids : ConfirmedKept(x)]_vars

ProtectedKept(x) ==
    \A e \in links[x] : \A f \in links'[x] :
        IsProtected(e) /\ SameEdge(e, f) /\ f.lvl < e.lvl =>
            x \in rejected \/ e.to \in rejected

\* A protected edge loses strength only through a rejection that names its
\* owner or its target.
ProtectedHeld == [][\A x \in Ids : ProtectedKept(x)]_vars

\* links contains no self-loop (data-model.md).
NoSelfLoop == \A x \in Ids : \A e \in links[x] : e.to # x
=============================================================================
