----------------------------- MODULE Retrieval -----------------------------
(***************************************************************************)
(* Engine::retrieve: recall of seeds over the channels, reciprocal rank    *)
(* fusion, spreading activation over the association graph, rerank, the    *)
(* question, context and coverage corrections, and the paths recorded for  *)
(* later feedback.  The call reads the store in several transactions;      *)
(* other threads change the store in between (ReadStore).                  *)
(*                                                                         *)
(* Abstractions.  Entities, index keys and words are model values; what    *)
(* the full-text and vector searches return is part of the query.  Every   *)
(* channel list is in descending order of score, so the rank of a hit is   *)
(* its position.  The index reads of one recall are one step.              *)
(***************************************************************************)
EXTENDS ReadStore

CONSTANTS
    SeedPerChannel,  \* seed_per_channel
    FanOut,          \* fan_out_default
    TopK,            \* top_k of the call
    FallbackLimit,   \* units read when no channel hits (50)
    ContextLinks,    \* feature -> set of context links
    Queries          \* the calls: text features, channel inputs, max_hops

\* AlgoParams::default, in thousandths.
DecayFactor == 550
MinEnergy == 50
MergeWeight == 300
QueryMatch == 400
ImportanceCoeff == 600
SeedCap == 1000
RrfK == 1

\* rrf_channel_weight
RrfWeight ==
    [Bm25 |-> 1000, EntityInverted |-> 1000, SemanticDense |-> 1000,
     SemanticBinary |-> 1000, TopicCluster |-> 300, Temporal |-> 300,
     Goal |-> 1000, Event |-> 1000, Causal |-> 1000, RecentActivation |-> 1000]

Channels == DOMAIN RrfWeight
SearchChannels == {"Bm25", "SemanticDense", "SemanticBinary"}
KeyChannels == {"TopicCluster", "Goal", "Event", "Causal"}

ASSUME RetrievalAssumption ==
    /\ {SeedPerChannel, FanOut, TopK, FallbackLimit} \subseteq Nat
    /\ \A x \in Ids : Content[x].explains \in Nat
    /\ \A f \in DOMAIN ContextLinks :
          /\ IsFiniteSet(ContextLinks[f])
          /\ \A l \in ContextLinks[f] : {l.strength, l.reviews, l.days} \subseteq Nat
    /\ Queries # {}
    /\ \A q \in Queries :
          /\ q.hops \in Nat
          /\ IsFiniteSet(q.entities) /\ IsFiniteSet(q.keywords)
          /\ IsFiniteSet(q.features) /\ q.features \subseteq DOMAIN ContextLinks
          /\ \A c \in SearchChannels : q.found[c] \in Seq(Ids)
          /\ \A c \in KeyChannels : q.keys[c] \in Seq(ToSet(q.keys[c]))

VARIABLES
    rpc,       \* where the call is
    query,     \* its input
    fused,     \* fused_scores: id -> fused score, 0 for no seed
    copy,      \* unit_map: id -> lifecycle of the unit as it was loaded
    known,     \* links_map: id -> edges, <<>> when not loaded
    pending,   \* ids whose edges are still to be loaded
    hop, frontier,
    energy,    \* energy_map: id -> energy, 0 as long as it is not expanded
    trace,     \* trace_map: id -> steps from a seed
    reached,   \* expanded ids, in the order of the results list
    results,   \* sequence of [id, score]
    paths      \* RETRIEVAL_PATHS of this retrieval

retrieveVars == <<rpc, query, fused, copy, known, pending, hop, frontier, energy, trace,
                  reached, results, paths>>

RetrieveInit ==
    /\ rpc = IF call = "retrieve" THEN "recall" ELSE "idle"
    /\ query \in (IF call = "retrieve" THEN Queries ELSE {CHOOSE q \in Queries : TRUE})
    /\ fused = [x \in Ids |-> 0]
    /\ copy = [x \in Ids |-> "none"]
    /\ known = [x \in Ids |-> <<>>]
    /\ pending = {} /\ hop = 1 /\ frontier = <<>>
    /\ energy = [x \in Ids |-> 0]
    /\ trace = [x \in Ids |-> <<>>]
    /\ reached = <<>> /\ results = <<>> /\ paths = {}

(***************************************************************************)
(* The channels (steps 2a to 2j).                                          *)
(***************************************************************************)
\* get_topic, get_goal, get_event, get_causal: the posting list of a key.
Posting(c, key) == Ascending({x \in indexed : key \in Content[x].keys[c]})

\* Tier of entity_coverage_score: one covered entity, two, or more.
CoverageTier(k) == CASE k <= 1 -> 200 [] k = 2 -> 350 [] k > 2 -> 500

Covered(x) == Cardinality(Content[x].entities \cap query.entities)

EntityHits ==
    Descending({x \in indexed : Covered(x) > 0},
               [x \in indexed |-> CoverageTier(Covered(x))])

\* The posting lists of the query's keys one after the other: a memory with
\* several of the keys is listed several times.
KeyHits(c) == FoldLeft(LAMBDA hits, key : hits \o Posting(c, key), <<>>, query.keys[c])

TemporalHits == Ascending({x \in indexed : Content[x].hour \div 24 \in query.days})

\* recent_memory_ids and the first eight neighbours of each.
RecentScore(x) ==
    LET own == Cardinality({i \in DOMAIN query.recent : query.recent[i] = x})
        next == MapThenSumSet(
                  LAMBDA i : Cardinality({k \in 1..Lesser(8, Len(row[query.recent[i]])) :
                                             row[query.recent[i]][k].to = x}),
                  DOMAIN query.recent)
    IN  Lesser(Scale, own * 300 + next * 150)

RecentHits == Descending({x \in Ids : RecentScore(x) > 0}, [x \in Ids |-> RecentScore(x)])

\* The full-text and the two vector searches are given with the query.
Hits(c) ==
    CASE c \in SearchChannels -> query.found[c]
      [] c \in KeyChannels -> KeyHits(c)
      [] c = "EntityInverted" -> EntityHits
      [] c = "Temporal" -> TemporalHits
      [] c = "RecentActivation" -> RecentHits

(***************************************************************************)
(* multi_channel_seeds and rrf_fuse: each channel contributes its limit of *)
(* hits, a memory once per channel, at its best rank.                      *)
(***************************************************************************)
ChannelSeeds(c) == SubSeq(Hits(c), 1, Lesser(SeedPerChannel, Len(Hits(c))))

Contribution(c, x) ==
    LET at == {i \in DOMAIN ChannelSeeds(c) : ChannelSeeds(c)[i] = x}
    IN  IF at = {} THEN 0 ELSE RrfWeight[c] \div (RrfK + Min(at) - 1)

RrfFuse == [x \in Ids |-> MapThenSumSet(LAMBDA c : Contribution(c, x), Channels)]

\* A Compressed unit or a summary may not start a traversal or pass energy on.
SeedExcluded(k) == k \in {"compressed", "summary"}

\* The first units of memory_kv, excluded ones filtered out afterwards.
Fallback ==
    LET units == Ascending(Units)
        first == {units[i] : i \in 1..Lesser(FallbackLimit, Len(units))}
    IN  [x \in Ids |-> IF x \in first /\ ~ SeedExcluded(kind[x]) THEN 300 ELSE 0]

RetrieveRecall ==
    /\ rpc = "recall"
    /\ fused' = IF \A c \in Channels : Hits(c) = <<>> THEN Fallback ELSE RrfFuse
    /\ rpc' = "seeds"
    /\ UNCHANGED <<query, copy, known, pending, hop, frontier, energy, trace, reached,
                   results, paths>>

(***************************************************************************)
(* Step 4: units and edges are loaded on demand.                           *)
(***************************************************************************)
Seeds == {x \in Ids : fused[x] > 0}

\* A seed without a unit (a delete has not reached the indexes) stays a seed.
RetrieveLoadSeeds ==
    /\ rpc = "seeds"
    /\ copy' = LoadUnits(Seeds)
    /\ fused' = [x \in Ids |-> IF SeedExcluded(copy'[x]) THEN 0 ELSE fused[x]]
    /\ pending' = {x \in Ids : fused'[x] > 0}
    /\ rpc' = "links"
    /\ UNCHANGED <<query, known, hop, frontier, energy, trace, reached, results, paths>>

\* get_outgoing: a transaction per memory, in the order of a hash map.
LoadRow(x) ==
    /\ known' = [known EXCEPT ![x] = row[x]]
    /\ pending' = pending \ {x}
    /\ UNCHANGED <<rpc, query, fused, copy, hop, frontier, energy, trace, reached,
                   results, paths>>

RetrieveLinks == rpc = "links" /\ \E x \in pending : LoadRow(x)

Targets(links) == {links[i].to : i \in DOMAIN links}
Neighbours == (UNION {Targets(known[x]) : x \in Seeds}) \ Seeds

\* Mutant: the prefetch does not look at the lifecycle.
PrefetchAll ==
    /\ rpc = "links" /\ pending = {}
    /\ copy' = [x \in Ids |-> IF copy[x] = "none" THEN LoadUnits(Neighbours)[x] ELSE copy[x]]
    /\ pending' = Neighbours
    /\ rpc' = "prefetch"
    /\ UNCHANGED <<query, fused, known, hop, frontier, energy, trace, reached,
                   results, paths>>

\* The units of the direct neighbours; excluded ones are dead ends, their edges
\* are not loaded.
RetrieveNeighbours ==
    /\ rpc = "links" /\ pending = {}
    /\ copy' = [x \in Ids |-> IF copy[x] = "none" THEN LoadUnits(Neighbours)[x] ELSE copy[x]]
    /\ pending' = {x \in Neighbours : ~ SeedExcluded(copy'[x])}
    /\ rpc' = "prefetch"
    /\ UNCHANGED <<query, fused, known, hop, frontier, energy, trace, reached,
                   results, paths>>

RetrievePrefetch == rpc = "prefetch" /\ \E x \in pending : LoadRow(x)

(***************************************************************************)
(* Step 5: spread_multi_hop_fused.                                         *)
(***************************************************************************)
SeedEnergy(x) ==
    LET norm == (fused[x] * Scale) \div Max({fused[y] : y \in Ids})
        imp == IF copy[x] = "none" THEN 0 ELSE Importance[x]
    IN  Lesser(SeedCap, Times(Times(norm, QueryMatch), Scale + Times(imp, ImportanceCoeff)))

RetrieveEnergise ==
    /\ rpc = "prefetch" /\ pending = {}
    /\ LET start == {x \in Seeds : SeedEnergy(x) >= MinEnergy}
           inOrder == Descending(start, fused)
       IN  /\ energy' = [x \in Ids |-> IF x \in start THEN SeedEnergy(x) ELSE 0]
           /\ trace' = [x \in Ids |-> IF x \in start THEN <<[from |-> 0, to |-> x]>> ELSE <<>>]
           /\ reached' = inOrder
           /\ frontier' = inOrder
    /\ rpc' = "spread"
    /\ UNCHANGED <<query, fused, copy, known, pending, hop, results, paths>>

\* decay_factor to the power of the hop.
Decay == LET power[n \in Nat] == IF n = 0 THEN Scale ELSE Times(power[n - 1], DecayFactor)
         IN  power

\* propagated_energy
Propagated(e, l, h) ==
    Lesser(Scale, (Times(Times(e, l.w), Decay[h]) * TypeModifier[l.type]) \div 100)

\* Mutant: a further path replaces the energy.
MergeLast(a, b) == b

\* merge_energy
Merge(a, b) == Greater(a, b) + Times(MergeWeight, Lesser(a, b))

\* The strongest fan_out_default edges; ties stay in stored order.
TopLinks(x) ==
    LET at == Descending(DOMAIN known[x], [i \in DOMAIN known[x] |-> known[x][i].w])
    IN  [k \in 1..Lesser(FanOut, Len(at)) |-> known[x][at[k]]]

\* What a node sends in one hop.
Sent(x) ==
    [k \in DOMAIN TopLinks(x) |->
        [from |-> x, to |-> TopLinks(x)[k].to,
         e |-> Propagated(energy[x], TopLinks(x)[k], hop)]]

\* Mutant: nodes already expanded are not skipped.
ArriveAgain(round, a) ==
    LET old == round.e[a.to]
        new == IF old = 0 THEN a.e ELSE Merge(old, a.e)
        steps == Append(trace[a.from], [from |-> a.from, to |-> a.to])
    IN  IF a.e < MinEnergy THEN round
        ELSE [e |-> [round.e EXCEPT ![a.to] = new],
              t |-> [round.t EXCEPT ![a.to] = IF old = 0 \/ new = a.e THEN steps ELSE @]]

\* round_energy and round_traces after one more edge: edges to nodes already
\* expanded and energies below the threshold are skipped.  The trace is replaced
\* only when the merged energy equals the arriving one.
Arrive(round, a) ==
    LET old == round.e[a.to]
        new == IF old = 0 THEN a.e ELSE Merge(old, a.e)
        steps == Append(trace[a.from], [from |-> a.from, to |-> a.to])
    IN  IF energy[a.to] > 0 \/ a.e < MinEnergy THEN round
        ELSE [e |-> [round.e EXCEPT ![a.to] = new],
              t |-> [round.t EXCEPT ![a.to] = IF old = 0 \/ new = a.e THEN steps ELSE @]]

NoArrivals == [e |-> [x \in Ids |-> 0], t |-> [x \in Ids |-> <<>>]]

\* The inner loop of a hop, over the edges of a node.
Send(round, x) == FoldLeft(Arrive, round, Sent(x))

\* Mutant: the loop ends with the first node of the frontier.
RoundOfFirst == Send(NoArrivals, frontier[1])

\* The outer loop, over the frontier.
Round == FoldLeft(Send, NoArrivals, frontier)

SpreadHop ==
    /\ rpc = "spread"
    /\ hop <= query.hops /\ frontier # <<>>
    /\ LET round == Round
           new == Descending({x \in Ids : round.e[x] > 0}, round.e)
       IN  /\ energy' = [x \in Ids |-> IF round.e[x] > 0 THEN round.e[x] ELSE energy[x]]
           /\ trace' = [x \in Ids |-> IF round.e[x] > 0 THEN round.t[x] ELSE trace[x]]
           /\ reached' = reached \o new
           /\ frontier' = new
    /\ hop' = hop + 1
    /\ UNCHANGED <<rpc, query, fused, copy, known, pending, results, paths>>

SpreadStop ==
    /\ rpc = "spread"
    /\ hop > query.hops \/ frontier = <<>>
    /\ rpc' = "extra"
    /\ UNCHANGED <<query, fused, copy, known, pending, hop, frontier, energy, trace, reached,
                   results, paths>>

Activated == {reached[i] : i \in DOMAIN reached}

\* Step 6: units of nodes that only spreading found.
RetrieveExtra ==
    /\ rpc = "extra"
    /\ copy' = [x \in Ids |-> IF copy[x] = "none" THEN LoadUnits(Activated)[x] ELSE copy[x]]
    /\ rpc' = "rank"
    /\ UNCHANGED <<query, fused, known, pending, hop, frontier, energy, trace, reached,
                   results, paths>>

(***************************************************************************)
(* Step 7: the corrections of the score.                                   *)
(***************************************************************************)
\* detect_question_type; the signals are the pattern families in the text.
Question ==
    LET priority == <<"Correction", "Preference", "Why", "How", "What">>
        found == {i \in DOMAIN priority : priority[i] \in query.signals}
    IN  IF found = {} THEN "None" ELSE priority[Min(found)]

\* content_type_boost
TypeBoost ==
    [Correction |-> [Correction |-> 120], Preference |-> [Preference |-> 80, Decision |-> 40],
     Why |-> [Decision |-> 80, TaskState |-> 80], How |-> [TaskState |-> 80],
     What |-> [ProjectKnowledge |-> 150], None |-> <<>>]

Mentions(x, word) == word \in Content[x].words

\* Project knowledge answers "what is X" only if it mentions X.
BoostOfType(x) ==
    IF \/ Content[x].type \notin DOMAIN TypeBoost[Question]
       \/ /\ Question = "What" /\ query.subject # "none"
          /\ ~ Mentions(x, query.subject)
    THEN 0 ELSE TypeBoost[Question][Content[x].type]

BoostOfWords(x) ==
    Lesser(80, 40 * Cardinality({k \in query.keywords : Mentions(x, k)}))

BoostOfDefinition(x) ==
    IF Question = "What" /\ query.subject # "none" /\ Content[x].defines = query.subject
    THEN 50 ELSE 0

BoostOfReason(x) == IF Question = "Why" THEN Lesser(200, Content[x].explains) ELSE 0

\* apply_question_aware_boost: each stage that applies caps the energy.
Boost(e, b) == IF b > 0 THEN Lesser(SeedCap, e + b) ELSE e

Boosted(x) ==
    Boost(Boost(Boost(Boost(energy[x], BoostOfReason(x)), BoostOfType(x)),
                BoostOfWords(x)), BoostOfDefinition(x))

PowerOfTwo == LET power[n \in Nat] == IF n = 0 THEN 1 ELSE 2 * power[n - 1] IN power

\* effective_strength: halved once for every half-life that has passed; the
\* half-life starts at a day and doubles with every review, up to six times.
EffectiveStrength(l) ==
    l.strength \div PowerOfTwo[l.days \div PowerOfTwo[Lesser(l.reviews, 6)]]

\* collect_link_strengths
ContextOf == UNION {ContextLinks[f] : f \in query.features}
ContextStrength(x) == Max({0} \cup {EffectiveStrength(l) : l \in {k \in ContextOf : k.id = x}})

\* The context and the entity coverage correction, in this order.
Score(x) ==
    LET n == Cardinality(query.entities)
        inContext == Times(Boosted(x), Scale + ContextStrength(x) \div 2)
    IN  IF n < 2 THEN inContext ELSE Times(inContext, Scale + (200 * Covered(x)) \div n)

Position(x) == CHOOSE i \in DOMAIN reached : reached[i] = x

\* The corrections sort by id before they sort by score; without them the sorts
\* are stable from the energy order on.
RanksBefore(x, y) ==
    \/ Score(x) > Score(y)
    \/ /\ Score(x) = Score(y)
       /\ IF ContextOf # {} \/ Cardinality(query.entities) >= 2
          THEN x < y
          ELSE \/ energy[x] > energy[y]
               \/ energy[x] = energy[y] /\ Position(x) < Position(y)

\* Mutant: units that are gone are kept.
CandidatesWithGhosts == {x \in Activated : copy[x] # "compressed"}

\* Units that are gone and compressed ones are left out.
Candidates == {x \in Activated : copy[x] \in {"active", "summary"}}

\* Mutant: the list is cut before the compressed units are filtered out.
RankCutFirst ==
    /\ rpc = "rank"
    /\ LET ranked == Ordered({x \in Activated : copy[x] # "none"}, RanksBefore)
           cut == SubSeq(ranked, 1, Lesser(TopK, Len(ranked)))
           kept == SelectSeq(cut, LAMBDA x : x \in Candidates)
       IN  results' = [k \in DOMAIN kept |-> [id |-> kept[k], score |-> Score(kept[k])]]
    /\ paths' = {trace[x][2] : x \in {y \in Activated : Len(trace[y]) > 1}}
    /\ rpc' = "done"
    /\ UNCHANGED <<query, fused, copy, known, pending, hop, frontier, energy, trace, reached>>

\* Mutant: the path recorded leads from the seed to the answer.
RankPathsFromSeed ==
    /\ rpc = "rank"
    /\ LET ranked == Ordered(Candidates, RanksBefore)
       IN  results' = [k \in 1..Lesser(TopK, Len(ranked)) |->
                          [id |-> ranked[k], score |-> Score(ranked[k])]]
    /\ paths' = {[from |-> trace[y][1].to, to |-> y] :
                    y \in {x \in Activated : Len(trace[x]) > 1}}
    /\ rpc' = "done"
    /\ UNCHANGED <<query, fused, copy, known, pending, hop, frontier, energy, trace, reached>>

\* Mutant: the step of a seed, which comes from nowhere, is recorded as a path.
RankPathsOfSeeds ==
    /\ rpc = "rank"
    /\ results' = <<>>
    /\ paths' = {trace[y][1] : y \in Activated}
    /\ rpc' = "done"
    /\ UNCHANGED <<query, fused, copy, known, pending, hop, frontier, energy, trace, reached>>

\* Steps 7 to 10: rank, cut and record the first traversed edge of each trace.
RetrieveRank ==
    /\ rpc = "rank"
    /\ LET ranked == Ordered(Candidates, RanksBefore)
           maxK == Lesser(TopK, Len(reached))
       IN  results' = [k \in 1..Lesser(maxK, Len(ranked)) |->
                          [id |-> ranked[k], score |-> Score(ranked[k])]]
    /\ paths' = {trace[x][2] : x \in {y \in Activated : Len(trace[y]) > 1}}
    /\ rpc' = "done"
    /\ UNCHANGED <<query, fused, copy, known, pending, hop, frontier, energy, trace, reached>>

RetrieveStep ==
    \/ RetrieveRecall
    \/ RetrieveLoadSeeds
    \/ RetrieveLinks
    \/ RetrieveNeighbours
    \/ RetrievePrefetch
    \/ RetrieveEnergise
    \/ SpreadHop
    \/ SpreadStop
    \/ RetrieveExtra
    \/ RetrieveRank

RetrieveReads == {"recall", "seeds", "links", "prefetch", "extra"}

(***************************************************************************)
(* Properties                                                              *)
(***************************************************************************)
HopOf(x) == Len(trace[x]) - 1
Spread == rpc \in {"extra", "rank", "done"}

RetrieveTypeOK ==
    /\ query \in Queries
    /\ fused \in [Ids -> Nat] /\ energy \in [Ids -> Nat]
    /\ copy \in [Ids -> Kinds]
    /\ pending \subseteq Ids
    /\ \A x \in Ids : known[x] \in Seq(Link)
    /\ \A x \in Ids : trace[x] \in Seq([from : Ids \cup {0}, to : Ids])
    /\ reached \in Seq(Ids) /\ frontier \in Seq(Ids) /\ hop \in Nat
    /\ results \in Seq([id : Ids, score : Nat])
    /\ paths \subseteq [from : Ids, to : Ids]

\* Every activation trace is a simple path: it starts at a seed, goes on along
\* edges within the fan-out of the node before, visits no node twice, ends at
\* the node it explains and is no longer than max_hops (cycle elimination of
\* spread_multi_hop_fused over several rounds).
TracesArePaths ==
    \A x \in Activated :
        LET t == trace[x] IN
        /\ t # <<>> /\ Last(t).to = x /\ HopOf(x) <= query.hops
        /\ t[1].from = 0 /\ t[1].to \in Seeds
        /\ \A i \in 2..Len(t) : /\ t[i].from = t[i - 1].to
                                /\ t[i].to \in Targets(TopLinks(t[i].from))
        /\ \A i, j \in DOMAIN t : i # j => t[i].to # t[j].to

\* Compressed sources and summaries neither start a traversal nor pass energy
\* on: they occur at the end of a trace only (the F3/B1 exclusions), whatever
\* other threads compress, delete or write between the reads of the call.  The
\* one exception is a memory that had no unit when the call looked and got one
\* while it ran, as by a thread that puts a deleted memory back.
NoEnergyThroughExcluded ==
    \A x \in Activated : \A i \in 1..HopOf(x) :
        SeedExcluded(copy[trace[x][i].to]) => trace[x][i].to \in appeared

\* Spreading leaves nothing out: what a node sends along an edge within its
\* fan-out, above the threshold and within max_hops, has activated its target
\* no later than one hop after the node.
SpreadClosed ==
    Spread =>
      \A x \in Activated : \A k \in DOMAIN TopLinks(x) :
          LET l == TopLinks(x)[k] IN
          /\ HopOf(x) < query.hops
          /\ Propagated(energy[x], l, HopOf(x) + 1) >= MinEnergy
          => l.to \in Activated /\ HopOf(l.to) <= HopOf(x) + 1

\* The edges that carried energy to x, in the round x was reached.
Inflow(x) ==
    {p \in Activated \X (1..FanOut) :
        /\ HopOf(p[1]) = HopOf(x) - 1
        /\ p[2] \in DOMAIN TopLinks(p[1]) /\ TopLinks(p[1])[p[2]].to = x
        /\ Propagated(energy[p[1]], TopLinks(p[1])[p[2]], HopOf(x)) >= MinEnergy}

\* Merging is independent of the order of the arrivals up to these bounds: a
\* node that spreading found holds at least the best single path's energy and
\* at most the sum over all of them, never less for being reached once more.
MergedWithinBounds ==
    Spread =>
      \A x \in Activated :
          LET amount(c) == Propagated(energy[c[1]], TopLinks(c[1])[c[2]], HopOf(x))
          IN  HopOf(x) > 0 =>
                /\ Inflow(x) # {}
                /\ energy[x] >= Max({amount(c) : c \in Inflow(x)})
                /\ energy[x] <= MapThenSumSet(amount, Inflow(x))

\* The answer is the top_k best of the activated memories that are neither gone
\* nor compressed: best first, none twice, and one left out only if top_k better
\* or equal ones were returned (the cut comes after the filters).
ResultsRanked ==
    rpc = "done" =>
      LET ids == {results[k].id : k \in DOMAIN results} IN
      /\ Cardinality(ids) = Len(results) /\ Len(results) <= TopK
      /\ \A k \in 2..Len(results) : results[k - 1].score >= results[k].score
      /\ \A x \in Candidates \ ids :
            Len(results) = TopK /\ \A k \in DOMAIN results : results[k].score >= Score(x)

\* A memory that was deleted or compressed before the call is not returned,
\* although index entries and edges may still lead to it: a call returns no more
\* dead memories than memories died while it ran.
StaleOnlyByRace ==
    rpc = "done" =>
      Cardinality({k \in DOMAIN results : kind[results[k].id] \in {"none", "compressed"}})
         <= changes

\* What feedback will strengthen are edges that carried energy: every recorded
\* path is an edge that was traversed, and the guide of every answer one hop
\* from a seed is recorded.
PathsAreTraversed ==
    rpc = "done" =>
      /\ \A p \in paths : p.from \in Activated /\ p.to \in Targets(TopLinks(p.from))
      /\ \A k \in DOMAIN results :
            HopOf(results[k].id) = 1 => \E p \in paths : p.to = results[k].id

=============================================================================
