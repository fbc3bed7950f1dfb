----------------------------- MODULE Association -----------------------------
(***************************************************************************)
(* How a write finds the memories to link the new one to: it looks the new *)
(* memory's keys up in the inverted indexes, loads the units it found one  *)
(* by one, keeps those whose text is most alike and scores each of them    *)
(* over the dimensions they share (discover_candidates, raw_to_indexed,    *)
(* associate_score, build_edges).  MemoryEngine takes any set of edges as  *)
(* the outcome and models what the store transaction does with it.         *)
(*                                                                         *)
(* Signatures are hashes of the text: the similarity of two texts is an    *)
(* input.  The edges of a write are a set; their order is the order of     *)
(* lexical similarity, which no part of this module looks at.              *)
(***************************************************************************)
EXTENDS ReadStore

CONSTANTS
    Fresh,           \* memories to write: [entities, topics, causal, hour, context, signal, lexical, binary]
    Contexts,        \* id -> the conversation, session, project and task it was written in
    MaxCandidates,   \* candidates scored for one write (30)
    ColdStartCount   \* cold_start_count

ASSUME AssociationAssumption ==
    /\ MaxCandidates \in Nat \ {0} /\ ColdStartCount \in Nat \ {0}
    /\ Fresh # {}
    /\ \A f \in Fresh :
          /\ IsFiniteSet(f.entities) /\ IsFiniteSet(f.topics) /\ IsFiniteSet(f.causal)
          /\ f.hour \in Int
          /\ f.lexical \in [Ids -> 0..Scale] /\ f.binary \in [Ids -> 0..Scale]
    /\ \A x \in Ids :
          /\ IsFiniteSet(Content[x].entities) /\ IsFiniteSet(Content[x].keys.TopicCluster)
          /\ IsFiniteSet(Content[x].keys.Causal)

\* AlgoParams::default and EdgeBuildParams, in thousandths.
MultiDimBonus == 150
MultiDimMinDims == 3
SingleSemanticPenalty == 600
EdgeBuildMinScore == 250
ObservationEnterMax == 550
LexicalHit == 700

ContextFields == {"conversation", "session", "project", "task"}

\* MatchDimension, as far as discover_candidates reports it.
KeyDimensions == {"Entity", "Topic", "Temporal", "Goal", "Event", "Causal", "Emotion"}
Dimensions == KeyDimensions \cup {"Semantic"}

VARIABLES
    apc,       \* where the write is
    fresh,     \* the memory it writes
    found,     \* candidate ids still to load
    existing,  \* the units loaded: [id, links]
    built     \* the edges built: [to, type, strength, dims, observing]

associateVars == <<apc, fresh, found, existing, built>>

AssociateInit ==
    /\ apc = IF call = "write" THEN "discover" ELSE "idle"
    /\ fresh \in (IF call = "write" THEN Fresh ELSE {CHOOSE f \in Fresh : TRUE})
    /\ found = {} /\ existing = {} /\ built = {}

(***************************************************************************)
(* Candidates.                                                             *)
(***************************************************************************)
\* generate_keys.  The immediate extraction yields no goals and no events, and
\* there are no emotion keys; enrichment adds goal and event keys to the inverted
\* indexes, not to the unit.
GenerateKeys(entities, topics, causal, hour) ==
    [Entity |-> entities, Topic |-> topics, Causal |-> causal, Temporal |-> BucketKeys(hour),
     Goal |-> {}, Event |-> {}, Emotion |-> {}]

FreshKeys == GenerateKeys(fresh.entities, fresh.topics, fresh.causal, fresh.hour)
KeysOf(x) == GenerateKeys(Content[x].entities, Content[x].keys.TopicCluster,
                          Content[x].keys.Causal, Content[x].hour)

Shared(x) == [d \in KeyDimensions |-> FreshKeys[d] \cap KeysOf(x)[d]]


\* discover_candidates of write_api.rs: entity, topic and temporal postings.
Discover ==
    {x \in indexed : \E d \in {"Entity", "Topic", "Temporal"} : Shared(x)[d] # {}}

Jaccard(x, d) ==
    LET all == FreshKeys[d] \cup KeysOf(x)[d]
    IN  IF all = {} THEN 0 ELSE (Scale * Cardinality(Shared(x)[d])) \div Cardinality(all)

\* The dimensions of a candidate: a shared key, or two texts that are alike and
\* not empty.
MatchedDimensions(x) ==
    {d \in KeyDimensions : Shared(x)[d] # {}} \cup
    {d \in {"Semantic"} : fresh.signal /\ Content[x].signal /\ fresh.lexical[x] > LexicalHit}

\* context_shared_ratio: of the fields either memory has, those that agree.
ContextSharedRatio(a, b) ==
    LET given == {k \in ContextFields : a[k] # "none" \/ b[k] # "none"}
    IN  IF given = {} THEN 0
        ELSE (Scale * Cardinality({k \in given : a[k] = b[k]})) \div Cardinality(given)

\* overlap_ratio: shared keys over the number of matched dimensions.
OverlapRatio(overlap, n) == Lesser(Scale, (Scale * overlap) \div Greater(n, 1))

\* discover_candidates of candidates.rs with what raw_to_indexed fills in; the
\* overlaps are kept as the ratios associate_score makes of them.
CandidateResult(x) ==
    LET dims == MatchedDimensions(x)
        ratio(d) == OverlapRatio(Cardinality(Shared(x)[d]), Cardinality(dims))
    IN  [dims |-> dims,
         Entity |-> Jaccard(x, "Entity"), Topic |-> Jaccard(x, "Topic"),
         Goal |-> Jaccard(x, "Goal"), Event |-> Jaccard(x, "Event"),
         Temporal |-> ratio("Temporal"), Causal |-> ratio("Causal"), Emotion |-> ratio("Emotion"),
         importance |-> Importance[x],
         context |-> ContextSharedRatio(fresh.context, Contexts[x]),
         lexical |-> fresh.lexical[x], binary |-> fresh.binary[x]]

(***************************************************************************)
(* Scores and edges.                                                       *)
(***************************************************************************)
ColdStartFactor(total) ==
    CASE total < ColdStartCount -> SingleSemanticPenalty
      [] total >= 2 * ColdStartCount -> Scale
      [] OTHER -> SingleSemanticPenalty
                    + ((Scale - SingleSemanticPenalty) * (total - ColdStartCount)) \div ColdStartCount

WeightedSum(c) ==
    Times(200, c.Entity) + Times(100, c.Topic) + Times(120, c.Goal) + Times(100, c.Event)
      + Times(100, c.Temporal) + Times(100, c.Causal) + Times(50, c.Emotion)
      + Times(20, c.importance) + Times(30, c.context)

TextScore(c) == IF c.dims = {} THEN 0 ELSE Times(180, c.lexical) + Times(100, c.binary)

\* Mutant: the bonus is given from the first matched dimension on.
BonusFromOne(c) == IF Cardinality(c.dims) >= 1 THEN MultiDimBonus ELSE 0

Bonus(c) == IF Cardinality(c.dims) >= MultiDimMinDims THEN MultiDimBonus ELSE 0

AssociateScore(c, total) ==
    LET raw == WeightedSum(c) + TextScore(c) + Bonus(c)
    IN  Lesser(Scale, IF c.dims = {"Semantic"} THEN Times(raw, ColdStartFactor(total)) ELSE raw)

DetermineLinkType(dims) ==
    CASE "Causal" \in dims -> "Causal"
      [] "Entity" \in dims -> "EntityOverlap"
      [] "Temporal" \in dims -> "TemporalAdjacent"
      [] "Topic" \in dims -> "TopicRelated"
      [] "Goal" \in dims -> "SameGoal"
      [] "Event" \in dims -> "SameEvent"
      [] OTHER -> "SemanticSimilar"

\* build_edges: no edge below the least score, none when the candidate has an
\* edge of that type to itself (the test reads the candidate's links).
BuildEdges(u, total) ==
    LET c == CandidateResult(u.id)
        score == AssociateScore(c, total)
        type == DetermineLinkType(c.dims)
    IN  {e \in {[to |-> u.id, type |-> type, strength |-> score, dims |-> c.dims,
                 observing |-> score <= ObservationEnterMax]} :
           /\ score >= EdgeBuildMinScore
           /\ \A i \in DOMAIN u.links : ~(u.links[i].to = u.id /\ u.links[i].type = type)}

(***************************************************************************)
(* The steps of the write.                                                 *)
(***************************************************************************)
AssociateDiscover ==
    /\ apc = "discover"
    /\ found' = Discover
    /\ apc' = "load"
    /\ UNCHANGED <<fresh, existing, built>>

\* load_memory_units: a transaction per unit, in the order of a hash set; a unit
\* that is gone is passed over.
AssociateLoad ==
    /\ apc = "load"
    /\ \E x \in found :
          /\ found' = found \ {x}
          /\ existing' = existing \cup {u \in {[id |-> x, links |-> row[x]]} : kind[x] # "none"}
    /\ UNCHANGED <<apc, fresh, built>>

\* raw_to_indexed: the MaxCandidates candidates whose text is most alike, equals
\* in any order, and the edge of each.
AssociateBuild ==
    /\ apc = "load" /\ found = {}
    /\ \E K \in SUBSET existing :
          /\ Cardinality(K) = Lesser(MaxCandidates, Cardinality(existing))
          /\ \A u \in K, v \in existing \ K : fresh.lexical[u.id] >= fresh.lexical[v.id]
          /\ built' = UNION {BuildEdges(u, Cardinality(existing) + 1) : u \in K}
    /\ apc' = "done"
    /\ UNCHANGED <<fresh, found, existing>>

AssociateStep == AssociateDiscover \/ AssociateLoad \/ AssociateBuild

AssociateTypeOK ==
    /\ apc \in {"idle", "discover", "load", "done"}
    /\ found \subseteq Ids
    /\ {u.id : u \in existing} \subseteq Ids
    /\ \A e \in built : e.strength \in EdgeBuildMinScore..Scale /\ e.dims \subseteq Dimensions

\* Every edge rests on an entity, a topic or a time bucket the two memories share,
\* so likeness of the texts alone never links two memories; and an edge skips the
\* observation zone only when two dimensions or more agree, whatever the
\* importance, the context and the signatures add to the score.
EdgesCorroborated ==
    \A e \in built :
      /\ e.dims \cap {"Entity", "Topic", "Temporal"} # {}
      /\ ~e.observing => \A d \in e.dims : e.dims # {d}
=============================================================================
