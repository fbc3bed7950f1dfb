--------------------------- MODULE ReadCallsProofs ---------------------------
(***************************************************************************)
(* What holds of the reading calls for every store and every interleaving  *)
(* with the other threads: of the edges a write builds, of the pages of a  *)
(* listing, of the temporal query parser and of a traversal.               *)
(* RetrievalProofs goes on with retrieve.                                  *)
(*                                                                         *)
(* The model folds over sequences and sets as the code loops.  What a fold *)
(* computes is proved by induction, stated here with sets (NatInduct,      *)
(* SubsetInduct) and as the sequence of the values after each pass.        *)
(***************************************************************************)
EXTENDS ReadCalls, FiniteSetTheorems, WellFoundedInduction, TLAPS

(***************************************************************************)
(* The edges of a write.  A candidate that shares one dimension alone      *)
(* cannot score above the threshold for active edges, by the weights and   *)
(* the bounds of the parts of its score.                                   *)
(***************************************************************************)
\* A ratio of thousandths does not exceed the whole.
LEMMA RatioBound ==
    ASSUME NEW a \in Nat, NEW b \in Nat, b > 0, a <= b
    PROVE  (Scale * a) \div b \in Int /\ (Scale * a) \div b <= Scale
  <1> DEFINE q == (1000 * a) \div b
  <1>1. q \in Int /\ q * b <= 1000 * a
    OBVIOUS
  <1>2. q <= 1000
    <2>1. 1000 * a <= 1000 * b  OBVIOUS
    <2>2. q * b <= 1000 * b  BY <1>1, <2>1
    <2> HIDE DEF q
    <2>3. QED  BY <1>1, <2>2
  <1> QED  BY <1>1, <1>2 DEF Scale

\* A product of thousandths is at most its first factor.
LEMMA TimesBound ==
    ASSUME NEW a \in Nat, NEW c \in Int, c <= Scale
    PROVE  Times(a, c) \in Int /\ Times(a, c) <= a
  <1>1. a * c <= a * 1000
    BY DEF Scale
  <1>2. a * c \in Int
    OBVIOUS
  <1> DEFINE p == a * c
  <1>3. p \in Int /\ p <= a * 1000
    BY <1>1, <1>2
  <1> HIDE DEF p
  <1>4. p \div 1000 \in Int /\ p \div 1000 <= a
    BY <1>3
  <1> QED  BY <1>4 DEF Times, Scale, p

\* A part of a finite set, as a ratio of the whole.
LEMMA PartBound ==
    ASSUME NEW A, NEW B, IsFiniteSet(B), A \subseteq B, B # {}
    PROVE  /\ (Scale * Cardinality(A)) \div Cardinality(B) \in Int
           /\ (Scale * Cardinality(A)) \div Cardinality(B) <= Scale
  <1>1. IsFiniteSet(A) /\ Cardinality(A) <= Cardinality(B)
    BY FS_Subset
  <1>2. Cardinality(A) \in Nat /\ Cardinality(B) \in Nat /\ Cardinality(B) # 0
    BY <1>1, FS_CardinalityType, FS_EmptySet
  <1>3. Cardinality(B) > 0
    BY <1>2
  <1> QED  BY <1>1, <1>2, <1>3, RatioBound

\* The keys of a memory are finitely many.
LEMMA KeysFinite ==
    ASSUME fresh \in Fresh, NEW x \in Ids, NEW d \in KeyDimensions
    PROVE  IsFiniteSet(FreshKeys[d]) /\ IsFiniteSet(KeysOf(x)[d])
  <1>1. \A h : IsFiniteSet(BucketKeys(h))
    <2> TAKE h
    <2>1. IsFiniteSet({}) /\ IsFiniteSet({h}) /\ IsFiniteSet({h \div 24}) /\ IsFiniteSet({h \div 168})
      BY FS_EmptySet, FS_Singleton
    <2>2. BucketKeys(h) = ({h} \cup {h \div 24}) \cup {h \div 168}
      BY DEF BucketKeys
    <2>3. IsFiniteSet({h} \cup {h \div 24})
      BY <2>1, FS_Union
    <2>4. IsFiniteSet(({h} \cup {h \div 24}) \cup {h \div 168})
      BY <2>1, <2>3, FS_Union
    <2> QED  BY <2>2, <2>4
  <1>2. IsFiniteSet({})
    BY FS_EmptySet
  <1>3. /\ IsFiniteSet(fresh.entities) /\ IsFiniteSet(fresh.topics) /\ IsFiniteSet(fresh.causal)
        /\ IsFiniteSet(Content[x].entities) /\ IsFiniteSet(Content[x].keys.TopicCluster)
        /\ IsFiniteSet(Content[x].keys.Causal)
    BY AssociationAssumption
  <1>4. ASSUME NEW e, NEW t, NEW c, NEW h, IsFiniteSet(e), IsFiniteSet(t), IsFiniteSet(c)
        PROVE  IsFiniteSet(GenerateKeys(e, t, c, h)[d])
    <2>1. IsFiniteSet(BucketKeys(h))
      BY <1>1
    <2> QED  BY <2>1, <1>2, <1>4 DEF GenerateKeys, KeyDimensions
  <1> QED  BY <1>3, <1>4 DEF FreshKeys, KeysOf

\* A Jaccard similarity is at most one.
LEMMA JaccardBound ==
    ASSUME fresh \in Fresh, NEW x \in Ids, NEW d \in KeyDimensions
    PROVE  /\ Jaccard(x, d) \in Int /\ Jaccard(x, d) <= Scale
           /\ Shared(x)[d] = {} => Jaccard(x, d) = 0
  <1> DEFINE all == FreshKeys[d] \cup KeysOf(x)[d]
             common == Shared(x)[d]
  <1>1. common \subseteq all
    BY DEF Shared
  <1>2. IsFiniteSet(all)
    BY KeysFinite, FS_Union
  <1>3. Jaccard(x, d) = IF all = {} THEN 0 ELSE (Scale * Cardinality(common)) \div Cardinality(all)
    BY DEF Jaccard
  <1> HIDE DEF all, common
  <1>4. CASE all = {}
    BY <1>3, <1>4 DEF Scale, common
  <1>5. CASE all # {}
    <2>1. Jaccard(x, d) \in Int /\ Jaccard(x, d) <= Scale
      BY <1>1, <1>2, <1>3, <1>5, PartBound
    <2>2. ASSUME common = {} PROVE Jaccard(x, d) = 0
      <3>1. Cardinality(common) = 0 /\ Cardinality(all) \in Nat /\ Cardinality(all) # 0
        BY <1>2, <1>5, <2>2, FS_EmptySet, FS_CardinalityType
      <3> QED  BY <1>3, <1>5, <3>1 DEF Scale
    <2> QED  BY <2>1, <2>2 DEF common
  <1> QED  BY <1>4, <1>5

\* So is the likeness of two contexts,
LEMMA ContextBound ==
    ASSUME NEW a, NEW b
    PROVE  ContextSharedRatio(a, b) \in Int /\ ContextSharedRatio(a, b) <= Scale
  <1> DEFINE given == {k \in ContextFields : a[k] # "none" \/ b[k] # "none"}
             same == {k \in given : a[k] = b[k]}
  <1>1. IsFiniteSet(ContextFields)
    <2>1. ContextFields = ({"conversation"} \cup {"session"}) \cup ({"project"} \cup {"task"})
      BY DEF ContextFields
    <2> QED  BY <2>1, FS_Singleton, FS_Union
  <1>2. IsFiniteSet(given)
    BY <1>1, FS_Subset
  <1>3. same \subseteq given
    OBVIOUS
  <1>4. ContextSharedRatio(a, b) =
          IF given = {} THEN 0 ELSE (Scale * Cardinality(same)) \div Cardinality(given)
    BY DEF ContextSharedRatio
  <1> HIDE DEF given, same
  <1> QED  BY <1>2, <1>3, <1>4, PartBound DEF Scale

\* and an overlap of words.
LEMMA OverlapBound ==
    ASSUME NEW k \in Nat, NEW n \in Nat
    PROVE  /\ OverlapRatio(k, n) \in Int /\ OverlapRatio(k, n) <= Scale
           /\ k = 0 => OverlapRatio(k, n) = 0
  <1> PICK g \in Nat : g = Greater(n, 1) /\ g > 0
    BY DEF Greater
  <1>1. (1000 * k) \div g \in Int /\ (k = 0 => (1000 * k) \div g = 0)
    OBVIOUS
  <1> QED  BY <1>1 DEF OverlapRatio, Lesser, Scale

\* A candidate found through an entity, a topic or a time bucket.
Grounded(x) == \E d \in {"Entity", "Topic", "Temporal"} : Shared(x)[d] # {}

\* The number of shared keys of a dimension, 0 for none.
LEMMA SharedCount ==
    ASSUME fresh \in Fresh, NEW x \in Ids, NEW d \in KeyDimensions
    PROVE  /\ Cardinality(Shared(x)[d]) \in Nat
           /\ Shared(x)[d] = {} => Cardinality(Shared(x)[d]) = 0
  <1>1. Shared(x)[d] \subseteq FreshKeys[d] /\ IsFiniteSet(FreshKeys[d])
    BY KeysFinite DEF Shared
  <1> QED  BY <1>1, FS_Subset, FS_CardinalityType, FS_EmptySet

\* A candidate that agrees in one dimension alone scores 530 at most: 250 for the
\* dimension, the importance and the context, 280 for the likeness of the texts.
LEMMA LoneScore ==
    ASSUME fresh \in Fresh, NEW x \in Ids, Grounded(x), NEW total,
           NEW d, MatchedDimensions(x) = {d}
    PROVE  AssociateScore(CandidateResult(x), total) <= ObservationEnterMax
  <1> PICK c : c = CandidateResult(x)
    OBVIOUS
  <1>1. d \in {"Entity", "Topic", "Temporal"}
    BY DEF Grounded, MatchedDimensions, KeyDimensions
  <1>2. \A e \in KeyDimensions \ {d} : Shared(x)[e] = {}
    BY DEF MatchedDimensions
  <1>3. Cardinality(MatchedDimensions(x)) = 1
    BY FS_Singleton
  <1>4. /\ c.dims = {d}
        /\ c.Entity = Jaccard(x, "Entity") /\ c.Topic = Jaccard(x, "Topic")
        /\ c.Goal = Jaccard(x, "Goal") /\ c.Event = Jaccard(x, "Event")
        /\ c.Temporal = OverlapRatio(Cardinality(Shared(x)["Temporal"]), 1)
        /\ c.Causal = OverlapRatio(Cardinality(Shared(x)["Causal"]), 1)
        /\ c.Emotion = OverlapRatio(Cardinality(Shared(x)["Emotion"]), 1)
        /\ c.importance = Importance[x]
        /\ c.context = ContextSharedRatio(fresh.context, Contexts[x])
        /\ c.lexical = fresh.lexical[x] /\ c.binary = fresh.binary[x]
    BY <1>3 DEF CandidateResult
  <1>5. /\ c.importance \in Int /\ c.importance <= Scale
        /\ c.lexical \in Int /\ c.lexical <= Scale
        /\ c.binary \in Int /\ c.binary <= Scale
    <2>1. /\ Importance \in [Ids -> 0..Scale]
          /\ fresh.lexical \in [Ids -> 0..Scale] /\ fresh.binary \in [Ids -> 0..Scale]
      BY ReadStoreAssumption, AssociationAssumption
    <2>2. Importance[x] \in 0..Scale /\ fresh.lexical[x] \in 0..Scale /\ fresh.binary[x] \in 0..Scale
      BY <2>1
    <2>3. \A v : v \in 0..Scale => v \in Int /\ v <= Scale
      BY DEF Scale
    <2>4. c.importance \in 0..Scale /\ c.lexical \in 0..Scale /\ c.binary \in 0..Scale
      BY <1>4, <2>2, Zenon
    <2> QED  BY <2>3, <2>4, Zenon
  <1>6. c.context \in Int /\ c.context <= Scale
    BY <1>4, ContextBound
  <1>7. /\ c.Entity \in Int /\ c.Entity <= Scale /\ (d # "Entity" => c.Entity = 0)
        /\ c.Topic \in Int /\ c.Topic <= Scale /\ (d # "Topic" => c.Topic = 0)
        /\ c.Goal = 0 /\ c.Event = 0
    <2>1. {"Entity", "Topic", "Goal", "Event"} \subseteq KeyDimensions
      BY DEF KeyDimensions
    <2> QED  BY <1>1, <1>2, <1>4, <2>1, JaccardBound
  <1>8. /\ c.Temporal \in Int /\ c.Temporal <= Scale /\ (d # "Temporal" => c.Temporal = 0)
        /\ c.Causal = 0 /\ c.Emotion = 0
    <2>1. {"Temporal", "Causal", "Emotion"} \subseteq KeyDimensions
      BY DEF KeyDimensions
    <2> QED  BY <1>1, <1>2, <1>4, <2>1, SharedCount, OverlapBound
  <1>9. Times(120, 0) = 0 /\ Times(100, 0) = 0 /\ Times(50, 0) = 0 /\ Times(200, 0) = 0
    BY DEF Times, Scale
  <1>10. /\ Times(200, c.Entity) \in Int /\ Times(200, c.Entity) <= 200
         /\ Times(100, c.Topic) \in Int /\ Times(100, c.Topic) <= 100
         /\ Times(100, c.Temporal) \in Int /\ Times(100, c.Temporal) <= 100
         /\ Times(20, c.importance) \in Int /\ Times(20, c.importance) <= 20
         /\ Times(30, c.context) \in Int /\ Times(30, c.context) <= 30
         /\ Times(180, c.lexical) \in Int /\ Times(180, c.lexical) <= 180
         /\ Times(100, c.binary) \in Int /\ Times(100, c.binary) <= 100
    BY <1>5, <1>6, <1>7, <1>8, TimesBound
  <1>11. WeightedSum(c) \in Int /\ WeightedSum(c) <= 250
    BY <1>1, <1>7, <1>8, <1>9, <1>10 DEF WeightedSum
  <1>12. TextScore(c) \in Int /\ TextScore(c) <= 280
    BY <1>4, <1>10 DEF TextScore
  <1>13. Bonus(c) = 0
    BY <1>3, <1>4 DEF Bonus, MultiDimMinDims
  <1>14. AssociateScore(c, total) = Lesser(Scale, WeightedSum(c) + TextScore(c) + Bonus(c))
    BY <1>1, <1>4 DEF AssociateScore
  <1> QED  BY <1>11, <1>12, <1>13, <1>14 DEF Lesser, Scale, ObservationEnterMax

\* What the steps of the write keep: the candidates share a key with the new memory.
AssociateInv ==
    /\ fresh \in Fresh
    /\ indexed \subseteq Ids
    /\ \A x \in found : x \in Ids /\ Grounded(x)
    /\ \A u \in existing : u.id \in Ids /\ Grounded(u.id)
    /\ EdgesCorroborated

\* It holds at the start.
LEMMA AssociateInvInit == Init => AssociateInv
  <1> SUFFICES ASSUME Init PROVE AssociateInv
    OBVIOUS
  <1>1. fresh \in Fresh
    BY AssociationAssumption DEF Init, AssociateInit
  <1>2. indexed \subseteq Ids
    BY StoresAssumption DEF Init
  <1> QED  BY <1>1, <1>2 DEF Init, AssociateInit, AssociateInv, EdgesCorroborated

\* Other calls leave what the write has gathered alone.
LEMMA AssociateInvOther ==
    ASSUME AssociateInv, UNCHANGED associateVars, indexed' \subseteq Ids
    PROVE  AssociateInv'
  <1>1. fresh' = fresh /\ found' = found /\ existing' = existing /\ built' = built
    BY DEF associateVars
  <1>2. \A x : Grounded(x)' = Grounded(x)
    BY <1>1 DEF Grounded, Shared, FreshKeys, KeysOf
  <1> QED  BY <1>1, <1>2 DEF AssociateInv, EdgesCorroborated

\* Other threads write to the indexes ids alone.
LEMMA StoreStepIndexed ==
    ASSUME indexed \subseteq Ids, StoreStep
    PROVE  indexed' \subseteq Ids
  <1> PICK x \in Ids : Write(x) \/ Forget(x) \/ Unindex(x) \/ Put(x) \/ PutRow(x)
    BY DEF StoreStep
  <1> QED  BY DEF Write, Forget, Unindex, Put, PutRow

\* The edges built are from such candidates.
LEMMA AssociateInvBuild ==
    ASSUME AssociateInv, AssociateBuild, UNCHANGED storeVars
    PROVE  AssociateInv'
  <1>1. fresh' = fresh /\ found' = found /\ existing' = existing /\ indexed' = indexed
    BY DEF AssociateBuild, storeVars
  <1>2. \A x : Grounded(x)' = Grounded(x)
    BY <1>1 DEF Grounded, Shared, FreshKeys, KeysOf
  <1>3. PICK K \in SUBSET existing :
            built' = UNION {BuildEdges(u, Cardinality(existing) + 1) : u \in K}
    BY DEF AssociateBuild
  <1>4. ASSUME NEW u \in K, NEW total, NEW e \in BuildEdges(u, total)
        PROVE  /\ e.dims \cap {"Entity", "Topic", "Temporal"} # {}
               /\ ~e.observing => \A d \in e.dims : e.dims # {d}
    <2>1. u.id \in Ids /\ Grounded(u.id) /\ fresh \in Fresh
      BY DEF AssociateInv
    <2>2. /\ e.dims = CandidateResult(u.id).dims
          /\ e.observing = (AssociateScore(CandidateResult(u.id), total) <= ObservationEnterMax)
      BY <1>4 DEF BuildEdges
    <2>3. e.dims = MatchedDimensions(u.id)
      BY <2>2 DEF CandidateResult
    <2>4. e.dims \cap {"Entity", "Topic", "Temporal"} # {}
      BY <2>1, <2>3 DEF Grounded, MatchedDimensions, KeyDimensions
    <2>5. ASSUME NEW d, e.dims = {d} PROVE e.observing
      BY <2>1, <2>2, <2>3, <2>5, LoneScore
    <2> QED  BY <2>4, <2>5
  <1>5. EdgesCorroborated'
    BY <1>3, <1>4 DEF EdgesCorroborated
  <1> QED  BY <1>1, <1>2, <1>5 DEF AssociateInv

\* Every step of the write keeps it,
LEMMA AssociateInvStep ==
    ASSUME AssociateInv, AssociateStep, UNCHANGED storeVars
    PROVE  AssociateInv'
  <1>0. indexed' = indexed
    BY DEF storeVars
  <1>1. CASE AssociateDiscover
    <2>1. fresh' = fresh /\ found' = Discover /\ existing' = existing /\ built' = built
      BY <1>1 DEF AssociateDiscover
    <2>2. \A x : Grounded(x)' = Grounded(x)
      BY <2>1 DEF Grounded, Shared, FreshKeys, KeysOf
    <2>3. \A x \in Discover : x \in Ids /\ Grounded(x)
      BY DEF Discover, AssociateInv, Grounded
    <2> QED  BY <1>0, <2>1, <2>2, <2>3 DEF AssociateInv, EdgesCorroborated
  <1>2. CASE AssociateLoad
    <2>1. fresh' = fresh /\ built' = built
      BY <1>2 DEF AssociateLoad
    <2>2. \A x : Grounded(x)' = Grounded(x)
      BY <2>1 DEF Grounded, Shared, FreshKeys, KeysOf
    <2>3. PICK x \in found :
            /\ found' = found \ {x}
            /\ existing' = existing \cup {u \in {[id |-> x, links |-> row[x]]} : kind[x] # "none"}
      BY <1>2 DEF AssociateLoad
    <2>4. \A u \in existing' : u \in existing \/ u.id = x
      BY <2>3
    <2> QED  BY <1>0, <2>1, <2>2, <2>3, <2>4 DEF AssociateInv, EdgesCorroborated
  <1>3. CASE AssociateBuild
    BY <1>3, AssociateInvBuild
  <1> QED  BY <1>1, <1>2, <1>3 DEF AssociateStep

\* and every step of any call.
LEMMA AssociateInvNext == AssociateInv /\ [Next]_readVars => AssociateInv'
  <1> SUFFICES ASSUME AssociateInv, [Next]_readVars PROVE AssociateInv'
    OBVIOUS
  <1>0. indexed \subseteq Ids
    BY DEF AssociateInv
  <1>1. CASE Associate
    BY <1>1, AssociateInvStep DEF Associate
  <1>2. CASE Others
    <2>1. StoreStep /\ UNCHANGED associateVars
      BY <1>2 DEF Others
    <2> QED  BY <1>0, <2>1, StoreStepIndexed, AssociateInvOther
  <1>3. CASE Retrieve \/ List \/ Traverse \/ ParseTime \/ UNCHANGED readVars
    <2>1. UNCHANGED storeVars /\ UNCHANGED associateVars
      BY <1>3 DEF Retrieve, List, Traverse, ParseTime, readVars
    <2>2. indexed' \subseteq Ids
      BY <1>0, <2>1 DEF storeVars
    <2> QED  BY <2>1, <2>2, AssociateInvOther
  <1> QED  BY <1>1, <1>2, <1>3 DEF Next

\* Whatever the store holds, whatever is written and whatever other threads do
\* meanwhile: every edge of a write rests on a shared entity, topic or time bucket,
\* and skips the observation zone only when two dimensions or more agree.
THEOREM EdgesCorroboratedAlways == Spec => []EdgesCorroborated
  <1>1. AssociateInv => EdgesCorroborated
    BY DEF AssociateInv
  <1> QED  BY <1>1, AssociateInvInit, AssociateInvNext, PTL DEF Spec

(***************************************************************************)
(* The pages of a listing.                                                 *)
(***************************************************************************)
\* The n elements of S are in a strict total order, and f has at k an element with
\* k - 1 predecessors.
Ranks(f, S, n, pred) ==
    /\ IsFiniteSet(S) /\ n = Cardinality(S)
    /\ pred \in [S -> SUBSET S]
    /\ \A x \in S : x \notin pred[x]
    /\ \A x, y \in S : x # y => x \in pred[y] \/ y \in pred[x]
    /\ \A x, y \in S : x \in pred[y] => pred[x] \subseteq pred[y]
    /\ \A k \in 1..n : (\E x \in S : Cardinality(pred[x]) = k - 1)
                             => f[k] \in S /\ Cardinality(pred[f[k]]) = k - 1

\* Such an f lists S in order.
LEMMA SortedBy ==
    ASSUME NEW f, NEW S, NEW n, NEW pred, Ranks(f, S, n, pred)
    PROVE  /\ n \in Nat
           /\ \A k \in 1..n : f[k] \in S
           /\ \A i, j \in 1..n : i < j => f[i] \in pred[f[j]]
           /\ \A x \in S : \E k \in 1..n : f[k] = x
  <1> USE DEF Ranks
  <1>1. n \in Nat
    BY FS_CardinalityType
  <1>2. ASSUME NEW x \in S
        PROVE  IsFiniteSet(pred[x]) /\ Cardinality(pred[x]) \in 0 .. n - 1
    <2>1. pred[x] \in SUBSET (S \ {x})
      OBVIOUS
    <2>2. IsFiniteSet(S \ {x}) /\ Cardinality(S \ {x}) = n - 1
      BY FS_RemoveElement
    <2>3. IsFiniteSet(pred[x]) /\ Cardinality(pred[x]) <= n - 1
      BY <2>1, <2>2, FS_Subset
    <2>4. Cardinality(pred[x]) \in Nat
      BY <2>3, FS_CardinalityType
    <2> QED BY <1>1, <2>3, <2>4
  <1>3. ASSUME NEW x \in S, NEW y \in S, x \in pred[y]
        PROVE  Cardinality(pred[x]) < Cardinality(pred[y])
    <2>1. pred[x] \in SUBSET pred[y] /\ pred[x] # pred[y]
      BY <1>3
    <2>2. Cardinality(pred[x]) <= Cardinality(pred[y]) /\ Cardinality(pred[x]) # Cardinality(pred[y])
      BY <1>2, <2>1, FS_Subset
    <2> QED BY <1>1, <1>2, <2>2
  <1> DEFINE rank == [x \in S |-> Cardinality(pred[x]) + 1]
  <1>4. rank \in [S -> 1..n]
    BY <1>1, <1>2
  <1>5. \A x, y \in S : x # y => rank[x] # rank[y]
    <2> SUFFICES ASSUME NEW x \in S, NEW y \in S, x # y PROVE rank[x] # rank[y]
      OBVIOUS
    <2>1. Cardinality(pred[x]) < Cardinality(pred[y]) \/ Cardinality(pred[y]) < Cardinality(pred[x])
      BY <1>3
    <2>2. Cardinality(pred[x]) \in Int /\ Cardinality(pred[y]) \in Int
      BY <1>1, <1>2
    <2> QED BY <2>1, <2>2
  <1>6. rank \in Injection(S, 1..n)
    BY <1>4, <1>5 DEF Injection, IsInjective
  <1>7. IsFiniteSet(1..n) /\ Cardinality(1..n) = n
    BY <1>1, FS_Interval
  <1>8. rank \in Surjection(S, 1..n)
    BY <1>6, <1>7, FS_Injection
  <1>9. \A k \in 1..n : \E x \in S : rank[x] = k
    BY <1>8 DEF Surjection
  <1>10. \A k \in 1..n : f[k] \in S /\ Cardinality(pred[f[k]]) = k - 1
    <2> SUFFICES ASSUME NEW k \in 1..n PROVE f[k] \in S /\ Cardinality(pred[f[k]]) = k - 1
      OBVIOUS
    <2>1. PICK x \in S : Cardinality(pred[x]) + 1 = k
      BY <1>9
    <2>2. Cardinality(pred[x]) = k - 1
      BY <1>1, <1>2, <2>1
    <2> QED BY <2>2
  <1>11. ASSUME NEW i \in 1..n, NEW j \in 1..n, i < j
         PROVE  f[i] \in pred[f[j]]
    <2>1. f[i] # f[j] /\ ~ (f[j] \in pred[f[i]])
      BY <1>1, <1>3, <1>10, <1>11
    <2> QED BY <1>10, <2>1
  <1>12. ASSUME NEW x \in S PROVE \E k \in 1..n : f[k] = x
    <2>1. rank[x] \in 1..n /\ rank[x] = Cardinality(pred[x]) + 1
      BY <1>4
    <2> PICK k \in 1..n : k = rank[x]
      BY <2>1
    <2>2. f[k] \in S /\ Cardinality(pred[f[k]]) = Cardinality(pred[x])
      BY <1>1, <1>2, <1>10, <2>1
    <2>3. rank[f[k]] = rank[x]
      BY <2>2
    <2> QED BY <1>5, <2>2, <2>3
  <1> QED BY <1>1, <1>10, <1>11, <1>12

\* What list walks: the listable units, newest first.
ItemSet == {x \in Units : Listable(x)}

\* Items lists them so.
LEMMA ItemsSorted ==
    /\ Items \in Seq(ItemSet)
    /\ Len(Items) \in Nat /\ DOMAIN Items = 1..Len(Items)
    /\ \A i \in 1..Len(Items) : Items[i] \in ItemSet
    /\ \A i, j \in 1..Len(Items) : i < j => Items[i] > Items[j]
    /\ \A x \in ItemSet : \E i \in 1..Len(Items) : Items[i] = x
  <1> DEFINE n == Cardinality(ItemSet)
             pred == [x \in ItemSet |-> {y \in ItemSet : y > x}]
  <1>1. ItemSet \subseteq Ids /\ Ids \subseteq Nat /\ IsFiniteSet(Ids)
    BY ReadStoreAssumption DEF ItemSet, Units
  <1>2. IsFiniteSet(ItemSet)
    BY <1>1, FS_Subset
  <1>3. n \in Nat
    BY <1>2, FS_CardinalityType
  <1>4. Items = [k \in 1..n |->
                   CHOOSE x \in ItemSet : Cardinality({y \in ItemSet : y > x}) = k - 1]
    BY Zenon DEF Items, Ordered, ItemSet
  <1>5. ASSUME NEW k \in 1..n, \E x \in ItemSet : Cardinality(pred[x]) = k - 1
        PROVE  Items[k] \in ItemSet /\ Cardinality(pred[Items[k]]) = k - 1
    <2>1. \E x \in ItemSet : Cardinality({y \in ItemSet : y > x}) = k - 1
      BY <1>5
    <2>2. Items[k] = CHOOSE x \in ItemSet : Cardinality({y \in ItemSet : y > x}) = k - 1
      BY <1>4
    <2>3. Items[k] \in ItemSet /\ Cardinality({y \in ItemSet : y > Items[k]}) = k - 1
      BY <2>1, <2>2, Zenon
    <2> QED BY <2>3
  <1>6. pred \in [ItemSet -> SUBSET ItemSet]
    OBVIOUS
  <1>7. /\ \A x \in ItemSet : x \notin pred[x]
        /\ \A x, y \in ItemSet : x # y => x \in pred[y] \/ y \in pred[x]
        /\ \A x, y \in ItemSet : x \in pred[y] => pred[x] \subseteq pred[y]
    <2>1. \A x, y \in ItemSet : x \in pred[y] <=> x > y
      OBVIOUS
    <2>2. \A x \in ItemSet : x \in Int /\ pred[x] \subseteq ItemSet
      BY <1>1
    <2> HIDE DEF pred
    <2>3. \A x, y \in ItemSet : x \in pred[y] => pred[x] \subseteq pred[y]
      <3> SUFFICES ASSUME NEW x \in ItemSet, NEW y \in ItemSet, x \in pred[y], NEW z \in pred[x]
                   PROVE  z \in pred[y]
        OBVIOUS
      <3>1. z \in ItemSet
        BY <2>2
      <3>2. z > x /\ x > y /\ x \in Int /\ y \in Int /\ z \in Int
        BY <2>1, <2>2, <3>1
      <3>3. z > y
        BY <3>2
      <3> QED BY <2>1, <3>1, <3>3
    <2> QED BY <2>1, <2>2, <2>3
  <1> HIDE DEF n, pred
  <1>8. /\ \A k \in 1..n : Items[k] \in ItemSet
        /\ \A i, j \in 1..n : i < j => Items[i] \in pred[Items[j]]
        /\ \A x \in ItemSet : \E k \in 1..n : Items[k] = x
    <2>1. n = Cardinality(ItemSet)
      BY DEF n
    <2>2. Ranks(Items, ItemSet, n, pred)
      BY <1>2, <1>5, <1>6, <1>7, <2>1 DEF Ranks
    <2> QED BY <2>2, SortedBy
  <1>9. DOMAIN Items = 1..n /\ Items \in [1..n -> ItemSet]
    BY <1>4, <1>8
  <1>10. Items \in Seq(ItemSet) /\ Len(Items) = n
    BY <1>3, <1>9
  <1>11. \A i, j \in 1..n : i < j => Items[i] > Items[j]
    BY <1>8 DEF pred
  <1> QED BY <1>3, <1>8, <1>9, <1>10, <1>11

\* The numbers from 1 to n.
LEMMA CountTo ==
    ASSUME NEW n \in Nat
    PROVE  IsFiniteSet(1..n) /\ Cardinality(1..n) = n
  <1>1. 1 \in Int /\ n \in Int
    OBVIOUS
  <1>2. IsFiniteSet(1..n) /\ Cardinality(1..n) = IF 1 > n THEN 0 ELSE n - 1 + 1
    BY <1>1, FS_Interval, Zenon
  <1> QED BY <1>2

\* The page begins after the items that are not older than the cursor, whether
\* the memory the cursor names still exists or not.
LEMMA StartAfterCursor ==
    ASSUME NEW items, items \in Seq(Int),
           \A i, j \in 1..Len(items) : i < j => items[i] > items[j],
           cursor \in Nat
    PROVE  /\ StartIndex(items) \in 0..Len(items)
           /\ cursor = 0 => StartIndex(items) = 0
           /\ cursor # 0 =>
                \A i \in 1..Len(items) : i <= StartIndex(items) <=> items[i] >= cursor
  <1> PICK n \in Nat : n = Len(items)
    OBVIOUS
  <1>1. DOMAIN items = 1..n /\ \A i \in 1..n : items[i] \in Int
    OBVIOUS
  <1>2. CASE cursor = 0
    BY <1>2 DEF StartIndex
  <1>3. CASE cursor # 0 /\ \E i \in DOMAIN items : items[i] = cursor
    <2>1. StartIndex(items) = CHOOSE i \in DOMAIN items : items[i] = cursor
      BY <1>3, Zenon DEF StartIndex
    <2>2. PICK k \in 1..n : k = StartIndex(items) /\ items[k] = cursor
      BY <1>1, <1>3, <2>1
    <2>3. \A i \in 1..n : (i < k => items[i] > cursor) /\ (i > k => cursor > items[i])
      BY <1>1, <2>2
    <2>4. \A i \in 1..n : i <= k <=> items[i] >= cursor
      BY <1>1, <2>2, <2>3
    <2> QED BY <1>3, <2>2, <2>4
  <1>4. CASE cursor # 0 /\ ~ \E i \in DOMAIN items : items[i] = cursor
    <2> DEFINE newer == {i \in DOMAIN items : items[i] > cursor}
    <2>1. StartIndex(items) = Cardinality(newer)
      BY <1>4, Zenon DEF StartIndex
    <2>2. IsFiniteSet(1..n) /\ Cardinality(1..n) = n
      BY CountTo
    <2>3. newer \in SUBSET (1..n)
      BY <1>1
    <2>4. IsFiniteSet(newer) /\ Cardinality(newer) <= n
      BY <2>2, <2>3, FS_Subset
    <2>5. Cardinality(newer) \in Nat
      BY <2>4, FS_CardinalityType
    <2>6. ASSUME NEW i \in 1..n, items[i] >= cursor PROVE i <= Cardinality(newer)
      <3>1. items[i] > cursor
        BY <1>1, <1>4, <2>6
      <3>2. 1..i \in SUBSET newer
        BY <1>1, <3>1
      <3>3. Cardinality(1..i) <= Cardinality(newer)
        BY <2>4, <3>2, FS_Subset
      <3>4. Cardinality(1..i) = i
        BY CountTo
      <3> QED BY <3>3, <3>4
    <2>7. ASSUME NEW i \in 1..n, ~ (items[i] >= cursor) PROVE ~ (i <= Cardinality(newer))
      <3>1. newer \in SUBSET (1..(i - 1))
        BY <1>1, <2>7
      <3>2. IsFiniteSet(1..(i - 1)) /\ Cardinality(1..(i - 1)) = i - 1
        <4>1. i - 1 \in Nat
          OBVIOUS
        <4> QED BY <4>1, CountTo
      <3>3. Cardinality(newer) <= i - 1
        BY <3>1, <3>2, FS_Subset
      <3> QED BY <2>5, <3>3
    <2> QED BY <1>4, <2>1, <2>4, <2>5, <2>6, <2>7
  <1> QED BY <1>2, <1>3, <1>4

\* Every page but the last is full; what was listed is at least as new as the
\* cursor, and of what is at least as new nothing is missing.
Gathered(x) == \E i \in 1..Len(listed) : listed[i] = x

\* The lifecycles of units, in the store and in copies.
KindsInv == kind \in [Ids -> Kinds] /\ copies \in [Ids -> SUBSET (Kinds \ {"none"})]

\* A memory without a unit gets one only by appearing.
UnitsAppear ==
    /\ appeared \subseteq appeared'
    /\ \A y \in Ids : kind[y] = "none" => kind'[y] = "none" \/ y \in appeared'

\* At the start of a call.
LEMMA KindsInvInit == Init => KindsInv
  <1> SUFFICES ASSUME Init PROVE KindsInv
    OBVIOUS
  <1>1. PICK s \in Stores[call] : kind = s.kind /\ copies = s.copies
    BY DEF Init
  <1> QED BY <1>1, StoresAssumption DEF Init, KindsInv

\* Whatever other threads write, delete and put back.
LEMMA KindsInvStore ==
    ASSUME KindsInv, StoreStep
    PROVE  KindsInv' /\ UnitsAppear
  <1>1. PICK x \in Ids : Write(x) \/ Forget(x) \/ Unindex(x) \/ Put(x) \/ PutRow(x)
    BY DEF StoreStep
  <1>2. kind \in [Ids -> Kinds] /\ copies \in [Ids -> SUBSET (Kinds \ {"none"})]
    BY DEF KindsInv
  <1>3. CASE Write(x)
    <2>1. PICK held \in {{"active"}, {"active", "summary"}} : copies' = [copies EXCEPT ![x] = held]
      BY <1>3 DEF Write
    <2>2. kind' = [kind EXCEPT ![x] = "active"] /\ appeared' = appeared \cup {x}
      BY <1>3 DEF Write
    <2>3. held \in SUBSET (Kinds \ {"none"}) /\ "active" \in Kinds
      BY <2>1 DEF Kinds
    <2> QED BY <1>2, <2>1, <2>2, <2>3 DEF KindsInv, UnitsAppear
  <1>4. CASE Forget(x)
    <2>1. kind' = [kind EXCEPT ![x] = "none"] /\ copies' = copies /\ appeared' = appeared
      BY <1>4 DEF Forget
    <2> QED BY <1>2, <2>1 DEF KindsInv, UnitsAppear, Kinds
  <1>5. CASE Unindex(x) \/ PutRow(x)
    <2>1. kind' = kind /\ copies' = copies /\ appeared' = appeared
      BY <1>5 DEF Unindex, PutRow
    <2> QED BY <1>2, <2>1 DEF KindsInv, UnitsAppear
  <1>6. CASE Put(x)
    <2>1. PICK k \in Puts(copies[x]) :
            kind' = [kind EXCEPT ![x] = k] /\ copies' = [copies EXCEPT ![x] = @ \cup {k}]
      BY <1>6 DEF Put
    <2>2. appeared' = IF kind[x] = "none" THEN appeared \cup {x} ELSE appeared
      BY <1>6 DEF Put
    <2>3. k \in Kinds \ {"none"}
      BY <1>2, <2>1 DEF Puts, Kinds
    <2>4. copies[x] \cup {k} \in SUBSET (Kinds \ {"none"})
      BY <1>2, <2>3
    <2>5. KindsInv'
      BY <1>2, <2>1, <2>3, <2>4 DEF KindsInv
    <2> QED BY <1>2, <2>1, <2>2, <2>5 DEF UnitsAppear
  <1> QED BY <1>1, <1>3, <1>4, <1>5, <1>6

\* What was there all the time.
Remained == (onStart \cap Units) \ appeared

\* The invariant of a listing that other threads go on under.
PageInv ==
    /\ KindsInv
    /\ listing \in ListCalls /\ cursor \in Nat
    /\ listed \in Seq(Ids)
    /\ \A i, j \in 1..Len(listed) : i < j => listed[i] > listed[j]
    /\ lpc = "pages" =>
         /\ \E q \in Nat : Len(listed) = q * Limit
         /\ cursor = IF Len(listed) = 0 THEN 0 ELSE listed[Len(listed)]
         /\ \A x \in Remained :
               Listable(x) /\ Len(listed) # 0 /\ x >= cursor => Gathered(x)
    /\ lpc = "done" => \A x \in Remained : Listable(x) => Gathered(x)

\* A page has room.
LEMMA LimitPositive ==
    ASSUME listing \in ListCalls
    PROVE  Limit \in Nat /\ Limit > 0
  BY BrowseAssumption DEF Limit, Clamp, Greater, Lesser

\* It holds at the start.
LEMMA PageInvInit == Init => PageInv
  <1> SUFFICES ASSUME Init PROVE PageInv
    OBVIOUS
  <1>3. (CHOOSE c \in ListCalls : TRUE) \in ListCalls
    BY BrowseAssumption
  <1>4. listing \in ListCalls /\ cursor = 0 /\ listed = <<>> /\ lpc \in {"pages", "idle"}
    BY <1>3 DEF Init, BrowseInit
  <1>5. Limit \in Nat
    BY <1>4, LimitPositive
  <1>6. 0 \in Nat /\ Len(listed) = 0 /\ Len(listed) = 0 * Limit
    BY <1>4, <1>5
  <1> QED BY <1>4, <1>6, KindsInvInit DEF PageInv

\* What another thread does to the store takes no memory away from the listing.
LEMMA PageInvKeep ==
    ASSUME PageInv, UNCHANGED listVars, KindsInv', Remained' \subseteq Remained
    PROVE  PageInv'
  <1>1. lpc' = lpc /\ listing' = listing /\ cursor' = cursor /\ listed' = listed /\ onStart' = onStart
    BY DEF listVars
  <1>2. Limit' = Limit /\ \A x : Listable(x)' = Listable(x) /\ Gathered(x)' = Gathered(x)
    BY <1>1 DEF Limit, Listable, Gathered
  <1> QED BY <1>1, <1>2 DEF PageInv

\* Steps of other threads keep it.
LEMMA PageInvStore ==
    ASSUME PageInv, UNCHANGED listVars, StoreStep
    PROVE  PageInv'
  <1>1. KindsInv' /\ UnitsAppear
    BY KindsInvStore DEF PageInv
  <1>2. Remained' \subseteq Remained
    BY <1>1 DEF UnitsAppear, Remained, Units, listVars
  <1> QED BY <1>1, <1>2, PageInvKeep

\* A part of a sequence.
LEMMA PartOf ==
    ASSUME NEW S, NEW items \in Seq(S), NEW k \in 0..Len(items), NEW e \in k..Len(items)
    PROVE  LET page == SubSeq(items, k + 1, e)
           IN  /\ page \in Seq(S) /\ Len(page) = e - k
               /\ \A i \in 1..(e - k) : page[i] = items[k + i]
  OBVIOUS

\* The m items from index k on are put behind the old ones listed before, and
\* the cursor lies between the two.
PageBehind(items, n, before, old, k, m, c, after) ==
    /\ n \in Nat /\ k \in Nat /\ m \in Nat /\ k + m <= n /\ old \in Nat /\ c \in Nat
    /\ \A i \in 1..n : items[i] \in Nat
    /\ \A i, j \in 1..n : i < j => items[i] > items[j]
    /\ \A i \in 1..old : before[i] \in Nat /\ before[i] >= c
    /\ \A i, j \in 1..old : i < j => before[i] > before[j]
    /\ \A i \in 1..m : old > 0 => c > items[k + i]
    /\ \A i \in 1..old : after[i] = before[i]
    /\ \A i \in 1..m : after[old + i] = items[k + i]

\* Then the whole is newest first.
LEMMA PageKeepsOrder ==
    ASSUME NEW items, NEW n, NEW before, NEW old, NEW k, NEW m, NEW c, NEW after,
           PageBehind(items, n, before, old, k, m, c, after)
    PROVE  \A i, j \in 1..(old + m) : i < j => after[i] > after[j]
  <1> USE DEF PageBehind
  <1> SUFFICES ASSUME NEW i \in 1..(old + m), NEW j \in 1..(old + m), i < j
               PROVE  after[i] > after[j]
    OBVIOUS
  <1>1. CASE j <= old
    BY <1>1
  <1>2. CASE i > old
    <2> PICK a \in 1..m, b \in 1..m : i = old + a /\ j = old + b /\ a < b
      <3>1. i - old \in 1..m /\ j - old \in 1..m /\ i - old < j - old
        BY <1>2
      <3>2. i = old + (i - old) /\ j = old + (j - old)
        OBVIOUS
      <3> QED BY <3>1, <3>2
    <2>1. k + a \in 1..n /\ k + b \in 1..n /\ k + a < k + b
      OBVIOUS
    <2>2. after[i] = items[k + a] /\ after[j] = items[k + b]
      OBVIOUS
    <2> QED BY <2>1, <2>2
  <1>3. CASE i <= old /\ j > old
    <2> PICK b \in 1..m : j = old + b
      <3>1. j - old \in 1..m /\ j = old + (j - old)
        BY <1>3
      <3> QED BY <3>1
    <2>1. k + b \in 1..n /\ i \in 1..old /\ old > 0
      BY <1>3
    <2>2. after[i] = before[i] /\ before[i] \in Nat /\ before[i] >= c
      BY <2>1
    <2>3. after[j] = items[k + b] /\ items[k + b] \in Nat /\ c > items[k + b]
      BY <2>1
    <2> QED BY <2>2, <2>3
  <1> QED BY <1>1, <1>2, <1>3

\* A page keeps the invariant.
LEMMA PageInvPage ==
    ASSUME PageInv, ListPage, UNCHANGED storeVars
    PROVE  PageInv'
  <1>0. PICK items, k, e, page, n, old, lim, m :
        /\ items = Items /\ k = StartIndex(Items) /\ e = Lesser(k + Limit, Len(items))
        /\ page = SubSeq(items, k + 1, e)
        /\ n = Len(items) /\ old = Len(listed) /\ lim = Limit /\ m = e - k
    OBVIOUS
  <1>1. /\ lpc = "pages" /\ listed' = listed \o page
        /\ listing' = listing /\ onStart' = onStart /\ kind' = kind /\ copies' = copies
        /\ appeared' = appeared
        /\ \/ e < n /\ cursor' = Last(page) /\ lpc' = lpc
           \/ ~ (e < n) /\ cursor' = 0 /\ lpc' = "done"
    BY <1>0, Zenon DEF ListPage, storeVars
  <1>2. /\ KindsInv /\ listing \in ListCalls /\ cursor \in Nat
        /\ listed \in Seq(Ids) /\ old \in Nat /\ \A i \in 1..old : listed[i] \in Ids
        /\ \A i, j \in 1..old : i < j => listed[i] > listed[j]
    BY <1>0 DEF PageInv
  <1>3. Ids \subseteq Nat /\ \A x \in Ids : x \in Nat /\ x # 0
    BY ReadStoreAssumption
  <1>4. /\ items \in Seq(ItemSet) /\ n \in Nat /\ \A i \in 1..n : items[i] \in ItemSet
        /\ \A i, j \in 1..n : i < j => items[i] > items[j]
        /\ \A x \in ItemSet : \E i \in 1..n : items[i] = x
    BY <1>0, ItemsSorted
  <1>5. ItemSet \subseteq Ids /\ \A i \in 1..n : items[i] \in Nat
    BY <1>3, <1>4 DEF ItemSet, Units
  <1>6. /\ k \in 0..n /\ (cursor = 0 => k = 0)
        /\ cursor # 0 => \A i \in 1..n : i <= k <=> items[i] >= cursor
    <2>1. items \in Seq(Int)
      BY <1>4, <1>5
    <2> QED BY <1>0, <1>2, <1>4, <2>1, StartAfterCursor
  <1>7. lim \in Nat /\ lim > 0
    BY <1>0, <1>2, LimitPositive
  <1>8. e \in k..n /\ (e < n => m = lim)
    <2>1. n \in Nat /\ k \in 0..n
      BY <1>4, <1>6
    <2>2. e = (IF k + lim < n THEN k + lim ELSE n) /\ m = e - k
      BY <1>0, Zenon DEF Lesser
    <2> QED BY <1>7, <2>1, <2>2
  <1>20. /\ k \in Nat /\ m \in Nat /\ n \in Nat /\ e \in Nat /\ old \in Nat
        /\ k + m = e /\ e <= n /\ k + m <= n
    <2>1. m = e - k /\ k \in 0..n /\ n \in Nat /\ e \in k..n /\ old \in Nat
      BY <1>0, <1>2, <1>4, <1>6, <1>8
    <2> QED BY <2>1
  <1>9. page \in Seq(Ids) /\ Len(page) = m /\ \A i \in 1..m : page[i] = items[k + i]
    <2>1. items \in Seq(Ids)
      BY <1>4, <1>5
    <2>2. k \in 0..Len(items) /\ e \in k..Len(items)
      BY <1>0, <1>6, <1>8
    <2>3. /\ SubSeq(items, k + 1, e) \in Seq(Ids) /\ Len(SubSeq(items, k + 1, e)) = e - k
          /\ \A i \in 1..(e - k) : SubSeq(items, k + 1, e)[i] = items[k + i]
      BY <2>1, <2>2, PartOf
    <2> QED BY <1>0, <2>3, Zenon
  <1>10. /\ listed' \in Seq(Ids) /\ Len(listed') = old + m
         /\ \A i \in 1..old : listed'[i] = listed[i]
         /\ \A i \in 1..m : listed'[old + i] = items[k + i]
    <2>1. /\ listed' \in Seq(Ids) /\ Len(listed') = Len(listed) + Len(page)
          /\ \A i \in 1..Len(listed) : listed'[i] = listed[i]
          /\ \A i \in 1..Len(page) : listed'[Len(listed) + i] = page[i]
      <3>1. listed \in Seq(Ids) /\ page \in Seq(Ids)
        BY <1>2, <1>9
      <3> PICK all : all = listed \o page
        OBVIOUS
      <3>2. /\ all \in Seq(Ids) /\ Len(all) = Len(listed) + Len(page)
            /\ \A i \in 1..Len(listed) : all[i] = listed[i]
            /\ \A i \in 1..Len(page) : all[Len(listed) + i] = page[i]
        BY <3>1
      <3>3. listed' = all
        BY <1>1
      <3> QED BY <3>2, <3>3, Zenon
    <2>2. Len(listed) = old /\ Len(page) = m
      BY <1>0, <1>9, Zenon
    <2>3. /\ listed' \in Seq(Ids) /\ Len(listed') = old + m
          /\ \A i \in 1..old : listed'[i] = listed[i]
          /\ \A i \in 1..m : listed'[old + i] = page[i]
      BY <2>1, <2>2, Zenon
    <2> QED BY <1>9, <2>3, Zenon
  <1>11. /\ \E q \in Nat : old = q * lim
         /\ cursor = IF old = 0 THEN 0 ELSE listed[old]
         /\ \A x \in Remained : Listable(x) /\ old # 0 /\ x >= cursor => Gathered(x)
    BY <1>0, <1>1 DEF PageInv
  <1>12. /\ \A i \in 1..old : listed[i] \in Nat /\ listed[i] >= cursor
         /\ \A i \in 1..m : old > 0 => cursor > items[k + i]
    <2>1. ASSUME old > 0 PROVE cursor # 0 /\ cursor = listed[old]
      <3>1. cursor = listed[old] /\ old \in 1..old
        BY <1>2, <1>11, <2>1
      <3> QED BY <1>2, <1>3, <3>1
    <2>2. ASSUME NEW i \in 1..old PROVE listed[i] \in Nat /\ listed[i] >= cursor
      <3>1. old > 0 /\ old \in 1..old
        BY <1>2
      <3>2. listed[i] \in Nat /\ listed[old] \in Nat /\ cursor = listed[old]
        BY <1>2, <1>3, <2>1, <3>1
      <3>3. i < old => listed[i] > listed[old]
        BY <1>2, <3>1
      <3> QED BY <1>2, <3>2, <3>3
    <2>3. ASSUME NEW i \in 1..m, old > 0 PROVE cursor > items[k + i]
      <3>1. k + i \in 1..n /\ ~ (k + i <= k)
        BY <1>20
      <3>2. items[k + i] \in Nat /\ ~ (items[k + i] >= cursor)
        BY <1>5, <1>6, <2>1, <2>3, <3>1
      <3> QED BY <1>2, <3>2
    <2> QED BY <2>2, <2>3
  <1>13. \A i, j \in 1..(old + m) : i < j => listed'[i] > listed'[j]
    <2>1. cursor \in Nat
      BY <1>2
    <2>2. \A i, j \in 1..old : i < j => listed[i] > listed[j]
      BY <1>2
    <2>3. \A i, j \in 1..n : i < j => items[i] > items[j]
      BY <1>4
    <2>4. PICK after : after = listed'
      OBVIOUS
    <2>5. /\ \A i \in 1..old : after[i] = listed[i]
          /\ \A i \in 1..m : after[old + i] = items[k + i]
      BY <1>10, <2>4, Zenon
    <2>6. \A i, j \in 1..(old + m) : i < j => after[i] > after[j]
      <3>1. PageBehind(items, n, listed, old, k, m, cursor, after)
        BY <1>20, <1>5, <1>12, <2>1, <2>2, <2>3, <2>5 DEF PageBehind
      <3> QED BY <3>1, PageKeepsOrder
    <2> QED BY <2>4, <2>6, Zenon
  <1>14. ASSUME NEW x \in Remained, Listable(x), NEW i \in 1..e, items[i] = x
         PROVE  \E j \in 1..(old + m) : listed'[j] = x
    <2>2. CASE i <= k
      <3>0. i \in 1..n
        BY <1>20
      <3>1. cursor # 0 /\ x >= cursor
        <4>1. k # 0
          BY <1>20, <2>2
        <4> QED BY <1>6, <1>14, <2>2, <3>0, <4>1
      <3>2. old # 0
        BY <1>11, <3>1
      <3>3. Gathered(x)
        BY <1>11, <1>14, <3>1, <3>2
      <3>4. PICK j \in 1..old : listed[j] = x
        BY <1>0, <3>3 DEF Gathered
      <3>5. j \in 1..(old + m)
        BY <1>20
      <3>6. listed'[j] = x
        BY <1>10, <3>4
      <3> QED BY <3>5, <3>6
    <2>3. CASE i > k
      <3>1. PICK a \in 1..m : i = k + a
        <4>1. i - k \in 1..m /\ i = k + (i - k)
          BY <1>20, <2>3
        <4> QED BY <4>1
      <3>2. listed'[old + a] = x
        BY <1>10, <1>14, <3>1
      <3>3. old + a \in 1..(old + m)
        BY <1>20
      <3> QED BY <3>2, <3>3
    <2> QED BY <1>20, <2>2, <2>3
  <1>15. /\ Limit' = lim /\ Remained' = Remained
         /\ \A x : Listable(x)' = Listable(x)
         /\ \A x : Gathered(x)' <=> \E j \in 1..(old + m) : listed'[j] = x
    <2>1. Limit' = Limit /\ Remained' = Remained /\ \A x : Listable(x)' = Listable(x)
      BY <1>1 DEF Limit, Remained, Units, Listable
    <2>2. \A x : Gathered(x)' <=> \E j \in 1..Len(listed') : listed'[j] = x
      BY DEF Gathered
    <2> QED BY <1>0, <1>10, <2>1, <2>2
  <1>16. ASSUME NEW x \in Remained, Listable(x)
         PROVE  \E i \in 1..n : items[i] = x
    BY <1>4, <1>16 DEF ItemSet, Remained
  <1>17. /\ KindsInv' /\ listing' \in ListCalls /\ listed' \in Seq(Ids)
         /\ \A i, j \in 1..Len(listed') : i < j => listed'[i] > listed'[j]
    BY <1>1, <1>2, <1>10, <1>13 DEF KindsInv
  <1>18. CASE e < n
    <2>1. lpc' = "pages" /\ cursor' = Last(page) /\ m = lim
      BY <1>1, <1>8, <1>18
    <2>2. /\ cursor' = items[e] /\ cursor' = listed'[old + m]
          /\ old + m # 0 /\ cursor' \in Nat /\ e \in 1..n
      <3>1. m \in 1..m /\ k + m = e /\ e \in 1..n /\ old + m # 0
        BY <1>20, <1>7, <2>1
      <3>2. Last(page) = page[m]
        BY <1>9 DEF Last
      <3>3. page[m] = items[e] /\ listed'[old + m] = items[e]
        BY <1>9, <1>10, <3>1
      <3> QED BY <1>5, <2>1, <3>1, <3>2, <3>3
    <2>3. \E q \in Nat : Len(listed') = q * lim
      <3>1. PICK q \in Nat : old = q * lim
        BY <1>11
      <3>2. q + 1 \in Nat /\ q * lim + lim = (q + 1) * lim
        BY <1>7
      <3> QED BY <1>10, <2>1, <3>1, <3>2
    <2>4. ASSUME NEW x \in Remained, Listable(x), x >= cursor'
          PROVE  \E j \in 1..(old + m) : listed'[j] = x
      <3>1. PICK i \in 1..n : items[i] = x
        BY <1>16, <2>4
      <3>2. ~ (i > e)
        <4> SUFFICES ASSUME i > e PROVE FALSE
          OBVIOUS
        <4>1. items[e] > items[i]
          BY <1>4, <2>2
        <4>2. items[e] \in Nat /\ items[i] \in Nat
          BY <1>5, <2>2
        <4> QED BY <2>2, <2>4, <3>1, <4>1, <4>2
      <3>3. i \in 1..e
        BY <1>20, <3>2
      <3> QED BY <1>14, <2>4, <3>1, <3>3
    <2>5. \A x \in Remained' :
             Listable(x)' /\ Len(listed') # 0 /\ x >= cursor' => Gathered(x)'
      BY <1>1, <1>15, <2>4
    <2>6. /\ \E q \in Nat : Len(listed') = q * Limit'
          /\ cursor' = IF Len(listed') = 0 THEN 0 ELSE listed'[Len(listed')]
      BY <1>10, <1>15, <2>2, <2>3
    <2> QED BY <1>17, <2>1, <2>2, <2>5, <2>6 DEF PageInv
  <1>19. CASE ~ (e < n)
    <2>1. lpc' = "done" /\ cursor' = 0 /\ e = n
      BY <1>20, <1>1, <1>19
    <2>2. \A x \in Remained' : Listable(x)' => Gathered(x)'
      BY <1>1, <1>14, <1>15, <1>16, <2>1
    <2> QED BY <1>17, <2>1, <2>2 DEF PageInv
  <1> QED BY <1>18, <1>19

\* So does every step of any call.
LEMMA PageInvNext == PageInv /\ [Next]_readVars => PageInv'
  <1> SUFFICES ASSUME PageInv, [Next]_readVars PROVE PageInv'
    OBVIOUS
  <1>1. CASE List
    BY <1>1, PageInvPage DEF List
  <1>2. CASE Others
    BY <1>2, PageInvStore DEF Others
  <1>3. CASE Retrieve \/ Traverse \/ ParseTime \/ Associate \/ UNCHANGED readVars
    <2>1. UNCHANGED storeVars /\ UNCHANGED listVars
      BY <1>3 DEF Retrieve, Traverse, ParseTime, Associate, readVars
    <2>2. KindsInv' /\ Remained' = Remained
      BY <2>1 DEF storeVars, listVars, PageInv, KindsInv, Remained, Units
    <2> QED BY <2>1, <2>2, PageInvKeep
  <1> QED BY <1>1, <1>2, <1>3 DEF Next

\* A multiple of the limit leaves no remainder.
LEMMA MultipleOf ==
    ASSUME NEW q \in Nat, NEW l \in Nat, l > 0
    PROVE  (q * l) % l = 0
  <1> PICK d, r : d = (q * l) \div l /\ r = (q * l) % l
    OBVIOUS
  <1>1. q * l \in Nat
    OBVIOUS
  <1>2. d \in Int /\ r \in 0..(l - 1) /\ q * l = l * d + r
    BY <1>1
  <1>3. CASE d = q
    BY <1>2, <1>3
  <1>4. CASE d < q
    <2>1. PICK c \in Nat : q = d + 1 + c
      <3>1. q - d - 1 \in Nat /\ q = d + 1 + (q - d - 1)
        BY <1>2, <1>4
      <3> QED BY <3>1
    <2>2. q * l = l * d + l + c * l /\ c * l >= 0
      BY <1>2, <2>1
    <2> QED BY <1>2, <2>2
  <1>5. CASE d > q
    <2>1. PICK c \in Nat : d = q + 1 + c
      <3>1. d - q - 1 \in Nat /\ d = q + 1 + (d - q - 1)
        BY <1>2, <1>5
      <3> QED BY <3>1
    <2>2. l * d = q * l + l + c * l /\ c * l >= 0
      BY <1>2, <2>1
    <2> QED BY <1>2, <2>2
  <1> QED BY <1>2, <1>3, <1>4, <1>5

\* Whatever other threads write, delete, compress or put back between the pages: a
\* listing repeats nothing, misses nothing that was there all the time, and only its
\* last page may be short (list with its cursor).
THEOREM PagesAreExactAlways == Spec => []PagesAreExact
  <1>1. PageInv => PagesAreExact
    <2> SUFFICES ASSUME PageInv PROVE PagesAreExact
      OBVIOUS
    <2>1. Len(listed) \in Nat /\ DOMAIN listed = 1..Len(listed)
      BY DEF PageInv
    <2>2. lpc = "pages" => Len(listed) % Limit = 0
      BY LimitPositive, MultipleOf DEF PageInv
    <2>3. \A x : Gathered(x) => x \in ToSet(listed)
      BY <2>1 DEF Gathered, ToSet
    <2> QED BY <2>1, <2>2, <2>3 DEF PagesAreExact, PageInv, Remained
  <1> QED BY <1>1, PageInvInit, PageInvNext, PTL DEF Spec

(***************************************************************************)
(* The temporal query parser.  The code's closed formulas divide by 400,   *)
(* 100 and 4 times years; written in the digits of the year (its           *)
(* quadricentury, century, leap cycle and year of that) they are linear,   *)
(* and a day, a month or a year further is compared digit by digit.        *)
(***************************************************************************)
\* The years counted from the first of March: the day before the first of them.
YearStart(y) ==
    (y \div 400) * 146097 + (y - (y \div 400) * 400) * 365
        + (y - (y \div 400) * 400) \div 4 - (y - (y \div 400) * 400) \div 100

\* A year is its quadricentury, century, leap cycle and place in that.
Digits(y, e, c, q, r) ==
    /\ e \in Nat /\ c \in 0..3 /\ q \in 0..24 /\ r \in 0..3
    /\ y = 400 * e + 100 * c + 4 * q + r

\* Every year has such digits.
LEMMA YearDigits ==
    ASSUME NEW y \in Nat
    PROVE  \E e, c, q, r : Digits(y, e, c, q, r)
  <1> DEFINE e == y \div 400
             a == y % 400
             c == a \div 100
             b == a % 100
  <1>1. e \in Nat /\ a \in 0..399 /\ y = 400 * e + a
    OBVIOUS
  <1> HIDE DEF e, a
  <1>2. c \in 0..3 /\ b \in 0..99 /\ a = 100 * c + b
    BY <1>1
  <1> HIDE DEF c, b
  <1>3. b \div 4 \in 0..24 /\ b % 4 \in 0..3 /\ b = 4 * (b \div 4) + (b % 4)
    BY <1>2, SMT
  <1>4. Digits(y, e, c, b \div 4, b % 4)
    BY <1>1, <1>2, <1>3 DEF Digits
  <1> QED BY <1>4

\* The year's start is a linear form in them: divisions are gone.
LEMMA YearOfDigits ==
    ASSUME NEW y, NEW e, NEW c, NEW q, NEW r, Digits(y, e, c, q, r)
    PROVE  /\ y \in Nat
           /\ y \div 400 = e
           /\ YearStart(y) = 146097 * e + 36524 * c + 1461 * q + 365 * r
           /\ y % 4 = r /\ y % 100 = 4 * q + r /\ y % 400 = 100 * c + 4 * q + r
  <1>1. /\ e \in Nat /\ c \in 0..3 /\ q \in 0..24 /\ r \in 0..3
        /\ y = 400 * e + 100 * c + 4 * q + r
    BY DEF Digits
  <1>2. y \in Nat /\ y \div 400 = e
    BY <1>1
  <1>3. y - e * 400 = 100 * c + 4 * q + r
    BY <1>1
  <1>4. (100 * c + 4 * q + r) \div 4 = 25 * c + q /\ (100 * c + 4 * q + r) \div 100 = c
    BY <1>1
  <1>5. y % 4 = r /\ y % 100 = 4 * q + r /\ y % 400 = 100 * c + 4 * q + r
    BY <1>1
  <1>6. YearStart(y) = e * 146097 + (100 * c + 4 * q + r) * 365 + (25 * c + q) - c
    BY <1>1, <1>2, <1>3, <1>4, SMT DEF YearStart
  <1> QED BY <1>1, <1>2, <1>5, <1>6

\* The leap day is the last day of a year that begins in March.
YearLength(y) == IF Leap(y + 1) THEN 366 ELSE 365

\* The next year starts a year's length later.
LEMMA YearStep ==
    ASSUME NEW y \in Nat
    PROVE  YearStart(y) \in Int /\ YearStart(y + 1) = YearStart(y) + YearLength(y)
  <1>1. PICK e, c, q, r : Digits(y, e, c, q, r)
    BY YearDigits
  <1>2. /\ e \in Nat /\ c \in 0..3 /\ q \in 0..24 /\ r \in 0..3
        /\ y = 400 * e + 100 * c + 4 * q + r
    BY <1>1 DEF Digits
  <1>3. YearStart(y) = 146097 * e + 36524 * c + 1461 * q + 365 * r
    BY <1>1, YearOfDigits, SMT
  <1>4. ASSUME NEW e1, NEW c1, NEW q1, NEW r1, Digits(y + 1, e1, c1, q1, r1)
        PROVE  /\ YearStart(y + 1) = 146097 * e1 + 36524 * c1 + 1461 * q1 + 365 * r1
               /\ Leap(y + 1) <=> r1 = 0 /\ (4 * q1 + r1 # 0 \/ 100 * c1 + 4 * q1 + r1 = 0)
    BY <1>4, YearOfDigits, SMT DEF Leap
  <1>5. CASE r < 3
    <2>1. Digits(y + 1, e, c, q, r + 1)
      BY <1>2, <1>5, SMT DEF Digits
    <2> QED BY <1>2, <1>3, <1>4, <1>5, <2>1, SMT DEF YearLength
  <1>6. CASE r = 3 /\ q < 24
    <2>1. Digits(y + 1, e, c, q + 1, 0)
      BY <1>2, <1>6, SMT DEF Digits
    <2>2. YearStart(y + 1) = 146097 * e + 36524 * c + 1461 * (q + 1)
      BY <1>2, <1>4, <2>1, SMT
    <2>3. Leap(y + 1)
      BY <1>2, <1>4, <2>1, SMT
    <2> QED BY <1>2, <1>3, <1>6, <2>2, <2>3, SMT DEF YearLength
  <1>7. CASE r = 3 /\ q = 24 /\ c < 3
    <2>1. Digits(y + 1, e, c + 1, 0, 0)
      BY <1>2, <1>7, SMT DEF Digits
    <2> QED BY <1>2, <1>3, <1>4, <1>7, <2>1, SMT DEF YearLength
  <1>8. CASE r = 3 /\ q = 24 /\ c = 3
    <2>1. Digits(y + 1, e + 1, 0, 0, 0)
      BY <1>2, <1>8, SMT DEF Digits
    <2> QED BY <1>2, <1>3, <1>4, <1>8, <2>1, SMT DEF YearLength
  <1> QED BY <1>2, <1>5, <1>6, <1>7, <1>8, SMT

\* The months from March on: the number of a month,
MarchMonth(m) == IF m > 2 THEN m - 3 ELSE m + 9
\* the year it belongs to,
MarchYear(y, m) == IF m <= 2 THEN y - 1 ELSE y
\* and the number of days before it.
MonthStart(mp) == (153 * mp + 2) \div 5

\* DaysFromCivil in those terms.
LEMMA DaysByMonth ==
    ASSUME NEW y \in Nat, NEW m \in 1..12, NEW d \in Int
    PROVE  DaysFromCivil(y, m, d)
             = YearStart(MarchYear(y, m)) + MonthStart(MarchMonth(m)) + d - 719469
  <1> DEFINE Y == MarchYear(y, m)
             era == Y \div 400
             yoe == Y - era * 400
  <1>1. Y \in Int
    BY DEF MarchYear
  <1>2. era \in Int /\ yoe \in Int /\ yoe \div 4 \in Int /\ yoe \div 100 \in Int
    BY <1>1, SMT
  <1>3. MonthStart(MarchMonth(m)) \in Int
    BY DEF MonthStart, MarchMonth
  <1>4. DaysFromCivil(y, m, d)
          = era * 146097 + (yoe * 365 + yoe \div 4 - yoe \div 100
              + (MonthStart(MarchMonth(m)) + d - 1)) - 719468
    BY SMT DEF DaysFromCivil, MarchYear, MarchMonth, MonthStart
  <1>5. YearStart(Y) = era * 146097 + yoe * 365 + yoe \div 4 - yoe \div 100
    BY SMT DEF YearStart
  <1> HIDE DEF Y, era, yoe
  <1> QED BY <1>2, <1>3, <1>4, <1>5, SMT DEF Y

\* The formula of the code, month by month.
LEMMA MonthTable ==
    /\ MonthStart(0) = 0 /\ MonthStart(1) = 31 /\ MonthStart(2) = 61 /\ MonthStart(3) = 92
    /\ MonthStart(4) = 122 /\ MonthStart(5) = 153 /\ MonthStart(6) = 184
    /\ MonthStart(7) = 214 /\ MonthStart(8) = 245 /\ MonthStart(9) = 275
    /\ MonthStart(10) = 306 /\ MonthStart(11) = 337
  BY SMT DEF MonthStart

\* The days of a month are consecutive.
LEMMA DaysOfMonth ==
    ASSUME NEW y \in Nat, NEW m \in 1..12, NEW d \in Int, y > 0
    PROVE  DaysFromCivil(y, m, d) \in Int /\ DaysFromCivil(y, m, d) = DaysFromCivil(y, m, 1) + d - 1
  <1>1. YearStart(MarchYear(y, m)) \in Int /\ MonthStart(MarchMonth(m)) \in Int
    <2>1. MarchYear(y, m) \in Nat
      BY SMT DEF MarchYear
    <2>2. MonthStart(MarchMonth(m)) \in Int
      BY SMT DEF MarchMonth, MonthStart
    <2> QED BY <2>1, <2>2, YearStep, SMT
  <1>2. /\ DaysFromCivil(y, m, d)
             = YearStart(MarchYear(y, m)) + MonthStart(MarchMonth(m)) + d - 719469
        /\ DaysFromCivil(y, m, 1)
             = YearStart(MarchYear(y, m)) + MonthStart(MarchMonth(m)) + 1 - 719469
    BY DaysByMonth, SMT
  <1> QED BY <1>1, <1>2, SMT

\* The month after a month, and its year.
MonthAfter(m) == IF m = 12 THEN 1 ELSE m + 1
\* Its year.
YearAfter(y, m) == IF m = 12 THEN y + 1 ELSE y

\* The next month starts a month's length later.
LEMMA MonthStep ==
    ASSUME NEW y \in Nat, NEW m \in 1..12, y > 0
    PROVE  /\ MonthDays(y, m) \in 28..31
           /\ DaysFromCivil(YearAfter(y, m), MonthAfter(m), 1)
                = DaysFromCivil(y, m, 1) + MonthDays(y, m)
  <1> DEFINE Before(a, k) == YearStart(MarchYear(a, k)) + MonthStart(MarchMonth(k))
  <1>1. MonthDays(y, m) \in 28..31
    BY SMT DEF MonthDays
  <1>2. YearStart(y - 1) \in Int /\ YearStart(y) \in Int
        /\ YearStart(y) = YearStart(y - 1) + YearLength(y - 1)
    <2>1. y - 1 \in Nat /\ (y - 1) + 1 = y
      OBVIOUS
    <2> QED BY <2>1, YearStep, SMT
  <1>3. YearLength(y - 1) = IF Leap(y) THEN 366 ELSE 365
    BY SMT DEF YearLength
  <1>4. /\ YearAfter(y, m) \in Nat /\ MonthAfter(m) \in 1..12
        /\ MonthStart(MarchMonth(m)) \in Int
    BY SMT DEF YearAfter, MonthAfter, MarchMonth, MonthStart
  <1>5. /\ DaysFromCivil(y, m, 1) = Before(y, m) + 1 - 719469
        /\ DaysFromCivil(YearAfter(y, m), MonthAfter(m), 1)
             = Before(YearAfter(y, m), MonthAfter(m)) + 1 - 719469
    BY <1>4, DaysByMonth, SMT
  <1>6. Before(y, m) \in Int
        /\ Before(YearAfter(y, m), MonthAfter(m)) = Before(y, m) + MonthDays(y, m)
    <2>1. CASE m = 2
      BY <1>2, <1>3, <2>1, MonthTable, SMT
         DEF YearAfter, MonthAfter, MarchYear, MarchMonth, MonthDays
    <2>2. CASE m \in {1, 12}
      BY <1>2, <2>2, MonthTable, SMT
         DEF YearAfter, MonthAfter, MarchYear, MarchMonth, MonthDays
    <2>3. CASE m \in {3, 4, 5, 6, 7}
      BY <1>2, <2>3, MonthTable, SMT
         DEF YearAfter, MonthAfter, MarchYear, MarchMonth, MonthDays
    <2>4. CASE m \in {8, 9, 10, 11}
      BY <1>2, <2>4, MonthTable, SMT
         DEF YearAfter, MonthAfter, MarchYear, MarchMonth, MonthDays
    <2> QED BY <2>1, <2>2, <2>3, <2>4
  <1> HIDE DEF Before
  <1> QED BY <1>1, <1>5, <1>6, SMT

\* The code's last day of a month is the calendar's.
LEMMA LastDay ==
    ASSUME NEW y \in Nat, NEW m \in 1..12, y > 0
    PROVE  LastDayOfMonth(y, m) = MonthDays(y, m)
  <1>1. LastDayOfMonth(y, m)
          = DaysFromCivil(YearAfter(y, m), MonthAfter(m), 1) - DaysFromCivil(y, m, 1)
    <2>1. CASE m = 12
      BY <2>1, Zenon DEF LastDayOfMonth, YearAfter, MonthAfter
    <2>2. CASE m # 12
      BY <2>2, Zenon DEF LastDayOfMonth, YearAfter, MonthAfter
    <2> QED BY <2>1, <2>2
  <1>2. DaysFromCivil(y, m, 1) \in Int
    <2> PICK d \in Int : d = 1
      OBVIOUS
    <2> QED BY DaysOfMonth
  <1> QED BY <1>1, <1>2, MonthStep, SMT

\* CivilFromDays in parts, for a day doe of a quadricentury.
YearOfEra(doe) == (doe - doe \div 1460 + doe \div 36524 - doe \div 146096) \div 365

\* The formula of the code finds the year a day is in, leap days included.
LEMMA YearFound ==
    ASSUME NEW y, NEW e, NEW c, NEW q, NEW r, Digits(y, e, c, q, r),
           NEW n \in Nat, n < YearLength(y)
    PROVE  /\ 36524 * c + 1461 * q + 365 * r + n \in Nat
           /\ 36524 * c + 1461 * q + 365 * r + n <= 146096
           /\ YearOfEra(36524 * c + 1461 * q + 365 * r + n) = 100 * c + 4 * q + r
  <1>1. /\ e \in Nat /\ c \in 0..3 /\ q \in 0..24 /\ r \in 0..3 /\ y \in Nat
        /\ y = 400 * e + 100 * c + 4 * q + r
    BY SMT DEF Digits
  <1>2. n <= 365 /\ (n = 365 => r = 3 /\ (q < 24 \/ c = 3))
    <2>1. n <= 365 /\ (n = 365 => Leap(y + 1))
      BY SMT DEF YearLength
    <2>2. (y + 1) % 4 = 0 => r = 3
      BY <1>1, SMT
    <2>3. ASSUME r = 3, q = 24, Leap(y + 1) PROVE c = 3
      <3>1. (y + 1) % 100 = 0 /\ (y + 1) % 400 = 0
        BY <1>1, <2>3, SMT DEF Leap
      <3> QED BY <1>1, <2>3, <3>1, SMT
    <2> QED BY <1>1, <2>1, <2>2, <2>3, SMT DEF Leap
  <1> DEFINE doe == 36524 * c + 1461 * q + 365 * r + n
  <1>3. doe \in Nat /\ doe <= 146096
    BY <1>1, <1>2, SMT
  <1>4. doe \div 146096 = IF doe = 146096 THEN 1 ELSE 0
    BY <1>3, SMT
  <1>5. doe \div 36524 = IF doe = 146096 THEN 4 ELSE c
    BY <1>1, <1>2, SMT
  <1>6. doe \div 1460 \in Int
    BY <1>3, SMT
  <1> DEFINE k == doe \div 1460
  <1>7. 1460 * k <= doe /\ doe <= 1460 * k + 1459 /\ k \in Int
    BY <1>3, SMT
  <1>8. YearOfEra(doe) = 100 * c + 4 * q + r
    BY <1>1, <1>2, <1>4, <1>5, <1>7, SMT DEF YearOfEra
  <1> QED BY <1>3, <1>8, SMT

\* A day of the year is in the month the code computes.
LEMMA MonthFound ==
    ASSUME NEW y \in Nat, NEW m \in 1..12, NEW d \in 1..MonthDays(y, m), y > 0
    PROVE  LET n == MonthStart(MarchMonth(m)) + d - 1
           IN  /\ n \in Nat /\ n < YearLength(MarchYear(y, m))
               /\ (5 * n + 2) \div 153 = MarchMonth(m)
  <1>1. d \in Int /\ 1 <= d /\ d <= 31
        /\ (m \in {4, 6, 9, 11} => d <= 30)
        /\ (m = 2 => d <= 29 /\ (d = 29 => Leap(y)))
    BY SMT DEF MonthDays
  <1>2. CASE m = 2
    <2>1. YearLength(y - 1) = IF Leap(y) THEN 366 ELSE 365
      BY SMT DEF YearLength
    <2> QED BY <1>1, <1>2, <2>1, MonthTable, SMT DEF MarchMonth, MarchYear
  <1>3. \A k : YearLength(k) \in {365, 366}
    BY DEF YearLength
  <1>4. CASE m \in {1, 3, 4, 5, 6, 7}
    BY <1>1, <1>3, <1>4, MonthTable, SMT DEF MarchMonth, MarchYear
  <1>5. CASE m \in {8, 9, 10, 11, 12}
    BY <1>1, <1>3, <1>5, MonthTable, SMT DEF MarchMonth, MarchYear
  <1> QED BY <1>2, <1>4, <1>5

\* The rest of CivilFromDays.
CivilOfEra(era, doe) ==
    LET yoe == YearOfEra(doe)
        doy == doe - (365 * yoe + yoe \div 4 - yoe \div 100)
        mp == (5 * doy + 2) \div 153
        m == IF mp < 10 THEN mp + 3 ELSE mp - 9
    IN  [y |-> yoe + era * 400 + (IF m <= 2 THEN 1 ELSE 0), m |-> m,
         d |-> doy - (153 * mp + 2) \div 5 + 1]

\* CivilFromDays in these parts.
LEMMA CivilByEra ==
    ASSUME NEW days
    PROVE  CivilFromDays(days) = CivilOfEra((days + 719468) \div 146097,
               (days + 719468) - ((days + 719468) \div 146097) * 146097)
  BY SMT DEF CivilFromDays, CivilOfEra, YearOfEra

\* The two conversions are inverse on the days of the calendar.
LEMMA CivilOfDays ==
    ASSUME NEW y \in Nat, NEW m \in 1..12, NEW d \in 1..MonthDays(y, m), y > 0
    PROVE  CivilFromDays(DaysFromCivil(y, m, d)) = [y |-> y, m |-> m, d |-> d]
  <1> DEFINE Y == MarchYear(y, m)
             mp == MarchMonth(m)
             n == MonthStart(mp) + d - 1
  <1>1. /\ d \in Int /\ Y \in Nat /\ mp \in 0..11
    BY SMT DEF MonthDays, MarchYear, MarchMonth
  <1>2. n \in Nat /\ n < YearLength(Y) /\ (5 * n + 2) \div 153 = mp
    BY MonthFound, Zenon
  <1>3. MonthStart(mp) \in Int /\ MonthStart(mp) = (153 * mp + 2) \div 5
    BY <1>1, SMT DEF MonthStart
  <1>4. PICK e, c, q, r : Digits(Y, e, c, q, r)
    BY <1>1, YearDigits
  <1>5. /\ e \in Nat /\ c \in 0..3 /\ q \in 0..24 /\ r \in 0..3
        /\ Y = 400 * e + 100 * c + 4 * q + r
    BY <1>4, SMT DEF Digits
  <1> DEFINE doe == 36524 * c + 1461 * q + 365 * r + n
             z == DaysFromCivil(y, m, d) + 719468
             yoe == 100 * c + 4 * q + r
  <1>6. YearStart(Y) = 146097 * e + 36524 * c + 1461 * q + 365 * r
    BY <1>4, YearOfDigits, SMT
  <1>7. YearOfEra(doe) = yoe /\ doe \in Nat /\ doe <= 146096
    BY <1>2, <1>4, YearFound, SMT
  <1>8. DaysFromCivil(y, m, d) = YearStart(Y) + MonthStart(mp) + d - 719469
    BY <1>1, DaysByMonth, SMT
  <1>9. z = 146097 * e + doe
    BY <1>1, <1>3, <1>5, <1>6, <1>8, SMT
  <1>10. doe - (365 * yoe + yoe \div 4 - yoe \div 100) = n
    <2>1. yoe \div 4 = 25 * c + q /\ yoe \div 100 = c
      BY <1>5, SMT
    <2> QED BY <1>2, <1>5, <2>1, SMT
  <1>11. yoe + e * 400 = Y
    BY <1>5, SMT
  <1>12. n - (153 * mp + 2) \div 5 + 1 = d
    BY <1>1, <1>3, SMT
  <1>13. /\ (IF mp < 10 THEN mp + 3 ELSE mp - 9) = m
         /\ Y + (IF m <= 2 THEN 1 ELSE 0) = y
    BY SMT DEF MarchMonth, MarchYear
  <1> HIDE DEF Y, mp, n, doe, yoe, z
  <1>14. z \div 146097 = e /\ z - e * 146097 = doe
    BY <1>5, <1>7, <1>9, SMT
  <1>15. CivilFromDays(DaysFromCivil(y, m, d)) = CivilOfEra(e, doe)
    BY <1>14, CivilByEra, SMT DEF z
  <1> QED BY <1>2, <1>7, <1>10, <1>11, <1>12, <1>13, <1>15, SMT DEF CivilOfEra

(***************************************************************************)
(* The invariant of a stretch walked and of the text asked on its last     *)
(* day: the date is a date of the calendar, the count of days is the one   *)
(* the code computes for it, and the answer is the parse of the text.      *)
(***************************************************************************)
\* A date of the calendar.
ValidDate(y, m, d) == y \in Nat /\ y >= 1970 /\ m \in 1..12 /\ d \in 1..MonthDays(y, m)

\* The date walked to, and the code's count of days for it.
OnDate ==
    /\ ValidDate(date.y, date.m, date.d)
    /\ today = DaysFromCivil(date.y, date.m, date.d)
    /\ date.wd = Weekday(today)

\* The text asked on that date, and its parse.
TimeInv ==
    /\ OnDate
    /\ text \in Texts \cup {NoText}
    /\ spec = Parse(text)

\* No text, no time.
LEMMA ParseNothing == Parse(NoText) = None
  BY DEF Parse, NoText

\* The parser reads nothing that changes but the day.
LEMMA ParseSame ==
    ASSUME today' = today, NEW t
    PROVE  Parse(t)' = Parse(t)
  <1>1. ThisYearNumber' = ThisYearNumber
    BY DEF ThisYearNumber
  <1>2. \A m, d : YearFor(m, d)' = YearFor(m, d)
    BY <1>1, Zenon DEF YearFor
  <1>3. \A a : ParseZhRange(a)' = ParseZhRange(a)
    BY <1>1, SMT DEF ParseZhRange
  <1>4. \A a : ParseEnRange(a)' = ParseEnRange(a)
    BY <1>1, Zenon DEF ParseEnRange
  <1>5. \A a : ParseZhAbsolute(a)' = ParseZhAbsolute(a)
    BY <1>2, Zenon DEF ParseZhAbsolute
  <1>6. \A a : ParseZhBoth(a)' = ParseZhBoth(a)
    BY <1>5, Zenon DEF ParseZhBoth
  <1>7. \A a : ParseEnAbsolute(a)' = ParseEnAbsolute(a)
    BY <1>1, Zenon DEF ParseEnAbsolute
  <1>8. \A a : SpecForTerm(a)' = SpecForTerm(a)
    BY Zenon DEF SpecForTerm
  <1> QED BY <1>3, <1>4, <1>5, <1>6, <1>7, <1>8, Zenon DEF Parse

\* The calendar and the count go on together.
LEMMA DateStep ==
    ASSUME NEW y, NEW m, NEW d, ValidDate(y, m, d),
           NEW y1, NEW m1, NEW d1,
           d1 = IF d < MonthDays(y, m) THEN d + 1 ELSE 1,
           m1 = IF d < MonthDays(y, m) THEN m ELSE (m % 12) + 1,
           y1 = IF d = 31 /\ m = 12 THEN y + 1 ELSE y
    PROVE  /\ ValidDate(y1, m1, d1)
           /\ DaysFromCivil(y, m, d) \in Int
           /\ DaysFromCivil(y1, m1, d1) = DaysFromCivil(y, m, d) + 1
  <1>1. y \in Nat /\ y >= 1970 /\ y > 0 /\ m \in 1..12 /\ d \in 1..MonthDays(y, m)
    BY DEF ValidDate
  <1>2. MonthDays(y, m) \in 28..31
        /\ DaysFromCivil(YearAfter(y, m), MonthAfter(m), 1)
             = DaysFromCivil(y, m, 1) + MonthDays(y, m)
    BY <1>1, MonthStep
  <1>3. d \in Int
    BY <1>1, <1>2
  <1>4. \A k \in Int : /\ DaysFromCivil(y, m, k) \in Int
                       /\ DaysFromCivil(y, m, k) = DaysFromCivil(y, m, 1) + k - 1
    <2>1. y \in Nat /\ m \in 1..12 /\ y > 0
      BY <1>1
    <2> QED BY <2>1, DaysOfMonth, Zenon
  <1>5. DaysFromCivil(y, m, 1) \in Int
    BY <1>4
  <1>6. CASE d < MonthDays(y, m)
    <2>1. d1 = d + 1 /\ m1 = m /\ y1 = y
      <3>1. m = 12 => d # 31
        BY <1>1, <1>2, <1>6, SMT DEF MonthDays
      <3> QED BY <1>6, <3>1
    <2>2. d + 1 \in Int /\ d + 1 \in 1..MonthDays(y, m)
      BY <1>1, <1>2, <1>6
    <2>3. DaysFromCivil(y, m, d + 1) = DaysFromCivil(y, m, 1) + (d + 1) - 1
      BY <1>4, <2>2
    <2> QED BY <1>1, <1>3, <1>4, <1>5, <2>1, <2>2, <2>3, SMT DEF ValidDate
  <1>7. CASE ~ (d < MonthDays(y, m))
    <2>1. d = MonthDays(y, m)
      BY <1>1, <1>2, <1>7
    <2>2. d1 = 1 /\ m1 = MonthAfter(m)
      BY <1>1, <1>7, SMT DEF MonthAfter
    <2>3. y1 = YearAfter(y, m)
      <3>1. m = 12 => d = 31
        BY <2>1, SMT DEF MonthDays
      <3> QED BY <3>1 DEF YearAfter
    <2>4. y1 \in Nat /\ y1 >= 1970 /\ y1 > 0 /\ m1 \in 1..12
      BY <1>1, <2>2, <2>3 DEF YearAfter, MonthAfter
    <2>5. 1 \in 1..MonthDays(y1, m1)
      BY <2>4, MonthStep
    <2>6. ValidDate(y1, m1, d1)
      BY <2>2, <2>4, <2>5 DEF ValidDate
    <2>7. DaysFromCivil(y1, m1, d1) = DaysFromCivil(y, m, 1) + d
      BY <1>2, <2>1, <2>2, <2>3
    <2>8. DaysFromCivil(y, m, d) = DaysFromCivil(y, m, 1) + d - 1
      BY <1>3, <1>4
    <2>9. DaysFromCivil(y1, m1, d1) = DaysFromCivil(y, m, d) + 1
      BY <1>3, <1>5, <2>7, <2>8
    <2> QED BY <1>3, <1>4, <2>6, <2>9
  <1> QED BY <1>6, <1>7

\* Years that start in March begin after the leap days the calendar has had.
LEMMA YearByLeapDays ==
    ASSUME NEW y \in Nat, y > 0
    PROVE  /\ YearStart(y - 1) \in Int /\ LeapDays(y) \in Int
           /\ YearStart(y - 1) = 365 * (y - 1) + LeapDays(y)
  <1> PICK k \in Nat : k = y - 1
    OBVIOUS
  <1>1. PICK e, c, q, r : Digits(k, e, c, q, r)
    BY YearDigits
  <1>2. /\ e \in Nat /\ c \in 0..3 /\ q \in 0..24 /\ r \in 0..3
        /\ k = 400 * e + 100 * c + 4 * q + r
    BY <1>1 DEF Digits
  <1>3. YearStart(k) = 146097 * e + 36524 * c + 1461 * q + 365 * r
    BY <1>1, YearOfDigits, SMT
  <1>4. /\ k \div 4 = 100 * e + 25 * c + q
        /\ k \div 100 = 4 * e + c
        /\ k \div 400 = e
    BY <1>2, SMT
  <1>5. LeapDays(y) = k \div 4 - k \div 100 + k \div 400
    BY DEF LeapDays
  <1> QED BY <1>2, <1>3, <1>4, <1>5, SMT

\* The count of the code is the count of the calendar.
LEMMA CountAgrees ==
    ASSUME NEW y, NEW m, NEW d, ValidDate(y, m, d)
    PROVE  DayNumber(y, m, d) = DaysFromCivil(y, m, d)
  <1>1. y \in Nat /\ y >= 1970 /\ y > 0 /\ m \in 1..12 /\ d \in 1..MonthDays(y, m)
    BY DEF ValidDate
  <1>2. d \in Int
    BY <1>1, MonthStep
  <1>3. /\ YearStart(y - 1) \in Int /\ LeapDays(y) \in Int
        /\ YearStart(y - 1) = 365 * (y - 1) + LeapDays(y)
    BY <1>1, YearByLeapDays
  <1>4. YearStart(y) = YearStart(y - 1) + (IF Leap(y) THEN 366 ELSE 365)
    <2>1. y - 1 \in Nat /\ (y - 1) + 1 = y
      BY <1>1
    <2> QED BY <2>1, YearStep, SMT DEF YearLength
  <1>5. LeapDays(1970) = 477
    BY SMT DEF LeapDays
  <1>6. DayNumber(y, m, d) = 365 * (y - 1970) + LeapDays(y) - 477 + DaysBefore(y, m) + d - 1
    BY <1>5, SMT DEF DayNumber
  <1>7. DaysFromCivil(y, m, d)
          = YearStart(MarchYear(y, m)) + MonthStart(MarchMonth(m)) + d - 719469
    BY <1>1, <1>2, DaysByMonth
  <1>8. CASE m <= 2
    <2>1. DaysBefore(y, m) = 31 * (m - 1)
      BY <1>1, <1>8, SMT DEF DaysBefore
    <2>2. MarchYear(y, m) = y - 1 /\ MonthStart(MarchMonth(m)) = 306 + 31 * (m - 1)
      BY <1>1, <1>8, MonthTable, SMT DEF MarchYear, MarchMonth
    <2> QED BY <1>1, <1>2, <1>3, <1>6, <1>7, <2>1, <2>2, SMT
  <1>9. CASE ~ (m <= 2)
    <2>1. MarchYear(y, m) = y /\ MonthStart(MarchMonth(m)) \in Int
      BY <1>1, <1>9, SMT DEF MarchYear, MarchMonth, MonthStart
    <2>2. DaysBefore(y, m) = MonthStart(MarchMonth(m)) + (IF Leap(y) THEN 60 ELSE 59)
      <3>1. CASE m \in {3, 4, 5, 6, 7}
        BY <3>1, MonthTable, SMT DEF DaysBefore, MarchMonth
      <3>2. CASE m \in {8, 9, 10, 11, 12}
        BY <3>2, MonthTable, SMT DEF DaysBefore, MarchMonth
      <3> QED BY <1>1, <1>9, <3>1, <3>2, SMT
    <2> QED BY <1>1, <1>2, <1>3, <1>4, <1>6, <1>7, <2>1, <2>2, SMT
  <1> QED BY <1>8, <1>9

\* The stretches begin on dates of the calendar.
LEMMA TimeInvInit == Init => TimeInv
  <1> SUFFICES ASSUME Init PROVE TimeInv
    OBVIOUS
  <1>1. TimeInit
    BY DEF Init
  <1>2. (CHOOSE v \in Windows : TRUE) \in Windows
    BY TimeQueryAssumption
  <1>3. PICK w \in Windows :
            /\ today = w.day
            /\ date = [y |-> w.y, m |-> w.m, d |-> w.d, wd |-> w.wd]
    BY <1>1, <1>2 DEF TimeInit
  <1>4. date.y = w.y /\ date.m = w.m /\ date.d = w.d /\ date.wd = w.wd
    BY <1>3
  <1>5. OnDate
    <2>1. /\ ValidDate(w.y, w.m, w.d) /\ w.day = DayNumber(w.y, w.m, w.d)
          /\ w.wd = (w.day + 3) % 7
      BY TimeQueryAssumption DEF ValidDate
    <2>2. DayNumber(w.y, w.m, w.d) = DaysFromCivil(w.y, w.m, w.d)
      BY <2>1, CountAgrees
    <2> QED BY <1>3, <1>4, <2>1, <2>2 DEF OnDate, Weekday
  <1>6. text = NoText /\ spec = None
    BY <1>1 DEF TimeInit
  <1> QED BY <1>5, <1>6, ParseNothing DEF TimeInv

\* A day further.
LEMMA TimeInvNextDay ==
    ASSUME TimeInv, NextDay
    PROVE  TimeInv'
  <1> PICK y, m, d, wd : y = date.y /\ m = date.m /\ d = date.d /\ wd = date.wd
    OBVIOUS
  <1>1. /\ text' = text /\ spec' = spec /\ text = NoText
        /\ today' = today + 1
        /\ date'.wd = (wd + 1) % 7
        /\ date'.d = IF d < MonthDays(y, m) THEN d + 1 ELSE 1
        /\ date'.m = IF d < MonthDays(y, m) THEN m ELSE (m % 12) + 1
        /\ date'.y = IF d = 31 /\ m = 12 THEN y + 1 ELSE y
    BY DEF NextDay
  <1>2. ValidDate(y, m, d) /\ today = DaysFromCivil(y, m, d) /\ wd = Weekday(today)
    BY DEF TimeInv, OnDate
  <1>3. /\ ValidDate(date'.y, date'.m, date'.d)
        /\ today \in Int
        /\ DaysFromCivil(date'.y, date'.m, date'.d) = today + 1
    <2> PICK y1, m1, d1 : y1 = date'.y /\ m1 = date'.m /\ d1 = date'.d
      OBVIOUS
    <2>1. /\ d1 = IF d < MonthDays(y, m) THEN d + 1 ELSE 1
          /\ m1 = IF d < MonthDays(y, m) THEN m ELSE (m % 12) + 1
          /\ y1 = IF d = 31 /\ m = 12 THEN y + 1 ELSE y
      BY <1>1
    <2>2. /\ ValidDate(y1, m1, d1) /\ DaysFromCivil(y, m, d) \in Int
          /\ DaysFromCivil(y1, m1, d1) = DaysFromCivil(y, m, d) + 1
      BY <1>2, <2>1, DateStep
    <2> QED BY <1>2, <2>2
  <1>4. (Weekday(today) + 1) % 7 = Weekday(today + 1)
    BY <1>3, SMT DEF Weekday
  <1>5. OnDate'
    BY <1>1, <1>2, <1>3, <1>4 DEF OnDate
  <1>6. Parse(NoText)' = None
    BY DEF Parse, NoText, None
  <1>7. spec = None
    BY <1>1, ParseNothing DEF TimeInv
  <1> QED BY <1>1, <1>5, <1>6, <1>7 DEF TimeInv

\* Asking.
LEMMA TimeInvAsk ==
    ASSUME TimeInv, NEW t \in Texts, Ask(t)
    PROVE  TimeInv'
  <1>1. text' = t /\ spec' = Parse(t) /\ today' = today /\ date' = date
    BY DEF Ask
  <1>2. Parse(t)' = Parse(t)
    BY <1>1, ParseSame
  <1>3. OnDate'
    BY <1>1 DEF TimeInv, OnDate
  <1> QED BY <1>1, <1>2, <1>3 DEF TimeInv

\* Every step keeps it; other calls do not touch it.
LEMMA TimeInvNext == TimeInv /\ [Next]_readVars => TimeInv'
  <1> SUFFICES ASSUME TimeInv, [Next]_readVars PROVE TimeInv'
    OBVIOUS
  <1>1. CASE ParseTime
    <2>1. NextDay \/ \E t \in Texts : Ask(t)
      BY <1>1 DEF ParseTime, TimeStep
    <2> QED BY <2>1, TimeInvNextDay, TimeInvAsk
  <1>2. CASE Retrieve \/ List \/ Traverse \/ Associate \/ Others \/ UNCHANGED readVars
    <2>1. UNCHANGED timeVars
      BY <1>2 DEF Retrieve, List, Traverse, Associate, Others, readVars
    <2>2. today' = today /\ date' = date /\ text' = text /\ spec' = spec
      BY <2>1 DEF timeVars
    <2>3. Parse(text)' = Parse(text)
      BY <2>2, ParseSame
    <2> QED BY <2>2, <2>3 DEF TimeInv, OnDate
  <1> QED BY <1>1, <1>2 DEF Next

\* So it holds throughout.
LEMMA TimeInvariance == Spec => []TimeInv
  BY TimeInvInit, TimeInvNext, PTL DEF Spec

\* The closed formulas of the code agree with the calendar on every day from 1970
\* on, however far the walk goes: not only on the stretches the run walks.
THEOREM CalendarAgreesAlways == Spec => []CalendarAgrees
  <1>1. TimeInv => CalendarAgrees
    <2> SUFFICES ASSUME TimeInv PROVE CalendarAgrees
      OBVIOUS
    <2> PICK y, m, d : y = date.y /\ m = date.m /\ d = date.d
      OBVIOUS
    <2>1. /\ y \in Nat /\ m \in 1..12 /\ d \in 1..MonthDays(y, m) /\ y > 0
          /\ today = DaysFromCivil(y, m, d) /\ date.wd = Weekday(today)
      BY DEF TimeInv, OnDate, ValidDate
    <2>2. CivilFromDays(today) = [y |-> y, m |-> m, d |-> d]
      BY <2>1, CivilOfDays
    <2>3. LastDayOfMonth(y, m) = MonthDays(y, m)
      BY <2>1, LastDay
    <2> QED BY <2>1, <2>2, <2>3 DEF CalendarAgrees
  <1> QED BY <1>1, TimeInvariance, PTL

(***************************************************************************)
(* What the parser makes of a text on a day of the calendar.               *)
(***************************************************************************)
\* A year from its first of January to its thirty-first of December, and a day in
\* it.
WithinYear(y, m, d) ==
    /\ DaysFromCivil(y, 1, 1) \in Int /\ DaysFromCivil(y, m, d) \in Int
    /\ DaysFromCivil(y, 12, 31) = DaysFromCivil(y, 1, 1) + (IF Leap(y) THEN 365 ELSE 364)
    /\ DaysFromCivil(y, 1, 1) <= DaysFromCivil(y, m, d)
    /\ DaysFromCivil(y, m, d) <= DaysFromCivil(y, 12, 31)

\* Every day is in its year; d may be beyond the end of the month.
LEMMA YearSpan ==
    ASSUME NEW y \in Nat, y > 0, NEW m \in 1..12, NEW d \in 1..31
    PROVE  WithinYear(y, m, d)
  <1>1. /\ YearStart(y - 1) \in Int /\ YearStart(y) \in Int
        /\ YearStart(y) = YearStart(y - 1) + YearLength(y - 1)
    <2>1. y - 1 \in Nat /\ (y - 1) + 1 = y
      OBVIOUS
    <2> QED BY <2>1, YearStep, SMT
  <1>2. YearLength(y - 1) = IF Leap(y) THEN 366 ELSE 365
    BY SMT DEF YearLength
  <1>3. ASSUME NEW k \in 1..12, NEW c \in Int
        PROVE  /\ k > 2 => DaysFromCivil(y, k, c) = YearStart(y) + MonthStart(k - 3) + c - 719469
               /\ k <= 2 => DaysFromCivil(y, k, c)
                              = YearStart(y - 1) + MonthStart(k + 9) + c - 719469
    BY <1>3, DaysByMonth, SMT DEF MarchYear, MarchMonth
  <1>4. /\ DaysFromCivil(y, 1, 1) = YearStart(y - 1) + 306 + 1 - 719469
        /\ DaysFromCivil(y, 12, 31) = YearStart(y) + 275 + 31 - 719469
    <2> PICK j \in 1..12, k \in 1..12 : j = 1 /\ k = 12
      OBVIOUS
    <2>1. /\ DaysFromCivil(y, j, 1) = YearStart(y - 1) + MonthStart(j + 9) + 1 - 719469
          /\ DaysFromCivil(y, k, 31) = YearStart(y) + MonthStart(k - 3) + 31 - 719469
      BY <1>3, SMT
    <2> QED BY <2>1, MonthTable, SMT
  <1>5. CASE m <= 2
    <2>1. MonthStart(m + 9) \in {306, 337}
      BY <1>5, MonthTable, SMT
    <2>2. DaysFromCivil(y, m, d) = YearStart(y - 1) + MonthStart(m + 9) + d - 719469
      BY <1>3, <1>5, SMT
    <2> QED BY <1>1, <1>2, <1>4, <2>1, <2>2, SMT DEF WithinYear
  <1>6. CASE m > 2
    <2>1. MonthStart(m - 3) \in {0, 31, 61, 92, 122, 153, 184, 214, 245, 275}
      BY <1>6, MonthTable, SMT
    <2>2. DaysFromCivil(y, m, d) = YearStart(y) + MonthStart(m - 3) + d - 719469
      BY <1>3, <1>6, SMT
    <2> QED BY <1>1, <1>2, <1>4, <2>1, <2>2, SMT DEF WithinYear
  <1> QED BY <1>5, <1>6, SMT

\* The same day of the year before is at most 366 days before.
LastYearsDay(y, m, d) ==
    /\ DaysFromCivil(y, m, d) \in Int /\ DaysFromCivil(y - 1, m, d) \in Int
    /\ DaysFromCivil(y, m, d) <= DaysFromCivil(y - 1, m, d) + 366

\* So it is for every day.
LEMMA YearBack ==
    ASSUME NEW y \in Nat, y > 1, NEW m \in 1..12, NEW d \in Int
    PROVE  LastYearsDay(y, m, d)
  <1> PICK a : a = MarchYear(y, m)
    OBVIOUS
  <1>1. a \in Nat /\ a - 1 \in Nat /\ MarchYear(y - 1, m) = a - 1 /\ y - 1 \in Nat /\ (a - 1) + 1 = a
    BY SMT DEF MarchYear
  <1>2. YearStart(a - 1) \in Int /\ YearStart(a) = YearStart(a - 1) + YearLength(a - 1)
    BY <1>1, YearStep, SMT
  <1>3. YearLength(a - 1) \in {365, 366}
    BY SMT DEF YearLength
  <1>4. MonthStart(MarchMonth(m)) \in Int
    BY SMT DEF MarchMonth, MonthStart
  <1>5. /\ DaysFromCivil(y, m, d) = YearStart(a) + MonthStart(MarchMonth(m)) + d - 719469
        /\ DaysFromCivil(y - 1, m, d) = YearStart(a - 1) + MonthStart(MarchMonth(m)) + d - 719469
    BY <1>1, DaysByMonth, SMT
  <1> QED BY <1>2, <1>3, <1>4, <1>5, SMT DEF LastYearsDay

\* The day on which a text is parsed.
OnDay(y, m, d) ==
    /\ y \in Nat /\ y > 1 /\ m \in 1..12 /\ d \in 1..31 /\ d <= MonthDays(y, m)
    /\ today \in Int /\ today = DaysFromCivil(y, m, d)
    /\ DaysFromCivil(y, m, 1) \in Int /\ today = DaysFromCivil(y, m, 1) + d - 1
    /\ CivilFromDays(today) = [y |-> y, m |-> m, d |-> d]

\* The code finds today's date.
LEMMA TodayIsDate ==
    ASSUME OnDate
    PROVE  OnDay(date.y, date.m, date.d) /\ ThisYearNumber = date.y
  <1> PICK y, m, d : y = date.y /\ m = date.m /\ d = date.d
    OBVIOUS
  <1>1. /\ y \in Nat /\ y >= 1970 /\ m \in 1..12 /\ d \in 1..MonthDays(y, m)
        /\ today = DaysFromCivil(y, m, d)
    BY DEF OnDate, ValidDate
  <1>2. y > 0 /\ y > 1
    BY <1>1
  <1>3. MonthDays(y, m) \in 28..31
    BY <1>1, <1>2, MonthStep
  <1>4. d \in 1..31 /\ d \in Int /\ d <= MonthDays(y, m) /\ 1 \in Int
    BY <1>1, <1>3
  <1>5. \A k \in Int : /\ DaysFromCivil(y, m, k) \in Int
                       /\ DaysFromCivil(y, m, k) = DaysFromCivil(y, m, 1) + k - 1
    <2>1. m \in 1..12 /\ y \in Nat
      BY <1>1
    <2> QED BY <1>2, <2>1, DaysOfMonth, Zenon
  <1>6. /\ DaysFromCivil(y, m, d) \in Int /\ DaysFromCivil(y, m, 1) \in Int
        /\ DaysFromCivil(y, m, d) = DaysFromCivil(y, m, 1) + d - 1
    BY <1>4, <1>5, Zenon
  <1>7. CivilFromDays(today) = [y |-> y, m |-> m, d |-> d]
    BY <1>1, <1>2, CivilOfDays
  <1>8. ThisYearNumber = y
    BY <1>7 DEF ThisYearNumber
  <1> QED BY <1>1, <1>2, <1>4, <1>6, <1>7, <1>8 DEF OnDay

\* Results the retrieval can look up.
IsSpec(s) ==
    /\ s.kind \in {"none", "day", "range"} /\ s.from \in Int /\ s.to \in Int
    /\ s.kind = "day" => s.from = s.to

\* What the constructors return.
LEMMA SpecShapes ==
    /\ IsSpec(None) /\ None.kind = "none"
    /\ \A d \in Int : IsSpec(SingleDay(d)) /\ SingleDay(d).kind = "day" /\ SingleDay(d).from = d
    /\ \A a, b \in Int : IsSpec(DayRange(a, b)) /\ DayRange(a, b).kind = "range"
  BY DEF IsSpec, None, SingleDay, DayRange

\* A day the code computes from a side of the text is a number.
LEMMA DayIsInt ==
    ASSUME NEW y \in Nat, y > 1, NEW m \in 1..12, NEW d \in Int
    PROVE  DaysFromCivil(y, m, d) \in Int
  <1>1. y > 0 /\ y \in Nat /\ m \in 1..12 /\ d \in Int
    OBVIOUS
  <1> QED BY <1>1, DaysOfMonth, Zenon

\* The last day of a month is a day number.
LEMMA LastDayIsInt ==
    ASSUME NEW y \in Nat, y > 1, NEW m \in 1..12
    PROVE  LastDayOfMonth(y, m) \in 28..31 /\ LastDayOfMonth(y, m) = MonthDays(y, m)
  <1>1. y > 0 /\ y \in Nat /\ m \in 1..12
    OBVIOUS
  <1> QED BY <1>1, LastDay, MonthStep, Zenon

\* A range is cut off at RANGE_MAX_DAYS.
RangeOutcome(r) ==
    \/ r = NotRange
    \/ r = TooLarge
    \/ IsSpec(r) /\ r.kind = "range" /\ r.to - r.from \in 0 .. RangeMaxDays - 1

\* A range is capped or too large.
LEMMA RangeParseBound ==
    ASSUME NEW a \in Int, NEW b \in Int
    PROVE  RangeOutcome(RangeParse(a, b)) /\ RangeParse(a, b) # NotRange
  <1>1. CASE b < a \/ b - a + 1 > RangeMaxDays
    BY <1>1, Zenon DEF RangeParse, RangeOutcome, TooLarge, NotRange
  <1>2. CASE ~ (b < a \/ b - a + 1 > RangeMaxDays)
    <2>1. RangeParse(a, b) = DayRange(a, b)
      BY <1>2, Zenon DEF RangeParse
    <2>2. /\ DayRange(a, b).kind = "range" /\ IsSpec(DayRange(a, b))
          /\ DayRange(a, b).from = a /\ DayRange(a, b).to = b
      BY DEF DayRange, IsSpec
    <2>3. b - a \in 0 .. RangeMaxDays - 1
      BY <1>2 DEF RangeMaxDays
    <2>4. DayRange(a, b) # NotRange
      BY DEF DayRange, NotRange
    <2> QED BY <2>1, <2>2, <2>3, <2>4 DEF RangeOutcome
  <1> QED BY <1>1, <1>2

\* New Year follows the thirty-first of December.
LEMMA YearTurn ==
    ASSUME NEW y \in Nat, y > 1
    PROVE  /\ DaysFromCivil(y - 1, 12, 31) \in Int
           /\ DaysFromCivil(y, 1, 1) = DaysFromCivil(y - 1, 12, 31) + 1
  <1> PICK a, m : a = y - 1 /\ m = 12
    OBVIOUS
  <1>1. a \in Nat /\ a > 0 /\ m \in 1..12
    OBVIOUS
  <1>2. DaysFromCivil(YearAfter(a, m), MonthAfter(m), 1) = DaysFromCivil(a, m, 1) + MonthDays(a, m)
    BY <1>1, MonthStep
  <1>3. MonthDays(a, m) = 31 /\ YearAfter(a, m) = y /\ MonthAfter(m) = 1
    BY <1>1, SMT DEF MonthDays, YearAfter, MonthAfter
  <1>4. \A k \in Int : /\ DaysFromCivil(a, m, k) \in Int
                       /\ DaysFromCivil(a, m, k) = DaysFromCivil(a, m, 1) + k - 1
    BY <1>1, DaysOfMonth, Zenon
  <1>5. /\ DaysFromCivil(a, m, 31) \in Int
        /\ DaysFromCivil(a, m, 31) = DaysFromCivil(a, m, 1) + 31 - 1
        /\ DaysFromCivil(a, m, 1) \in Int
    BY <1>4, SMT
  <1> QED BY <1>2, <1>3, <1>5, SMT

\* Today is in the year it is said to be in.
LEMMA TodayInYear ==
    ASSUME NEW y, NEW m, NEW d, OnDay(y, m, d)
    PROVE  /\ DaysFromCivil(y, 1, 1) \in Int
           /\ DaysFromCivil(y, 1, 1) <= today /\ today <= DaysFromCivil(y, 12, 31)
           /\ DaysFromCivil(y, 12, 31) = DaysFromCivil(y, 1, 1) + (IF Leap(y) THEN 365 ELSE 364)
  <1>1. y \in Nat /\ y > 0 /\ m \in 1..12 /\ d \in 1..31 /\ today = DaysFromCivil(y, m, d)
    BY DEF OnDay
  <1>2. WithinYear(y, m, d)
    BY <1>1, YearSpan
  <1> QED BY <1>1, <1>2 DEF WithinYear

\* A day of the last 365.
Recent(n) == n \in Int /\ n \in today - 365 .. today

\* A month and a day without a year, valid or not, fall within the last 365
\* days.
LEMMA YearlessDay ==
    ASSUME OnDate, NEW m \in 1..12, NEW d \in 1..31
    PROVE  Recent(DaysFromCivil(YearFor(m, d), m, d))
  <1> PICK y : y = date.y
    OBVIOUS
  <1>1. OnDay(y, date.m, date.d) /\ ThisYearNumber = y
    BY TodayIsDate
  <1>2. y \in Nat /\ y > 1 /\ y > 0 /\ y - 1 \in Nat /\ y - 1 > 0 /\ d \in Int /\ today \in Int
    BY <1>1 DEF OnDay
  <1>3. /\ DaysFromCivil(y, 1, 1) \in Int /\ DaysFromCivil(y, 1, 1) <= today
        /\ today <= DaysFromCivil(y, 1, 1) + 365
    <2>1. /\ DaysFromCivil(y, 1, 1) \in Int
          /\ DaysFromCivil(y, 1, 1) <= today /\ today <= DaysFromCivil(y, 12, 31)
          /\ DaysFromCivil(y, 12, 31) = DaysFromCivil(y, 1, 1) + (IF Leap(y) THEN 365 ELSE 364)
      BY <1>1, TodayInYear, SMT
    <2> QED BY <1>2, <2>1, SMT
  <1>4. DaysFromCivil(y, m, d) \in Int /\ DaysFromCivil(y, 1, 1) <= DaysFromCivil(y, m, d)
    <2>1. WithinYear(y, m, d)
      BY <1>2, YearSpan
    <2> QED BY <2>1 DEF WithinYear
  <1>5. CASE DaysFromCivil(y, m, d) > today
    <2>1. YearFor(m, d) = y - 1
      BY <1>1, <1>5, Zenon DEF YearFor
    <2>2. DaysFromCivil(y - 1, m, d) \in Int /\ DaysFromCivil(y, m, d) <= DaysFromCivil(y - 1, m, d) + 366
      <3>1. LastYearsDay(y, m, d)
        BY <1>2, YearBack
      <3> QED BY <3>1 DEF LastYearsDay
    <2>3. DaysFromCivil(y - 1, m, d) <= DaysFromCivil(y - 1, 12, 31)
      <3>1. WithinYear(y - 1, m, d)
        BY <1>2, YearSpan
      <3> QED BY <3>1 DEF WithinYear
    <2>4. /\ DaysFromCivil(y - 1, 12, 31) \in Int
          /\ DaysFromCivil(y, 1, 1) = DaysFromCivil(y - 1, 12, 31) + 1
      BY <1>2, YearTurn, Zenon
    <2> QED BY <1>2, <1>3, <1>4, <1>5, <2>1, <2>2, <2>3, <2>4, SMT DEF Recent
  <1>6. CASE ~ (DaysFromCivil(y, m, d) > today)
    <2>1. YearFor(m, d) = y
      BY <1>1, <1>6, Zenon DEF YearFor
    <2> QED BY <1>2, <1>3, <1>4, <1>6, <2>1, SMT DEF Recent
  <1> QED BY <1>5, <1>6

\* An accepted year is a year.
LEMMA YearOKIsYear ==
    ASSUME NEW y, YearOK(y)
    PROVE  y \in Nat /\ y > 1
  BY SMT DEF YearOK

\* A side of the text is made of numbers.
LEMMA SideIs ==
    ASSUME NEW s \in Side
    PROVE  s.y \in Nat /\ s.m \in 1..12 /\ s.d \in 0..31 /\ s.d \in Int
  BY DEF Side

\* A Chinese date.
LEMMA ZhAbsolute ==
    ASSUME OnDate, NEW s \in Side
    PROVE  /\ IsSpec(ParseZhAbsolute(s)) /\ ParseZhAbsolute(s).kind # "range"
           /\ s.y # 0 /\ ~ YearOK(s.y) => ParseZhAbsolute(s) = None
           /\ s.y = 0 => ParseZhAbsolute(s).from \in today - 365 .. today
  <1>1. s.y \in Nat /\ s.m \in 1..12 /\ s.d \in 0..31
    BY SideIs
  <1> PICK d : d = IF s.d = 0 THEN 1 ELSE s.d
    OBVIOUS
  <1>2. d \in 1..31 /\ d \in Int
    BY <1>1, SMT
  <1>3. ParseZhAbsolute(s) =
          IF s.y # 0 /\ ~ YearOK(s.y) THEN None
          ELSE SingleDay(DaysFromCivil(IF s.y # 0 THEN s.y ELSE YearFor(s.m, d), s.m, d))
    BY Zenon DEF ParseZhAbsolute
  <1>4. CASE s.y # 0 /\ ~ YearOK(s.y)
    BY <1>3, <1>4, SpecShapes
  <1>5. CASE s.y # 0 /\ YearOK(s.y)
    <2>1. DaysFromCivil(s.y, s.m, d) \in Int
      BY <1>1, <1>2, <1>5, YearOKIsYear, DayIsInt, Zenon
    <2>2. ParseZhAbsolute(s) = SingleDay(DaysFromCivil(s.y, s.m, d))
      BY <1>3, <1>5, Zenon
    <2> QED BY <1>5, <2>1, <2>2, SpecShapes
  <1>6. CASE s.y = 0
    <2> PICK n : n = DaysFromCivil(YearFor(s.m, d), s.m, d)
      OBVIOUS
    <2>1. Recent(n)
      BY <1>1, <1>2, YearlessDay
    <2>2. n \in Int /\ n \in today - 365 .. today
      BY <2>1 DEF Recent
    <2>3. ParseZhAbsolute(s) = SingleDay(n)
      BY <1>3, <1>6, Zenon
    <2> QED BY <1>6, <2>2, <2>3, SpecShapes
  <1> QED BY <1>4, <1>5, <1>6

\* A Chinese range: capped, or not a range only for its year.
LEMMA ZhRange ==
    ASSUME OnDate, NEW t, t.left \in Side, t.right \in Side
    PROVE  /\ RangeOutcome(ParseZhRange(t))
           /\ t.right.y \in {0, t.left.y} /\ t.left.m <= t.right.m /\ ParseZhRange(t) = NotRange
                 => t.left.y # 0 /\ ~ YearOK(t.left.y)
  <1> PICK l, r, y0 : l = t.left /\ r = t.right /\ y0 = ThisYearNumber
    OBVIOUS
  <1>1. /\ l.y \in Nat /\ l.m \in 1..12 /\ l.d \in 0..31 /\ l.d \in Int
        /\ r.y \in Nat /\ r.m \in 1..12 /\ r.d \in 0..31 /\ r.d \in Int
    BY SideIs
  <1>2. y0 \in Nat /\ y0 > 1
    BY TodayIsDate DEF OnDay
  <1> PICK y1, y2 : y1 = (IF l.y = 0 THEN y0 ELSE l.y) /\ y2 = (IF r.y = 0 THEN y1 ELSE r.y)
    OBVIOUS
  <1> DEFINE Wrong == \/ \E y \in {l.y, r.y} \ {0} : ~ YearOK(y)
                      \/ y2 < y1 \/ (y2 = y1 /\ r.m < l.m)
             days == RangeParse(DaysFromCivil(y0, l.m, l.d), DaysFromCivil(y0, r.m, r.d))
             months == RangeParse(DaysFromCivil(y1, l.m, 1),
                                  DaysFromCivil(y2, r.m, LastDayOfMonth(y2, r.m)))
  <1>3. ParseZhRange(t) =
          IF MonthDay(l) /\ MonthDay(r)
          THEN IF r.m < l.m THEN NotRange ELSE days
          ELSE IF Wrong THEN NotRange ELSE months
    BY Zenon DEF ParseZhRange
  <1>4. RangeOutcome(days) /\ days # NotRange
    <2>1. DaysFromCivil(y0, l.m, l.d) \in Int /\ DaysFromCivil(y0, r.m, r.d) \in Int
      BY <1>1, <1>2, DayIsInt, Zenon
    <2> QED BY <2>1, RangeParseBound, Zenon
  <1>5. ASSUME ~ Wrong PROVE RangeOutcome(months) /\ months # NotRange
    <2>1. (l.y # 0 => YearOK(l.y)) /\ (r.y # 0 => YearOK(r.y))
      BY <1>5
    <2>2. y1 \in Nat /\ y1 > 1 /\ y2 \in Nat /\ y2 > 1
      BY <1>2, <2>1, YearOKIsYear, Zenon
    <2>3. LastDayOfMonth(y2, r.m) \in Int /\ 1 \in Int
      <3>1. LastDayOfMonth(y2, r.m) \in 28..31
        BY <1>1, <2>2, LastDayIsInt, Zenon
      <3> QED BY <3>1, SMT
    <2>4. DaysFromCivil(y1, l.m, 1) \in Int /\ DaysFromCivil(y2, r.m, LastDayOfMonth(y2, r.m)) \in Int
      BY <1>1, <2>2, <2>3, DayIsInt, Zenon
    <2> QED BY <2>4, RangeParseBound, Zenon
  <1>6. RangeOutcome(NotRange)
    BY DEF RangeOutcome
  <1>7. ASSUME r.y \in {0, l.y}, l.m <= r.m, Wrong
        PROVE  l.y # 0 /\ ~ YearOK(l.y)
    <2>1. ~ (r.m < l.m) /\ y2 = y1 /\ ~ (y2 < y1)
      BY <1>1, <1>2, <1>7, SMT
    <2> QED BY <1>7, <2>1, Zenon
  <1> HIDE DEF Wrong, days, months
  <1>8. l.m <= r.m => ~ (r.m < l.m)
    BY <1>1, SMT
  <1> QED BY <1>3, <1>4, <1>5, <1>6, <1>7, <1>8, Zenon

\* An English range is capped.
LEMMA EnRange ==
    ASSUME OnDate, NEW t, t.left \in Side, t.right \in Side
    PROVE  RangeOutcome(ParseEnRange(t))
  <1> PICK l, r, y0 : l = t.left /\ r = t.right /\ y0 = ThisYearNumber
    OBVIOUS
  <1>1. l.m \in 1..12 /\ r.m \in 1..12 /\ 1 \in Int
    BY SideIs
  <1>2. y0 \in Nat /\ y0 > 1
    BY TodayIsDate DEF OnDay
  <1>3. LastDayOfMonth(y0, r.m) \in Int
    <2>1. LastDayOfMonth(y0, r.m) \in 28..31
      BY <1>1, <1>2, LastDayIsInt, Zenon
    <2> QED BY <2>1, SMT
  <1>4. DaysFromCivil(y0, l.m, 1) \in Int /\ DaysFromCivil(y0, r.m, LastDayOfMonth(y0, r.m)) \in Int
    BY <1>1, <1>2, <1>3, DayIsInt, Zenon
  <1>5. RangeOutcome(RangeParse(DaysFromCivil(y0, l.m, 1),
                                DaysFromCivil(y0, r.m, LastDayOfMonth(y0, r.m))))
    BY <1>4, RangeParseBound, Zenon
  <1>6. RangeOutcome(NotRange)
    BY DEF RangeOutcome
  <1> QED BY <1>5, <1>6, Zenon DEF ParseEnRange

\* A range text gives a capped range, nothing, or the date on its left side.
LEMMA RangeText ==
    ASSUME OnDate, NEW t, t.left \in Side, t.right \in Side, t.form \in {"zhRange", "enRange"}
    PROVE  /\ IsSpec(Parse(t))
           /\ Parse(t).kind = "range" => Parse(t).to - Parse(t).from \in 0 .. RangeMaxDays - 1
           /\ t.right.y \in {0, t.left.y} /\ t.left.m <= t.right.m => Parse(t).kind # "day"
  <1>1. NotRange # TooLarge /\ \A s : IsSpec(s) => s # NotRange /\ s # TooLarge
    BY DEF NotRange, TooLarge, IsSpec
  <1>2. CASE t.form = "enRange"
    <2>1. Parse(t) = IF ParseEnRange(t) \in {NotRange, TooLarge} THEN None ELSE ParseEnRange(t)
      BY <1>2, Zenon DEF Parse
    <2> QED BY <1>1, <2>1, EnRange, SpecShapes DEF RangeOutcome
  <1>3. CASE t.form = "zhRange"
    <2> PICK r : r = ParseZhRange(t)
      OBVIOUS
    <2>1. Parse(t) = CASE r = NotRange -> ParseZhBoth(t)
                       [] r = TooLarge -> None
                       [] OTHER -> r
      BY <1>3, Zenon DEF Parse
    <2>2. CASE r = NotRange
      <3>1. Parse(t) = ParseZhBoth(t)
        BY <1>1, <2>1, <2>2
      <3>2. ParseZhBoth(t) \in {None, ParseZhAbsolute(t.left)}
        BY Zenon DEF ParseZhBoth
      <3>3. /\ IsSpec(Parse(t)) /\ Parse(t).kind # "range"
        BY <3>1, <3>2, ZhAbsolute, SpecShapes
      <3>4. t.right.y \in {0, t.left.y} /\ t.left.m <= t.right.m => Parse(t) = None
        BY <2>2, <3>1, <3>2, ZhAbsolute, ZhRange, Zenon
      <3> QED BY <3>3, <3>4, SpecShapes
    <2>3. CASE r = TooLarge
      BY <1>1, <2>1, <2>3, SpecShapes
    <2>4. CASE r # NotRange /\ r # TooLarge
      <3>1. Parse(t) = r
        BY <2>1, <2>4
      <3>2. IsSpec(r) /\ r.kind = "range" /\ r.to - r.from \in 0 .. RangeMaxDays - 1
        BY <2>4, ZhRange DEF RangeOutcome
      <3> QED BY <3>1, <3>2
    <2> QED BY <2>2, <2>3, <2>4
  <1> QED BY <1>2, <1>3

\* A whole month.
LEMMA WholeMonth ==
    ASSUME NEW y \in Nat, y > 0, NEW m \in 1..12
    PROVE  /\ DaysFromCivil(y, m, 1) \in Int /\ MonthDays(y, m) \in 28..31
           /\ DaysFromCivil(y, m, LastDayOfMonth(y, m)) = DaysFromCivil(y, m, 1) + MonthDays(y, m) - 1
  <1>1. y \in Nat /\ y > 0 /\ m \in 1..12
    OBVIOUS
  <1>2. LastDayOfMonth(y, m) = MonthDays(y, m) /\ MonthDays(y, m) \in 28..31
    BY <1>1, LastDay, MonthStep, Zenon
  <1>3. MonthDays(y, m) \in Int /\ 1 \in Int
    BY <1>2, SMT
  <1>4. \A k \in Int : /\ DaysFromCivil(y, m, k) \in Int
                       /\ DaysFromCivil(y, m, k) = DaysFromCivil(y, m, 1) + k - 1
    BY <1>1, DaysOfMonth, Zenon
  <1> QED BY <1>2, <1>3, <1>4, Zenon

\* Last month ends where this one begins.
LEMMA MonthBeforeThis ==
    ASSUME NEW y \in Nat, y > 1, NEW m \in 1..12, NEW d, NEW b, b = MonthBefore([y |-> y, m |-> m, d |-> d])
    PROVE  /\ b.y \in Nat /\ b.y > 0 /\ b.m \in 1..12
           /\ MonthDays(b.y, b.m) = IF m = 1 THEN MonthDays(y - 1, 12) ELSE MonthDays(y, m - 1)
           /\ DaysFromCivil(y, m, 1) = DaysFromCivil(b.y, b.m, 1) + MonthDays(b.y, b.m)
  <1> PICK a, k : a = b.y /\ k = b.m
    OBVIOUS
  <1>1. /\ m = 1 => a = y - 1 /\ k = 12
        /\ m # 1 => a = y /\ k = m - 1
    BY DEF MonthBefore
  <1>2. a \in Nat /\ a > 0 /\ k \in 1..12 /\ YearAfter(a, k) = y /\ MonthAfter(k) = m
    BY <1>1, SMT DEF YearAfter, MonthAfter
  <1>3. DaysFromCivil(YearAfter(a, k), MonthAfter(k), 1) = DaysFromCivil(a, k, 1) + MonthDays(a, k)
    BY <1>2, MonthStep, Zenon
  <1>4. MonthDays(a, k) = IF m = 1 THEN MonthDays(y - 1, 12) ELSE MonthDays(y, m - 1)
    BY <1>1, Zenon
  <1> QED BY <1>2, <1>3, <1>4, Zenon

\* The terms, by the calendar.
LEMMA TermDays ==
    ASSUME OnDate, NEW y, NEW m, NEW d, y = date.y, m = date.m, d = date.d,
           NEW first, first = today - d + 1
    PROVE  /\ first \in Int /\ first <= today
           /\ IsSpec(SpecForTerm("ThisMonth")) /\ IsSpec(SpecForTerm("LastMonth"))
           /\ SpecForTerm("ThisMonth") = DayRange(first, first + MonthDays(y, m) - 1)
           /\ SpecForTerm("LastMonth") =
                DayRange(first - (IF m = 1 THEN MonthDays(y - 1, 12) ELSE MonthDays(y, m - 1)), first - 1)
           /\ IsSpec(SpecForTerm("ThisYear"))
           /\ SpecForTerm("ThisYear").to - SpecForTerm("ThisYear").from
                = (IF Leap(y) THEN 365 ELSE 364)
           /\ SpecForTerm("ThisYear").from <= first /\ today <= SpecForTerm("ThisYear").to
  <1>1. OnDay(y, m, d)
    BY TodayIsDate
  <1>2. /\ y \in Nat /\ y > 1 /\ y > 0 /\ m \in 1..12 /\ d \in 1..31 /\ d \in Int /\ today \in Int
        /\ CivilFromDays(today) = [y |-> y, m |-> m, d |-> d]
        /\ DaysFromCivil(y, m, 1) \in Int /\ today = DaysFromCivil(y, m, 1) + d - 1
    BY <1>1 DEF OnDay
  <1>3. first = DaysFromCivil(y, m, 1) /\ first \in Int /\ first <= today
    BY <1>2, SMT
  <1> DEFINE now == [y |-> y, m |-> m, d |-> d]
  <1>4. /\ IsSpec(SpecForTerm("ThisMonth"))
        /\ SpecForTerm("ThisMonth") = DayRange(first, first + MonthDays(y, m) - 1)
    <2>1. SpecForTerm("ThisMonth")
            = DayRange(DaysFromCivil(now.y, now.m, 1),
                       DaysFromCivil(now.y, now.m, LastDayOfMonth(now.y, now.m)))
      BY <1>2, Zenon DEF SpecForTerm
    <2>2. now.y = y /\ now.m = m
      OBVIOUS
    <2>3. /\ MonthDays(y, m) \in 28..31
          /\ DaysFromCivil(y, m, LastDayOfMonth(y, m)) = first + MonthDays(y, m) - 1
      BY <1>2, <1>3, WholeMonth, Zenon
    <2>4. first + MonthDays(y, m) - 1 \in Int
      BY <1>3, <2>3, SMT
    <2>5. SpecForTerm("ThisMonth") = DayRange(first, first + MonthDays(y, m) - 1)
      BY <1>3, <2>1, <2>2, <2>3, Zenon
    <2> QED BY <1>3, <2>4, <2>5, SpecShapes
  <1>5. /\ IsSpec(SpecForTerm("LastMonth"))
        /\ SpecForTerm("LastMonth") =
             DayRange(first - (IF m = 1 THEN MonthDays(y - 1, 12) ELSE MonthDays(y, m - 1)), first - 1)
    <2> PICK b, len : /\ b = MonthBefore([y |-> y, m |-> m, d |-> d])
                      /\ len = IF m = 1 THEN MonthDays(y - 1, 12) ELSE MonthDays(y, m - 1)
      OBVIOUS
    <2>1. SpecForTerm("LastMonth")
            = DayRange(DaysFromCivil(b.y, b.m, 1), DaysFromCivil(b.y, b.m, LastDayOfMonth(b.y, b.m)))
      BY <1>2, Zenon DEF SpecForTerm
    <2>2. /\ b.y \in Nat /\ b.y > 0 /\ b.m \in 1..12
          /\ MonthDays(b.y, b.m) = len
          /\ first = DaysFromCivil(b.y, b.m, 1) + MonthDays(b.y, b.m)
      BY <1>2, <1>3, MonthBeforeThis
    <2>3. /\ DaysFromCivil(b.y, b.m, 1) \in Int /\ MonthDays(b.y, b.m) \in 28..31
          /\ DaysFromCivil(b.y, b.m, LastDayOfMonth(b.y, b.m))
               = DaysFromCivil(b.y, b.m, 1) + MonthDays(b.y, b.m) - 1
      BY <2>2, WholeMonth, Zenon
    <2>4. /\ DaysFromCivil(b.y, b.m, 1) = first - MonthDays(b.y, b.m)
          /\ DaysFromCivil(b.y, b.m, LastDayOfMonth(b.y, b.m)) = first - 1
          /\ first - MonthDays(b.y, b.m) \in Int /\ first - 1 \in Int
      BY <2>2, <2>3, SMT
    <2>5. SpecForTerm("LastMonth") = DayRange(first - MonthDays(b.y, b.m), first - 1)
      BY <2>1, <2>4, Zenon
    <2>6. IsSpec(SpecForTerm("LastMonth"))
      <3> PICK a, z : a = first - MonthDays(b.y, b.m) /\ z = first - 1
        OBVIOUS
      <3> QED BY <2>4, <2>5, SpecShapes
    <2> QED BY <2>2, <2>5, <2>6, Zenon
  <1>6. /\ IsSpec(SpecForTerm("ThisYear"))
        /\ SpecForTerm("ThisYear").to - SpecForTerm("ThisYear").from = (IF Leap(y) THEN 365 ELSE 364)
        /\ SpecForTerm("ThisYear").from <= first /\ today <= SpecForTerm("ThisYear").to
    <2>1. SpecForTerm("ThisYear") = DayRange(DaysFromCivil(now.y, 1, 1), DaysFromCivil(now.y, 12, 31))
      BY <1>2, Zenon DEF SpecForTerm
    <2>2. now.y = y
      OBVIOUS
    <2>3. /\ DaysFromCivil(y, 1, 1) \in Int
          /\ DaysFromCivil(y, 1, 1) <= today /\ today <= DaysFromCivil(y, 12, 31)
          /\ DaysFromCivil(y, 12, 31) = DaysFromCivil(y, 1, 1) + (IF Leap(y) THEN 365 ELSE 364)
      BY <1>1, TodayInYear, SMT
    <2>4. DaysFromCivil(y, 1, 1) <= first
      <3> PICK k \in 1..31 : k = 1
        OBVIOUS
      <3>1. WithinYear(y, m, k)
        BY <1>2, YearSpan
      <3>2. DaysFromCivil(y, 1, 1) <= DaysFromCivil(y, m, k)
        BY <3>1 DEF WithinYear
      <3> QED BY <1>3, <3>2
    <2> PICK a, z : a = DaysFromCivil(y, 1, 1) /\ z = DaysFromCivil(y, 12, 31)
      OBVIOUS
    <2>5. a \in Int /\ z \in Int /\ z - a = (IF Leap(y) THEN 365 ELSE 364)
      BY <2>3, SMT
    <2>6. SpecForTerm("ThisYear") = DayRange(a, z) /\ DayRange(a, z).from = a /\ DayRange(a, z).to = z
      BY <2>1, <2>2 DEF DayRange
    <2> QED BY <2>3, <2>4, <2>5, <2>6, SpecShapes
  <1> QED BY <1>3, <1>4, <1>5, <1>6

\* The weeks begin on Mondays.
LEMMA TermWeeks ==
    ASSUME OnDate, NEW monday, monday = today - date.wd
    PROVE  /\ IsSpec(SpecForTerm("ThisWeek")) /\ IsSpec(SpecForTerm("LastWeek"))
           /\ SpecForTerm("ThisWeek") = DayRange(monday, monday + 6)
           /\ SpecForTerm("LastWeek") = DayRange(monday - 7, monday - 1)
  <1>1. today \in Int /\ date.wd = Weekday(today)
    BY TodayIsDate DEF OnDay, OnDate
  <1>2. monday = today - Weekday(today) /\ monday \in Int
    BY <1>1, SMT DEF Weekday
  <1>3. monday + 6 \in Int /\ monday - 7 \in Int /\ monday - 1 \in Int
    BY <1>2
  <1>4. SpecForTerm("ThisWeek") = DayRange(monday, monday + 6)
    BY <1>2, Zenon DEF SpecForTerm
  <1>5. SpecForTerm("LastWeek") = DayRange(monday - 7, monday - 1)
    BY <1>2, Zenon DEF SpecForTerm
  <1>6. \A a, b \in Int : IsSpec(DayRange(a, b))
    BY SpecShapes
  <1> QED BY <1>2, <1>3, <1>4, <1>5, <1>6, Zenon

\* The terms for one day.
LEMMA TermSingle ==
    ASSUME OnDate, NEW term \in {"Today", "Yesterday", "DayBeforeYesterday"}
    PROVE  /\ IsSpec(SpecForTerm(term))
           /\ SpecForTerm(term).from = SpecForTerm(term).to
           /\ SpecForTerm(term).from \in today - 2 .. today
  <1>1. today \in Int
    BY TodayIsDate DEF OnDay
  <1>2. /\ SpecForTerm("Today") = SingleDay(today)
        /\ SpecForTerm("Yesterday") = SingleDay(today - 1)
        /\ SpecForTerm("DayBeforeYesterday") = SingleDay(today - 2)
    BY Zenon DEF SpecForTerm
  <1>3. PICK k \in Int : k \in today - 2 .. today /\ SpecForTerm(term) = SingleDay(k)
    BY <1>1, <1>2
  <1> QED BY <1>3, SpecShapes DEF IsSpec

\* Every text gives something the retrieval can look up.
LEMMA ParseIsSpec ==
    ASSUME OnDate, NEW t \in Texts \cup {NoText}
    PROVE  IsSpec(Parse(t))
  <1>1. CASE t = NoText
    BY <1>1, ParseNothing, SpecShapes
  <1>2. CASE t \in [form : {"zhRange", "enRange"}, left : Side, right : Side]
    BY <1>2, RangeText
  <1>3. CASE t \in [form : {"zhDate", "isoDate", "enDate"}, left : Side]
    <2> PICK s : s = t.left
      OBVIOUS
    <2>1. s \in Side /\ t.form \in {"zhDate", "isoDate", "enDate"}
      BY <1>3
    <2>2. s.y \in Nat /\ s.m \in 1..12 /\ s.d \in Int
      BY <2>1, SideIs
    <2>3. CASE t.form = "zhDate"
      <3>1. Parse(t) = ParseZhAbsolute(s)
        BY <2>3, Zenon DEF Parse
      <3> QED BY <2>1, <3>1, ZhAbsolute
    <2>4. CASE t.form = "isoDate"
      <3>1. Parse(t) = IF YearOK(s.y) THEN SingleDay(DaysFromCivil(s.y, s.m, s.d)) ELSE None
        BY <2>4, Zenon DEF Parse, ParseIsoAbsolute
      <3>2. YearOK(s.y) => DaysFromCivil(s.y, s.m, s.d) \in Int
        BY <2>2, YearOKIsYear, DayIsInt, Zenon
      <3> QED BY <3>1, <3>2, SpecShapes
    <2>5. CASE t.form = "enDate"
      <3> PICK y : y = IF s.y = 0 THEN ThisYearNumber ELSE s.y
        OBVIOUS
      <3>1. Parse(t) = IF s.d = 0 \/ ~ YearOK(y) THEN None ELSE SingleDay(DaysFromCivil(y, s.m, s.d))
        BY <2>5, Zenon DEF Parse, ParseEnAbsolute
      <3>2. YearOK(y) => DaysFromCivil(y, s.m, s.d) \in Int
        BY <2>2, YearOKIsYear, DayIsInt, Zenon
      <3> QED BY <3>1, <3>2, SpecShapes
    <2> QED BY <2>1, <2>3, <2>4, <2>5
  <1>4. CASE t \in [form : {"term"}, term : Terms]
    <2>1. t.form = "term" /\ t.term \in Terms
      BY <1>4
    <2>2. Parse(t) = SpecForTerm(t.term)
      BY <2>1, Zenon DEF Parse
    <2> PICK y, m, d, first, monday :
          /\ y = date.y /\ m = date.m /\ d = date.d
          /\ first = today - d + 1 /\ monday = today - date.wd
      OBVIOUS
    <2>3. IsSpec(SpecForTerm("ThisMonth")) /\ IsSpec(SpecForTerm("LastMonth")) /\ IsSpec(SpecForTerm("ThisYear"))
      BY TermDays, SMT
    <2>4. IsSpec(SpecForTerm("ThisWeek")) /\ IsSpec(SpecForTerm("LastWeek"))
      BY TermWeeks
    <2>5. \A w \in {"Today", "Yesterday", "DayBeforeYesterday"} : IsSpec(SpecForTerm(w))
      BY TermSingle
    <2> QED BY <2>1, <2>2, <2>3, <2>4, <2>5 DEF Terms
  <1> QED BY <1>1, <1>2, <1>3, <1>4, TimeQueryAssumption

\* Texts are told apart by their form.
LEMMA FormOfText ==
    ASSUME NEW t \in Texts \cup {NoText}
    PROVE  /\ t.form \in {"zhRange", "enRange"} => t.left \in Side /\ t.right \in Side
           /\ t.form = "zhDate" => t.left \in Side
           /\ t.form = "term" => t.term \in Terms
  <1>1. CASE t = NoText
    BY <1>1 DEF NoText
  <1>2. CASE t \in [form : {"zhRange", "enRange"}, left : Side, right : Side]
    BY <1>2
  <1>3. CASE t \in [form : {"zhDate", "isoDate", "enDate"}, left : Side]
    BY <1>3
  <1>4. CASE t \in [form : {"term"}, term : Terms]
    BY <1>4
  <1> QED BY <1>1, <1>2, <1>3, <1>4, TimeQueryAssumption

\* Whatever is asked on whatever day, the terms for a week, a month or a year are
\* the weeks, months and years of the calendar (spec_for_term).
THEOREM TermsTileAlways == Spec => []TermsTile
  <1>1. TimeInv => TermsTile
    <2> SUFFICES ASSUME TimeInv, text.form = "term" PROVE TermsTile
      BY DEF TermsTile
    <2> PICK y, m, d, first, monday :
          /\ y = date.y /\ m = date.m /\ d = date.d
          /\ first = today - d + 1 /\ monday = today - date.wd
      OBVIOUS
    <2>1. OnDate /\ spec = SpecForTerm(text.term) /\ text.term \in Terms
      <3>1. OnDate /\ spec = Parse(text) /\ text.term \in Terms
        BY FormOfText DEF TimeInv
      <3>2. Parse(text) = SpecForTerm(text.term)
        BY Zenon DEF Parse
      <3> QED BY <3>1, <3>2
    <2>2. /\ SpecForTerm("ThisMonth") = DayRange(first, first + MonthDays(y, m) - 1)
          /\ SpecForTerm("LastMonth") =
               DayRange(first - (IF m = 1 THEN MonthDays(y - 1, 12) ELSE MonthDays(y, m - 1)), first - 1)
          /\ SpecForTerm("ThisYear").to - SpecForTerm("ThisYear").from
               = (IF Leap(y) THEN 365 ELSE 364)
          /\ SpecForTerm("ThisYear").from <= first /\ today <= SpecForTerm("ThisYear").to
      BY <2>1, TermDays, SMT
    <2>3. /\ SpecForTerm("ThisWeek") = DayRange(monday, monday + 6)
          /\ SpecForTerm("LastWeek") = DayRange(monday - 7, monday - 1)
      BY <2>1, TermWeeks
    <2>4. \A w \in {"Today", "Yesterday", "DayBeforeYesterday"} :
             SpecForTerm(w).from = SpecForTerm(w).to /\ SpecForTerm(w).from \in today - 2 .. today
      BY <2>1, TermSingle
    <2>5. CASE text.term \in {"Today", "Yesterday", "DayBeforeYesterday"}
      BY <2>1, <2>4, <2>5, SMT DEF TermsTile
    <2>6. CASE text.term \in {"ThisWeek", "LastWeek"}
      BY <2>1, <2>3, <2>6, SMT DEF TermsTile
    <2>7. CASE text.term = "ThisMonth"
      BY <2>1, <2>2, <2>7, SMT DEF TermsTile
    <2>8. CASE text.term = "LastMonth"
      BY <2>1, <2>2, <2>8, SMT DEF TermsTile
    <2>9. CASE text.term = "ThisYear"
      BY <2>1, <2>2, <2>9, SMT DEF TermsTile
    <2> QED BY <2>1, <2>5, <2>6, <2>7, <2>8, <2>9 DEF Terms
  <1> QED BY <1>1, TimeInvariance, PTL

\* A Chinese date without a year, valid or not, is found at most a year back and
\* never in the future (year_for).
THEOREM YearlessIsRecentAlways == Spec => []YearlessIsRecent
  <1>1. TimeInv => YearlessIsRecent
    <2> SUFFICES ASSUME TimeInv, text.form = "zhDate", text.left.y = 0
                 PROVE  spec.from \in today - 365 .. today
      BY DEF YearlessIsRecent
    <2>1. OnDate /\ text.left \in Side /\ spec = Parse(text)
      BY FormOfText DEF TimeInv
    <2>2. Parse(text) = ParseZhAbsolute(text.left)
      BY Zenon DEF Parse
    <2> QED BY <2>1, <2>2, ZhAbsolute
  <1> QED BY <1>1, TimeInvariance, PTL

\* No range the parser returns is longer than RANGE_MAX_DAYS, and none in the
\* right order degrades to its first day.
THEOREM RangesCappedAlways == Spec => []RangesCapped
  <1>1. TimeInv => RangesCapped
    <2> SUFFICES ASSUME TimeInv, text.form \in {"zhRange", "enRange"} PROVE RangesCapped
      BY DEF RangesCapped
    <2>1. OnDate /\ text.left \in Side /\ text.right \in Side /\ spec = Parse(text)
      BY FormOfText DEF TimeInv
    <2> QED BY <2>1, RangeText DEF RangesCapped
  <1> QED BY <1>1, TimeInvariance, PTL

\* One day of the writer's calendar is covered by the keys looked up for it, for
\* every day and every time zone (temporal_keys_for_spec).
THEOREM LocalDayCoveredAlways == Spec => []LocalDayCovered
  <1>1. TimeInv => LocalDayCovered
    <2> SUFFICES ASSUME TimeInv, spec.kind = "day",
                        NEW hour \in 0..23, NEW zone \in -12..14
                 PROVE  BucketKeys(spec.from * 24 + hour - zone) \cap KeysForSpec(spec) # {}
      BY DEF LocalDayCovered
    <2> PICK d : d = spec.from
      OBVIOUS
    <2>1. d \in Int /\ spec.to = d
      BY ParseIsSpec DEF TimeInv, IsSpec
    <2>2. (d * 24 + hour - zone) \div 24 \in (d - 1)..(d + 1)
      BY <2>1, SMT
    <2>3. KeysForSpec(spec) = (d - 1)..(d + 1)
      BY <2>1 DEF KeysForSpec
    <2>4. (d * 24 + hour - zone) \div 24 \in BucketKeys(d * 24 + hour - zone)
      BY DEF BucketKeys
    <2> QED BY <2>2, <2>3, <2>4
  <1> QED BY <1>1, TimeInvariance, PTL

(***************************************************************************)
(* Induction, recursion and loops.                                         *)
(***************************************************************************)
\* A set of naturals with an element has a least one.
LEMMA LeastNatural ==
    ASSUME NEW T, T \subseteq Nat, T # {}
    PROVE  \E x \in T : \A y \in T : x <= y
  <1>1. PICK R : R = OpToRel(<, Nat)
    OBVIOUS
  <1>2. IsWellFoundedOn(R, Nat)
    BY <1>1, NatLessThanWellFounded
  <1>3. R = {p \in Nat \X Nat : p[1] < p[2]}
    BY <1>1, Zenon DEF OpToRel
  <1>4. PICK x \in T : \A y \in T : ~ (<<y, x>> \in R)
    BY <1>2, WFMin
  <1>5. ASSUME NEW y \in T PROVE x <= y
    <2>1. x \in Nat /\ y \in Nat /\ <<y, x>> \in Nat \X Nat
      OBVIOUS
    <2>2. ~ (y < x)
      BY <1>3, <1>4, <2>1
    <2> QED BY <2>1, <2>2
  <1> QED BY <1>5

\* A set that holds 0 and the successor of each of its naturals holds them all.
LEMMA NatInduct ==
    ASSUME NEW P, 0 \in P, \A n \in Nat : n \in P => n + 1 \in P
    PROVE  Nat \subseteq P
  <1> DEFINE T == {n \in Nat : n \notin P}
  <1> SUFFICES ASSUME T # {} PROVE FALSE
    OBVIOUS
  <1>1. PICK x \in T : \A y \in T : x <= y
    BY LeastNatural
  <1>2. x \in Nat /\ x # 0 /\ x \notin P
    BY <1>1
  <1>3. x - 1 \in Nat /\ ~ (x <= x - 1) /\ (x - 1) + 1 = x
    BY <1>2
  <1>4. x - 1 \in P
    BY <1>1, <1>3
  <1> QED BY <1>2, <1>3, <1>4

\* A family of sets that holds a finite set's subset whenever it holds that
\* subset without one of its elements holds them all.
LEMMA SubsetInduct ==
    ASSUME NEW S, IsFiniteSet(S), NEW P, {} \in P,
           \A T \in SUBSET S : (\E x \in T : T \ {x} \in P) => T \in P
    PROVE  SUBSET S \subseteq P
  <1> DEFINE N == {n \in Nat : \A T \in SUBSET S : Cardinality(T) = n => T \in P}
  <1>1. \A T \in SUBSET S : IsFiniteSet(T) /\ Cardinality(T) \in Nat
    BY FS_Subset, FS_CardinalityType
  <1>2. 0 \in N
    <2>1. \A T \in SUBSET S : Cardinality(T) = 0 => T = {}
      BY <1>1, FS_EmptySet
    <2> QED BY <2>1
  <1>3. ASSUME NEW n \in Nat, n \in N PROVE n + 1 \in N
    <2> SUFFICES ASSUME NEW T \in SUBSET S, Cardinality(T) = n + 1 PROVE T \in P
      OBVIOUS
    <2>1. T # {}
      <3>1. Cardinality(T) # 0
        OBVIOUS
      <3> QED BY <3>1, FS_EmptySet
    <2>2. PICK x \in T : TRUE
      BY <2>1
    <2>3. Cardinality(T \ {x}) = (n + 1) - 1
      BY <1>1, FS_RemoveElement, SMTT(30)
    <2>4. Cardinality(T \ {x}) = n /\ T \ {x} \in SUBSET S
      BY <2>3
    <2>5. T \ {x} \in P
      BY <1>3, <2>4
    <2> QED BY <2>5
  <1> HIDE DEF N
  <1>4. Nat \subseteq N
    BY <1>2, <1>3, NatInduct
  <1> QED BY <1>1, <1>4 DEF N

\* The greatest element of a finite set of integers.
LEMMA MaxOf ==
    ASSUME NEW S, IsFiniteSet(S), S \subseteq Int, S # {}
    PROVE  Max(S) \in S /\ \A y \in S : y <= Max(S)
  <1> DEFINE P == {T \in SUBSET S : T # {} => \E m \in T : \A y \in T : y <= m}
  <1>1. {} \in P
    OBVIOUS
  <1>2. ASSUME NEW T \in SUBSET S, NEW x \in T, T \ {x} \in P PROVE T \in P
    <2>1. CASE T \ {x} = {}
      <3>1. x \in Int /\ \A y \in T : y = x
        BY <2>1
      <3> QED BY <3>1
    <2>2. CASE T \ {x} # {}
      <3>1. PICK m \in T \ {x} : \A y \in T \ {x} : y <= m
        BY <1>2, <2>2
      <3>2. m \in Int /\ x \in Int /\ \A y \in T : y \in Int
        OBVIOUS
      <3>3. CASE x <= m
        <4>1. \A y \in T : y <= m
          BY <3>1, <3>3
        <4> QED BY <4>1
      <3>4. CASE ~ (x <= m)
        <4>1. \A y \in T : y <= x
          BY <3>1, <3>2, <3>4
        <4> QED BY <4>1
      <3> QED BY <3>3, <3>4
    <2> QED BY <2>1, <2>2
  <1> HIDE DEF P
  <1>3. SUBSET S \subseteq P
    BY <1>1, <1>2, SubsetInduct
  <1>4. PICK m \in S : \A y \in S : y <= m
    BY <1>3 DEF P
  <1>5. \A y \in S : m >= y
    BY <1>4
  <1>6. Max(S) \in S /\ \A y \in S : Max(S) >= y
    BY <1>5, Zenon DEF Max
  <1> QED BY <1>6

\* Recursion on the subsets of a finite set: pick takes an element out of a
\* subset, and step goes on from the value for the rest.
Recursion(S, A, base, pick, step) ==
    /\ IsFiniteSet(S) /\ base \in A /\ step \in [S -> [A -> A]]
    /\ \A T \in SUBSET S : T # {} => pick[T] \in T

\* g is the function of such a recursion.
Recursive(g, S, A, base, pick, step) ==
    /\ g \in [SUBSET S -> A]
    /\ \A T \in SUBSET S :
          g[T] = IF T = {} THEN base ELSE step[pick[T]][g[T \ {pick[T]}]]

\* Such a recursion defines a function.
LEMMA SubsetRecursion ==
    ASSUME NEW S, NEW A, NEW base, NEW pick, NEW step, Recursion(S, A, base, pick, step)
    PROVE  \E g : Recursive(g, S, A, base, pick, step)
  <1> USE DEF Recursion
  <1> DEFINE Next1(g, T) == IF T = {} THEN base ELSE step[pick[T]][g[T \ {pick[T]}]]
             N == {n \in Nat : \E g \in [SUBSET S -> A] :
                     \A T \in SUBSET S : Cardinality(T) <= n => g[T] = Next1(g, T)}
  <1>1. \A T \in SUBSET S : IsFiniteSet(T) /\ Cardinality(T) \in Nat
    BY FS_Subset, FS_CardinalityType
  <1>2. \A g \in [SUBSET S -> A] : \A T \in SUBSET S : Next1(g, T) \in A
    OBVIOUS
  <1>3. 0 \in N
    <2> PICK g : g = [T \in SUBSET S |-> base]
      OBVIOUS
    <2>1. \A T \in SUBSET S : Cardinality(T) <= 0 => T = {}
      <3> SUFFICES ASSUME NEW T \in SUBSET S, Cardinality(T) <= 0 PROVE T = {}
        OBVIOUS
      <3>1. Cardinality(T) = 0 /\ IsFiniteSet(T)
        BY <1>1
      <3> QED BY <3>1, FS_EmptySet
    <2>2. g \in [SUBSET S -> A] /\ \A T \in SUBSET S : Cardinality(T) <= 0 => g[T] = Next1(g, T)
      BY <2>1
    <2> QED BY <2>2
  <1>4. ASSUME NEW n \in Nat, n \in N PROVE n + 1 \in N
    <2>1. PICK g \in [SUBSET S -> A] :
            \A T \in SUBSET S : Cardinality(T) <= n => g[T] = Next1(g, T)
      BY <1>4
    <2>2. PICK h : h = [T \in SUBSET S |-> IF Cardinality(T) <= n THEN g[T] ELSE Next1(g, T)]
      OBVIOUS
    <2>3. h \in [SUBSET S -> A]
      BY <1>2, <2>2
    <2>4. ASSUME NEW T \in SUBSET S, Cardinality(T) <= n + 1 PROVE h[T] = Next1(h, T)
      <3>1. h[T] = Next1(g, T)
        BY <2>1, <2>2
      <3>2. CASE T = {}
        BY <3>1, <3>2
      <3>3. CASE T # {}
        <4> PICK x \in T, R \in SUBSET S : x = pick[T] /\ R = T \ {x}
          BY <3>3
        <4>1. Cardinality(R) = Cardinality(T) - 1
          BY <1>1, FS_RemoveElement
        <4>2. Cardinality(R) <= n
          BY <1>1, <2>4, <4>1
        <4>3. h[R] = g[R]
          BY <2>2, <4>2
        <4> QED BY <3>1, <3>3, <4>3
      <3> QED BY <3>2, <3>3
    <2>5. \A T \in SUBSET S : Cardinality(T) <= n + 1 => h[T] = Next1(h, T)
      BY <2>4, Zenon
    <2>6. n + 1 \in Nat
      OBVIOUS
    <2> QED BY <2>3, <2>5, <2>6, Zenon
  <1> HIDE DEF N
  <1>5. Nat \subseteq N
    BY <1>3, <1>4, NatInduct
  <1>6. PICK g \in [SUBSET S -> A] :
          \A T \in SUBSET S : Cardinality(T) <= Cardinality(S) => g[T] = Next1(g, T)
    <2>1. Cardinality(S) \in N
      BY <1>1, <1>5
    <2> QED BY <2>1 DEF N
  <1>7. \A T \in SUBSET S : Cardinality(T) <= Cardinality(S)
    BY FS_Subset
  <1>8. Recursive(g, S, A, base, pick, step)
    BY <1>6, <1>7 DEF Recursive
  <1> QED BY <1>8

\* Recursion on the naturals.
Iterates(f, A, base, step) ==
    /\ f \in [Nat -> A] /\ f[0] = base
    /\ \A n \in Nat : f[n + 1] = step[n][f[n]]

\* It defines a function.
LEMMA NatRecursion ==
    ASSUME NEW A, NEW base \in A, NEW step \in [Nat -> [A -> A]]
    PROVE  \E f : Iterates(f, A, base, step)
  <1> DEFINE Good(h, n) == /\ h \in [Nat -> A] /\ h[0] = base
                           /\ \A k \in Nat : k < n => h[k + 1] = step[k][h[k]]
             N == {n \in Nat : \E h : Good(h, n)}
  <1>1. 0 \in N
    <2>1. PICK h : h = [k \in Nat |-> base]
      OBVIOUS
    <2>2. Good(h, 0)
      BY <2>1
    <2> QED BY <2>2
  <1>2. ASSUME NEW n \in Nat, n \in N PROVE n + 1 \in N
    <2>1. PICK h : Good(h, n)
      BY <1>2
    <2>2. PICK g : g = [k \in Nat |-> IF k <= n THEN h[k] ELSE step[n][h[n]]]
      OBVIOUS
    <2>3. g \in [Nat -> A] /\ g[0] = base
      BY <2>1, <2>2
    <2>4. ASSUME NEW k \in Nat, k < n + 1 PROVE g[k + 1] = step[k][g[k]]
      <3>1. g[k] = h[k]
        BY <2>2, <2>4
      <3>2. CASE k < n
        BY <2>1, <2>2, <3>1, <3>2
      <3>3. CASE k = n
        BY <2>1, <2>2, <3>1, <3>3
      <3> QED BY <2>4, <3>2, <3>3
    <2>5. Good(g, n + 1)
      BY <2>3, <2>4
    <2>6. n + 1 \in Nat
      OBVIOUS
    <2> HIDE DEF Good
    <2> QED BY <2>5, <2>6
  <1>3. Nat \subseteq N
    <2> HIDE DEF N
    <2> QED BY <1>1, <1>2, NatInduct
  \* Two approximations agree as far as both go.
  <1>4. ASSUME NEW n \in Nat, NEW g, NEW h, Good(g, n), Good(h, n + 1) PROVE g[n] = h[n]
    <2> DEFINE M == {k \in Nat : k <= n => g[k] = h[k]}
    <2>1. 0 \in M
      BY <1>4
    <2>2. ASSUME NEW k \in Nat, k \in M PROVE k + 1 \in M
      <3> SUFFICES ASSUME k + 1 <= n PROVE g[k + 1] = h[k + 1]
        OBVIOUS
      <3>1. k < n /\ k < n + 1 /\ g[k] = h[k]
        BY <2>2
      <3> QED BY <1>4, <3>1
    <2> HIDE DEF M
    <2>3. Nat \subseteq M
      BY <2>1, <2>2, NatInduct
    <2> QED BY <2>3 DEF M
  <1> PICK f : f = [n \in Nat |-> (CHOOSE h : Good(h, n))[n]]
    OBVIOUS
  <1>5. ASSUME NEW n \in Nat PROVE \E h : Good(h, n) /\ f[n] = h[n]
    <2>1. \E h : Good(h, n)
      BY <1>3
    <2> HIDE DEF Good
    <2> QED BY <2>1
  <1>6. f \in [Nat -> A] /\ f[0] = base
    <2>1. ASSUME NEW n \in Nat PROVE f[n] \in A /\ (n = 0 => f[n] = base)
      BY <1>5, ZenonT(40)
    <2> QED BY <2>1
  <1>7. ASSUME NEW n \in Nat PROVE f[n + 1] = step[n][f[n]]
    <2>1. PICK g : Good(g, n) /\ f[n] = g[n]
      BY <1>5
    <2>2. n + 1 \in Nat
      OBVIOUS
    <2>3. PICK h : Good(h, n + 1) /\ f[n + 1] = h[n + 1]
      BY <1>5, <2>2
    <2>4. g[n] = h[n]
      <3> HIDE DEF Good
      <3> QED BY <1>4, <2>1, <2>3, Zenon
    <2>5. h[n + 1] = step[n][h[n]]
      BY <2>3
    <2> QED BY <2>1, <2>3, <2>4, <2>5
  <1>8. Iterates(f, A, base, step)
    BY <1>6, <1>7 DEF Iterates
  <1> QED BY <1>8

\* The initial intervals, one index longer each time.
LEMMA IntervalStep ==
    ASSUME NEW n \in Nat
    PROVE  /\ IsFiniteSet(1..n) /\ 1..0 = {}
           /\ \A k \in 1..n : /\ 1..k \in SUBSET (1..n) /\ 1..k # {}
                              /\ Max(1..k) = k /\ (1..k) \ {k} = 1..(k - 1)
           /\ \A T \in SUBSET (1..n) : T # {} => Max(T) \in T
  <1>1. IsFiniteSet(1..n)
    BY CountTo
  <1>2. \A T \in SUBSET (1..n) : T # {} => Max(T) \in T
    <2> SUFFICES ASSUME NEW T \in SUBSET (1..n), T # {} PROVE Max(T) \in T
      OBVIOUS
    <2>1. IsFiniteSet(T)
      BY <1>1, FS_Subset
    <2>2. T \subseteq Int
      OBVIOUS
    <2> QED BY <2>1, <2>2, MaxOf
  <1>3. ASSUME NEW k \in 1..n
        PROVE  /\ 1..k \in SUBSET (1..n) /\ 1..k # {}
               /\ Max(1..k) = k /\ (1..k) \ {k} = 1..(k - 1)
    <2>1. 1..k \in SUBSET (1..n) /\ k \in 1..k /\ (1..k) \ {k} = 1..(k - 1)
      OBVIOUS
    <2>2. IsFiniteSet(1..k) /\ 1..k \subseteq Int /\ 1..k # {}
      BY <2>1, CountTo
    <2>3. PICK m : m = Max(1..k) /\ m \in 1..k /\ \A y \in 1..k : y <= m
      BY <2>2, MaxOf
    <2>4. m = k
      BY <2>1, <2>3
    <2> QED BY <2>1, <2>2, <2>3, <2>4
  <1> QED BY <1>1, <1>2, <1>3

\* A loop over 1..n as a recursion on the subsets of 1..n, the greatest index
\* taken first: h is the value for a set of indices.
Loop(h, n, A, base, step) ==
    \A T \in SUBSET (1..n) :
        /\ T = {} => h[T] = base
        /\ T # {} /\ h[T \ {Max(T)}] \in A => h[T] = step[Max(T)][h[T \ {Max(T)}]]

\* f holds the value after each pass of the loop.
Passes(f, n, A, base, step) ==
    /\ f \in [0..n -> A] /\ f[0] = base
    /\ \A k \in 1..n : f[k] = step[k][f[k - 1]]

\* g is the loop over 1..n for any set of its indices.
Unrolled(g, n, A, base, step) ==
    /\ g \in [SUBSET (1..n) -> A]
    /\ \A T \in SUBSET (1..n) :
          g[T] = IF T = {} THEN base ELSE step[Max(T)][g[T \ {Max(T)}]]

\* There is such a recursion.
LEMMA LoopExists ==
    ASSUME NEW n \in Nat, NEW A, NEW base \in A, NEW step \in [1..n -> [A -> A]]
    PROVE  \E g : Unrolled(g, n, A, base, step)
  <1> PICK pick : pick = [T \in SUBSET (1..n) |-> Max(T)]
    OBVIOUS
  <1>1. IsFiniteSet(1..n) /\ \A T \in SUBSET (1..n) : T # {} => pick[T] \in T
    BY IntervalStep
  <1>2. Recursion(1..n, A, base, pick, step)
    BY <1>1 DEF Recursion
  <1>3. PICK g : Recursive(g, 1..n, A, base, pick, step)
    BY <1>2, SubsetRecursion
  <1>4. Unrolled(g, n, A, base, step)
    BY <1>3 DEF Recursive, Unrolled
  <1> QED BY <1>4

\* A loop in that form is the sequence of its passes.
LEMMA LoopPasses ==
    ASSUME NEW n \in Nat, NEW A, NEW base \in A, NEW step \in [1..n -> [A -> A]],
           NEW h, Loop(h, n, A, base, step)
    PROVE  \E f : Passes(f, n, A, base, step) /\ f[n] = h[1..n]
  <1>1. 1..0 = {} /\ h[1..0] = base
    <2>1. 1..0 = {} /\ 1..0 \in SUBSET (1..n)
      BY IntervalStep
    <2> QED BY <2>1 DEF Loop
  <1>2. ASSUME NEW k \in 1..n, h[1..(k - 1)] \in A PROVE h[1..k] = step[k][h[1..(k - 1)]]
    <2>1. 1..k \in SUBSET (1..n) /\ 1..k # {} /\ Max(1..k) = k /\ (1..k) \ {k} = 1..(k - 1)
      BY IntervalStep
    <2> QED BY <1>2, <2>1 DEF Loop
  <1> DEFINE M == {k \in Nat : k <= n => h[1..k] \in A}
  <1>3. Nat \subseteq M
    <2>1. 0 \in M
      BY <1>1
    <2>2. ASSUME NEW k \in Nat, k \in M PROVE k + 1 \in M
      <3> SUFFICES ASSUME k + 1 <= n PROVE h[1..(k + 1)] \in A
        OBVIOUS
      <3>1. k + 1 \in 1..n /\ (k + 1) - 1 = k /\ h[1..k] \in A
        BY <2>2
      <3>2. h[1..(k + 1)] = step[k + 1][h[1..k]]
        BY <1>2, <3>1
      <3> QED BY <3>1, <3>2
    <2> HIDE DEF M
    <2> QED BY <2>1, <2>2, NatInduct
  <1>4. PICK f : f = [k \in 0..n |-> h[1..k]]
    OBVIOUS
  <1>5. f \in [0..n -> A]
    BY <1>3, <1>4
  <1>6. f[0] = base /\ f[n] = h[1..n]
    BY <1>1, <1>4
  <1>7. ASSUME NEW k \in 1..n PROVE f[k] = step[k][f[k - 1]]
    <2>1. k - 1 \in 0..n /\ k \in 0..n
      OBVIOUS
    <2>2. f[k - 1] = h[1..(k - 1)] /\ f[k] = h[1..k] /\ f[k - 1] \in A
      BY <1>4, <1>5, <2>1
    <2> QED BY <1>2, <2>2
  <1> QED BY <1>5, <1>6, <1>7 DEF Passes

(***************************************************************************)
(* Sorting by three keys.                                                  *)
(***************************************************************************)
\* x comes before y: by a descending, by b descending, by c ascending.
LexBefore(a, b, c, x, y) ==
    \/ a[x] > a[y]
    \/ a[x] = a[y] /\ (b[x] > b[y] \/ (b[x] = b[y] /\ c[x] < c[y]))

\* The keys are integers, and the third tells all elements apart.
Keyed(S, a, b, c) ==
    /\ IsFiniteSet(S)
    /\ a \in [S -> Int] /\ b \in [S -> Int] /\ c \in [S -> Int]
    /\ \A x, y \in S : x # y => c[x] # c[y]

\* f lists S by descending a, then descending b, then ascending c.
Lists(f, S, a, b, c) ==
    /\ f \in Seq(S) /\ Len(f) = Cardinality(S) /\ Len(f) \in Nat
    /\ \A k \in 1..Len(f) : f[k] \in S
    /\ \A i, j \in 1..Len(f) : i < j => f[i] # f[j] /\ LexBefore(a, b, c, f[i], f[j])
    /\ \A x \in S : \E k \in 1..Len(f) : f[k] = x

\* f is what Ordered is for this order: it has at k an element with k - 1
\* predecessors, if there is one.
InLexOrder(f, S, a, b, c) ==
    /\ DOMAIN f = 1..Cardinality(S) /\ f = [k \in DOMAIN f |-> f[k]]
    /\ \A k \in 1..Cardinality(S) :
          (\E x \in S : Cardinality({y \in S : LexBefore(a, b, c, y, x)}) = k - 1)
             => f[k] \in S /\ Cardinality({y \in S : LexBefore(a, b, c, y, f[k])}) = k - 1

\* Picking for each k the element with k - 1 predecessors sorts.
LEMMA LexSorts ==
    ASSUME NEW S, NEW a, NEW b, NEW c, Keyed(S, a, b, c), NEW f, InLexOrder(f, S, a, b, c)
    PROVE  Lists(f, S, a, b, c)
  <1> DEFINE n == Cardinality(S)
             pred == [x \in S |-> {y \in S : LexBefore(a, b, c, y, x)}]
  <1>1. IsFiniteSet(S) /\ n \in Nat
    BY FS_CardinalityType DEF Keyed
  <1>2. \A k \in 1..n : (\E x \in S : Cardinality(pred[x]) = k - 1)
                           => f[k] \in S /\ Cardinality(pred[f[k]]) = k - 1
    <2> SUFFICES ASSUME NEW k \in 1..n, \E x \in S : Cardinality(pred[x]) = k - 1
                 PROVE  f[k] \in S /\ Cardinality(pred[f[k]]) = k - 1
      OBVIOUS
    <2>1. \E x \in S : Cardinality({y \in S : LexBefore(a, b, c, y, x)}) = k - 1
      OBVIOUS
    <2>2. f[k] \in S /\ Cardinality({y \in S : LexBefore(a, b, c, y, f[k])}) = k - 1
      BY <2>1 DEF InLexOrder
    <2> QED BY <2>2
  <1>3. pred \in [S -> SUBSET S] /\ \A x, y \in S : x \in pred[y] <=> LexBefore(a, b, c, x, y)
    OBVIOUS
  <1> HIDE DEF pred
  <1>4. \A x \in S : a[x] \in Int /\ b[x] \in Int /\ c[x] \in Int
    BY DEF Keyed
  <1>5. /\ \A x \in S : x \notin pred[x]
        /\ \A x, y \in S : x # y => x \in pred[y] \/ y \in pred[x]
        /\ \A x, y \in S : x \in pred[y] => pred[x] \subseteq pred[y]
    <2>1. \A x, y, z \in S :
            LexBefore(a, b, c, x, y) /\ LexBefore(a, b, c, z, x) => LexBefore(a, b, c, z, y)
      BY <1>4 DEF LexBefore
    <2>2. \A x \in S : ~ LexBefore(a, b, c, x, x)
      BY <1>4 DEF LexBefore
    <2>3. \A x, y \in S : x # y => LexBefore(a, b, c, x, y) \/ LexBefore(a, b, c, y, x)
      <3> SUFFICES ASSUME NEW x \in S, NEW y \in S, x # y
                   PROVE  LexBefore(a, b, c, x, y) \/ LexBefore(a, b, c, y, x)
        OBVIOUS
      <3>1. c[x] # c[y]
        BY DEF Keyed
      <3>2. /\ a[x] \in Int /\ b[x] \in Int /\ c[x] \in Int
            /\ a[y] \in Int /\ b[y] \in Int /\ c[y] \in Int
        BY <1>4
      <3>3. PICK p, q, u, v, s, t : /\ p = a[x] /\ q = a[y] /\ u = b[x] /\ v = b[y]
                                    /\ s = c[x] /\ t = c[y]
        OBVIOUS
      <3>4. p > q \/ q > p \/ (p = q /\ (u > v \/ v > u \/ (u = v /\ (s < t \/ t < s))))
        BY <3>1, <3>2, <3>3
      <3> QED BY <3>3, <3>4 DEF LexBefore
    <2>4. \A x, y \in S : x \in pred[y] => pred[x] \subseteq pred[y]
      BY <1>3, <2>1
    <2> QED BY <1>3, <2>2, <2>3, <2>4
  <1>6. /\ \A k \in 1..n : f[k] \in S
        /\ \A i, j \in 1..n : i < j => f[i] \in pred[f[j]]
        /\ \A x \in S : \E k \in 1..n : f[k] = x
    <2>1. Ranks(f, S, n, pred)
      BY <1>1, <1>2, <1>3, <1>5 DEF Ranks
    <2> HIDE DEF n
    <2> QED BY <2>1, SortedBy
  <1>7. DOMAIN f = 1..n /\ f \in [1..n -> S]
    BY <1>6 DEF InLexOrder
  <1>8. f \in Seq(S) /\ Len(f) = n
    <2>1. PICK m, g : m \in Nat /\ m = n /\ g = f
      BY <1>1
    <2>2. DOMAIN g = 1..m /\ g \in [1..m -> S]
      BY <1>7, <2>1
    <2>3. g \in Seq(S) /\ Len(g) = m
      BY <2>1, <2>2
    <2> QED BY <2>1, <2>3
  <1>9. \A i, j \in 1..n : i < j => f[i] # f[j] /\ LexBefore(a, b, c, f[i], f[j])
    <2> HIDE DEF n
    <2> QED BY <1>3, <1>5, <1>6
  <1> QED BY <1>1, <1>6, <1>8, <1>9 DEF Lists

\* f lists the integers of S, the least first.
Climbs(f, S) ==
    /\ f \in Seq(S) /\ Len(f) = Cardinality(S) /\ Len(f) \in Nat
    /\ \A k \in 1..Len(f) : f[k] \in S
    /\ \A i, j \in 1..Len(f) : i < j => f[i] < f[j]
    /\ \A x \in S : \E k \in 1..Len(f) : f[k] = x

\* Ascending sorts.
LEMMA AscendingClimbs ==
    ASSUME NEW S, IsFiniteSet(S), S \subseteq Int
    PROVE  Climbs(Ascending(S), S)
  <1>1. PICK f : f = Ascending(S)
    OBVIOUS
  <1>2. PICK a, c : a = [x \in S |-> 0] /\ c = [x \in S |-> x]
    OBVIOUS
  <1>3. Keyed(S, a, a, c)
    BY <1>2 DEF Keyed
  <1>4. \A x, y \in S : LexBefore(a, a, c, x, y) <=> x < y
    BY <1>2 DEF LexBefore
  <1>5. \A x \in S : {y \in S : LexBefore(a, a, c, y, x)} = {y \in S : y < x}
    BY <1>4
  <1>6. f = [k \in 1..Cardinality(S) |-> CHOOSE x \in S : Cardinality({y \in S : y < x}) = k - 1]
    BY <1>1, Zenon DEF Ascending, Ordered
  <1>7. \A k \in 1..Cardinality(S) :
          (\E x \in S : Cardinality({y \in S : y < x}) = k - 1)
             => f[k] \in S /\ Cardinality({y \in S : y < f[k]}) = k - 1
    <2> SUFFICES ASSUME NEW k \in 1..Cardinality(S),
                        \E x \in S : Cardinality({y \in S : y < x}) = k - 1
                 PROVE  f[k] \in S /\ Cardinality({y \in S : y < f[k]}) = k - 1
      OBVIOUS
    <2>1. f[k] = CHOOSE x \in S : Cardinality({y \in S : y < x}) = k - 1
      BY <1>6
    <2> QED BY <2>1, Zenon
  <1>8. DOMAIN f = 1..Cardinality(S) /\ f = [k \in DOMAIN f |-> f[k]]
    <2> DEFINE E(k) == CHOOSE x \in S : Cardinality({y \in S : y < x}) = k - 1
    <2>1. f = [k \in 1..Cardinality(S) |-> E(k)]
      BY <1>6, Zenon
    <2> HIDE DEF E
    <2> QED BY <2>1
  <1>9. InLexOrder(f, S, a, a, c)
    BY <1>5, <1>7, <1>8 DEF InLexOrder
  <1>10. Lists(f, S, a, a, c)
    BY <1>3, <1>9, LexSorts
  <1> QED BY <1>1, <1>4, <1>10 DEF Lists, Climbs

(***************************************************************************)
(* Sequences.                                                              *)
(***************************************************************************)
\* Elements of a sequence, by their indices.
LEMMA ElementsAtType ==
    ASSUME NEW S, NEW s \in Seq(S), NEW ix, ix \subseteq DOMAIN s
    PROVE  /\ ElementsAt(s, ix) \in Seq(S)
           /\ \A k \in DOMAIN ElementsAt(s, ix) : \E i \in ix : ElementsAt(s, ix)[k] = s[i]
  <1>1. PICK at : at = Ascending(ix)
    OBVIOUS
  <1>2. DOMAIN s = 1..Len(s) /\ Len(s) \in Nat
    OBVIOUS
  <1>3. IsFiniteSet(ix)
    BY <1>2, CountTo, FS_Subset
  <1>4. at \in Seq(ix) /\ Len(at) \in Nat /\ \A k \in 1..Len(at) : at[k] \in ix
    <2>1. ix \subseteq Int
      BY <1>2
    <2> QED BY <1>1, <1>3, <2>1, AscendingClimbs DEF Climbs
  <1>5. ElementsAt(s, ix) = [k \in 1..Len(at) |-> s[at[k]]]
    BY <1>1, Zenon DEF ElementsAt
  <1>6. PICK e : e = ElementsAt(s, ix)
    OBVIOUS
  <1>7. e \in [1..Len(at) -> S] /\ \A k \in 1..Len(at) : e[k] = s[at[k]]
    BY <1>2, <1>4, <1>5, <1>6
  <1>8. e \in Seq(S) /\ DOMAIN e = 1..Len(at)
    <2>1. PICK n \in Nat : n = Len(at)
      BY <1>4
    <2>2. e \in [1..n -> S]
      BY <1>7, <2>1
    <2>3. e \in Seq(S) /\ DOMAIN e = 1..n
      BY <2>2
    <2> QED BY <2>1, <2>3
  <1> QED BY <1>4, <1>6, <1>7, <1>8

\* No elements of the empty sequence.
LEMMA ElementsOfNone == ElementsAt(<<>>, {}) = <<>>
  <1>1. PICK at : at = Ascending({})
    OBVIOUS
  <1>2. IsFiniteSet({}) /\ Cardinality({}) = 0
    BY FS_EmptySet
  <1>3. Len(at) = 0
    <2>1. {} \subseteq Int
      OBVIOUS
    <2>2. Climbs(at, {})
      BY <1>1, <1>2, <2>1, AscendingClimbs
    <2> QED BY <1>2, <2>2 DEF Climbs
  <1>4. PICK z : z = <<>>
    OBVIOUS
  <1>5. ElementsAt(z, {}) = [k \in 1..Len(at) |-> z[at[k]]]
    BY <1>1 DEF ElementsAt
  <1>6. [k \in 1..0 |-> z[at[k]]] = <<>>
    OBVIOUS
  <1> QED BY <1>3, <1>4, <1>5, <1>6

\* The elements of two sequences joined.
LEMMA JoinedSet ==
    ASSUME NEW S, NEW a \in Seq(S), NEW b \in Seq(S)
    PROVE  ToSet(a \o b) = ToSet(a) \cup ToSet(b)
  <1>1. PICK c : c = a \o b
    OBVIOUS
  <1>2. Len(c) = Len(a) + Len(b)
    BY <1>1
  <1>3. \A i \in 1..Len(c) : c[i] = IF i <= Len(a) THEN a[i] ELSE b[i - Len(a)]
    BY <1>1, <1>2
  <1>4. \A i \in 1..Len(a) : i \in 1..Len(c) /\ c[i] = a[i]
    BY <1>2, <1>3
  <1>5. \A i \in 1..Len(b) : i + Len(a) \in 1..Len(c) /\ c[i + Len(a)] = b[i]
    BY <1>2, <1>3
  <1>6. \A i \in 1..Len(c) : ~ (i <= Len(a)) => i - Len(a) \in 1..Len(b)
    BY <1>2
  <1>7. DOMAIN a = 1..Len(a) /\ DOMAIN b = 1..Len(b) /\ DOMAIN c = 1..Len(c)
    BY <1>1, <1>2
  <1>8. \A i \in 1..Len(c) : i <= Len(a) => i \in 1..Len(a)
    BY <1>2
  <1>9. ASSUME NEW x \in ToSet(c) PROVE x \in ToSet(a) \cup ToSet(b)
    <2>1. PICK i \in 1..Len(c) : x = c[i]
      BY <1>7 DEF ToSet
    <2>2. CASE i <= Len(a)
      BY <1>3, <1>7, <1>8, <2>1, <2>2 DEF ToSet
    <2>3. CASE ~ (i <= Len(a))
      BY <1>3, <1>6, <1>7, <2>1, <2>3 DEF ToSet
    <2> QED BY <2>2, <2>3
  <1>10. ToSet(a) \subseteq ToSet(c)
    BY <1>4, <1>7 DEF ToSet
  <1>11. ToSet(b) \subseteq ToSet(c)
    BY <1>5, <1>7 DEF ToSet
  <1> QED BY <1>1, <1>9, <1>10, <1>11

\* The elements picked by their indices, as a set.
LEMMA ElementsAtSet ==
    ASSUME NEW S, NEW s \in Seq(S), NEW ix, ix \subseteq DOMAIN s
    PROVE  ToSet(ElementsAt(s, ix)) = {s[i] : i \in ix}
  <1>1. PICK at : at = Ascending(ix)
    OBVIOUS
  <1>2. DOMAIN s = 1..Len(s) /\ Len(s) \in Nat
    OBVIOUS
  <1>3. IsFiniteSet(ix) /\ ix \subseteq Int
    <2>1. IsFiniteSet(ix)
      BY <1>2, CountTo, FS_Subset
    <2> QED BY <1>2, <2>1
  <1>4. Climbs(at, ix)
    BY <1>1, <1>3, AscendingClimbs
  <1>5. PICK e : e = ElementsAt(s, ix)
    OBVIOUS
  <1>6. e = [k \in 1..Len(at) |-> s[at[k]]]
    BY <1>1, <1>5, Zenon DEF ElementsAt
  <1>7. DOMAIN e = 1..Len(at) /\ \A k \in 1..Len(at) : e[k] = s[at[k]]
    BY <1>6
  <1>8. ToSet(e) = {e[k] : k \in 1..Len(at)}
    BY <1>7 DEF ToSet
  <1>9. ASSUME NEW i \in ix PROVE s[i] \in ToSet(e)
    <2>1. PICK k \in 1..Len(at) : at[k] = i
      BY <1>4 DEF Climbs
    <2> QED BY <1>7, <1>8, <2>1
  <1>10. ASSUME NEW x \in ToSet(e) PROVE x \in {s[i] : i \in ix}
    <2>1. PICK k \in 1..Len(at) : x = e[k]
      BY <1>8
    <2>2. at[k] \in ix /\ x = s[at[k]]
      BY <1>4, <1>7, <2>1 DEF Climbs
    <2> QED BY <2>2
  <1> QED BY <1>5, <1>9, <1>10

\* One element more at the end.
LEMMA AppendedSet ==
    ASSUME NEW S, NEW s \in Seq(S), NEW x \in S
    PROVE  /\ Append(s, x) \in Seq(S) /\ Len(Append(s, x)) = Len(s) + 1
           /\ \A i \in 1..Len(s) : i \in 1..Len(Append(s, x)) /\ Append(s, x)[i] = s[i]
           /\ Append(s, x)[Len(s) + 1] = x
           /\ ToSet(Append(s, x)) = ToSet(s) \cup {x}
  <1>1. PICK c : c = Append(s, x)
    OBVIOUS
  <1>2. /\ c \in Seq(S) /\ Len(c) = Len(s) + 1 /\ Len(s) \in Nat /\ c[Len(s) + 1] = x
        /\ \A i \in 1..Len(s) : c[i] = s[i]
    BY <1>1
  <1>3. \A i \in 1..Len(s) : i \in 1..Len(c)
    BY <1>2
  <1>4. DOMAIN c = 1..Len(c) /\ DOMAIN s = 1..Len(s)
    BY <1>2
  <1>5. Len(s) + 1 \in 1..Len(c) /\ \A i \in 1..Len(c) : i = Len(s) + 1 \/ i \in 1..Len(s)
    BY <1>2
  <1>6. ToSet(c) = ToSet(s) \cup {x}
    BY <1>2, <1>3, <1>4, <1>5 DEF ToSet
  <1> QED BY <1>1, <1>2, <1>3, <1>6

\* All sequences joined, as a sequence and as a set.
LEMMA FlattenedSet ==
    ASSUME NEW A, NEW n \in Nat, NEW ss \in [1..n -> Seq(A)]
    PROVE  /\ FlattenSeq(ss) \in Seq(A)
           /\ ToSet(FlattenSeq(ss)) = UNION {ToSet(ss[k]) : k \in 1..n}
  <1>0. ss \in Seq(Seq(A)) /\ Len(ss) = n
    OBVIOUS
  <1>1. CASE n = 0
    <2>1. FlattenSeq(ss) = ss
      BY <1>0, <1>1, Zenon DEF FlattenSeq
    <2>2. ss = <<>> /\ 1..n = {}
      BY <1>0, <1>1
    <2>3. ToSet(ss) = {} /\ ss \in Seq(A)
      BY <2>2 DEF ToSet
    <2> QED BY <2>1, <2>2, <2>3
  <1>2. CASE n # 0
    <2> DEFINE Body(g) == [i \in 1..n |-> IF i = 1 THEN ss[i] ELSE g[i - 1] \o ss[i]]
               F == CHOOSE g : g = Body(g)
    <2>1. FlattenSeq(ss) = F[n]
      BY <1>0, <1>2, Zenon DEF FlattenSeq
    <2>2. PICK step : step = [k \in Nat |-> [v \in Seq(A) |->
                                IF k + 2 \in 1..n THEN v \o ss[k + 2] ELSE v]]
      OBVIOUS
    <2>3. step \in [Nat -> [Seq(A) -> Seq(A)]] /\ 1 \in 1..n
      <3>1. 1 \in 1..n
        BY <1>2
      <3>2. ASSUME NEW k \in Nat, NEW v \in Seq(A)
            PROVE  (IF k + 2 \in 1..n THEN v \o ss[k + 2] ELSE v) \in Seq(A)
        BY <3>2
      <3> QED BY <2>2, <3>1, <3>2
    <2>4. PICK f : Iterates(f, Seq(A), ss[1], step)
      BY <2>3, NatRecursion
    <2>5. PICK g : g = [i \in 1..n |-> f[i - 1]]
      OBVIOUS
    <2>6. ASSUME NEW i \in 1..n PROVE g[i] = IF i = 1 THEN ss[i] ELSE g[i - 1] \o ss[i]
      <3>1. CASE i = 1
        BY <2>4, <2>5, <3>1 DEF Iterates
      <3>2. CASE i # 1
        <4>1. PICK k \in Nat : k = i - 2
          BY <3>2
        <4>2. k + 1 = i - 1 /\ k + 2 = i /\ i - 1 \in 1..n /\ (i - 1) - 1 = k
          BY <3>2, <4>1
        <4>3. f[k] \in Seq(A) /\ f[k + 1] = step[k][f[k]]
          BY <2>4 DEF Iterates
        <4>4. step[k][f[k]] = f[k] \o ss[i]
          BY <2>2, <4>2, <4>3
        <4>5. g[i] = f[k + 1] /\ g[i - 1] = f[k]
          BY <2>5, <4>2
        <4> QED BY <3>2, <4>3, <4>4, <4>5
      <3> QED BY <3>1, <3>2
    <2>7. g = Body(g)
      BY <2>5, <2>6
    <2>8. F = Body(F)
      <3> HIDE DEF Body
      <3> QED BY <2>7, Zenon
    <2>9. PICK h : h = F
      OBVIOUS
    <2> HIDE DEF F
    <2>10. \A i \in 1..n : h[i] = IF i = 1 THEN ss[i] ELSE h[i - 1] \o ss[i]
      BY <2>8, <2>9
    <2> DEFINE M == {k \in Nat : k + 1 \in 1..n =>
                        h[k + 1] \in Seq(A) /\ ToSet(h[k + 1]) = UNION {ToSet(ss[j]) : j \in 1..(k + 1)}}
    <2>11. 0 \in M
      <3>1. h[1] = ss[1] /\ ss[1] \in Seq(A)
        BY <2>3, <2>10
      <3>2. 1..1 = {1}
        OBVIOUS
      <3> QED BY <3>1, <3>2
    <2>12. ASSUME NEW k \in Nat, k \in M PROVE k + 1 \in M
      <3> SUFFICES ASSUME (k + 1) + 1 \in 1..n
                   PROVE  /\ h[(k + 1) + 1] \in Seq(A)
                          /\ ToSet(h[(k + 1) + 1]) = UNION {ToSet(ss[j]) : j \in 1..((k + 1) + 1)}
        OBVIOUS
      <3>1. PICK i : i = (k + 1) + 1
        OBVIOUS
      <3>2. /\ i \in 1..n /\ i # 1 /\ i - 1 = k + 1 /\ k + 1 \in 1..n
            /\ 1..i = (1..(k + 1)) \cup {i}
        BY <3>1
      <3>3. /\ h[i] = h[k + 1] \o ss[i] /\ ss[i] \in Seq(A) /\ h[k + 1] \in Seq(A)
            /\ ToSet(h[k + 1]) = UNION {ToSet(ss[j]) : j \in 1..(k + 1)}
        BY <2>10, <2>12, <3>2
      <3>4. h[i] \in Seq(A)
        BY <3>3
      <3>5. ToSet(h[i]) = ToSet(h[k + 1]) \cup ToSet(ss[i])
        BY <3>3, JoinedSet
      <3>6. UNION {ToSet(ss[j]) : j \in 1..i}
              = (UNION {ToSet(ss[j]) : j \in 1..(k + 1)}) \cup ToSet(ss[i])
        BY <3>2
      <3> QED BY <3>1, <3>3, <3>4, <3>5, <3>6
    <2> HIDE DEF M
    <2>13. Nat \subseteq M
      BY <2>11, <2>12, NatInduct
    <2>14. n - 1 \in Nat /\ (n - 1) + 1 = n /\ n \in 1..n
      BY <1>2
    <2>15. h[n] \in Seq(A) /\ ToSet(h[n]) = UNION {ToSet(ss[j]) : j \in 1..n}
      <3>1. n - 1 \in M
        BY <2>13, <2>14
      <3> QED BY <2>14, <3>1 DEF M
    <2> QED BY <2>1, <2>9, <2>15
  <1> QED BY <1>1, <1>2

(***************************************************************************)
(* The store.                                                              *)
(***************************************************************************)
\* Memory ids are finitely many positive numbers.
LEMMA IdsAreNats ==
    /\ Ids \subseteq Nat /\ IsFiniteSet(Ids)
    /\ \A S \in SUBSET Ids : IsFiniteSet(S) /\ S \subseteq Int
  <1>1. Ids \subseteq Nat /\ IsFiniteSet(Ids)
    BY ReadStoreAssumption
  <1>2. \A S \in SUBSET Ids : IsFiniteSet(S)
    BY <1>1, FS_Subset
  <1> QED BY <1>1, <1>2

\* The fields of an edge.
LEMMA LinkFields ==
    ASSUME NEW l \in Link
    PROVE  l.to \in Ids /\ l.type \in LinkTypes /\ l.w \in Nat
  <1>1. l.to \in Ids /\ l.type \in LinkTypes /\ l.w \in 1..Scale
    BY DEF Link
  <1> QED BY <1>1, SMTT(30) DEF Scale

\* Types of the store; only ids handed out have a unit, a copy or edges.
StoreInv ==
    /\ call \in Calls /\ changes \in Nat /\ changes <= MaxChanges[call]
    /\ KindsInv /\ row \in [Ids -> Seq(Link)]
    /\ indexed \subseteq Ids /\ issued \subseteq Ids
    /\ deleting \subseteq issued /\ appeared \subseteq issued
    /\ \A x \in Ids : copies[x] # {} => x \in issued

\* What other threads do to the store between two reads: units appear, and each
\* change alters the lifecycle of one memory at most.
StoreMoves ==
    /\ UnitsAppear
    /\ \/ changes' = changes /\ kind' = kind
       \/ /\ changes' = changes + 1
          /\ \E y \in Ids : \A x \in Ids \ {y} : kind'[x] = kind[x]

\* It holds at the start of a call.
LEMMA StoreInvInit == Init => StoreInv
  <1> SUFFICES ASSUME Init PROVE StoreInv
    OBVIOUS
  <1>1. call \in Calls /\ changes = 0 /\ MaxChanges[call] \in Nat /\ appeared = {}
    BY ReadStoreAssumption DEF Init
  <1>2. PICK s \in Stores[call] :
          /\ copies = s.copies /\ row = s.row
          /\ indexed = s.indexed /\ issued = s.issued /\ deleting = s.deleting
    BY DEF Init
  <1> QED BY <1>1, <1>2, KindsInvInit, StoresAssumption DEF StoreInv

\* A step of another thread keeps the invariant and moves the store so.
LEMMA StoreInvStore ==
    ASSUME StoreInv, StoreStep
    PROVE  StoreInv' /\ StoreMoves
  <1>0. PICK x \in Ids : Write(x) \/ Forget(x) \/ Unindex(x) \/ Put(x) \/ PutRow(x)
    BY DEF StoreStep
  <1>1. MaxChanges[call] \in Nat
    BY ReadStoreAssumption DEF StoreInv
  <1>2. ASSUME Change
        PROVE  /\ changes' \in Nat /\ changes' <= MaxChanges'[call'] /\ call' = call
               /\ changes' = changes + 1
    BY <1>1, <1>2 DEF Change, StoreInv
  <1>3. KindsInv' /\ UnitsAppear
    BY KindsInvStore DEF StoreInv
  <1>4. /\ kind \in [Ids -> Kinds] /\ copies \in [Ids -> SUBSET (Kinds \ {"none"})]
        /\ row \in [Ids -> Seq(Link)] /\ Rows[x] \subseteq Seq(Link)
    BY ReadStoreAssumption DEF StoreInv, KindsInv
  <1>5. CASE Write(x)
    <2>1. PICK held, links : /\ links \in Rows[x] /\ row' = [row EXCEPT ![x] = links]
                             /\ copies' = [copies EXCEPT ![x] = held]
      BY <1>5 DEF Write
    <2>2. /\ Change /\ kind' = [kind EXCEPT ![x] = "active"]
          /\ indexed' = indexed \cup {x} /\ issued' = issued \cup {x}
          /\ appeared' = appeared \cup {x} /\ deleting' = deleting
      BY <1>5 DEF Write
    <2>3. row' \in [Ids -> Seq(Link)] /\ \A y \in Ids \ {x} : kind'[y] = kind[y]
      BY <1>4, <2>1, <2>2
    <2>4. \A y \in Ids : copies'[y] # {} => y \in issued'
      BY <1>4, <2>1, <2>2 DEF StoreInv
    <2> QED BY <1>2, <1>3, <2>2, <2>3, <2>4 DEF StoreInv, StoreMoves
  <1>6. CASE Forget(x)
    <2>1. /\ Change /\ x \in issued /\ kind' = [kind EXCEPT ![x] = "none"]
          /\ row' = [row EXCEPT ![x] = <<>>] /\ deleting' = deleting \cup {x}
          /\ copies' = copies /\ indexed' = indexed /\ issued' = issued /\ appeared' = appeared
      BY <1>6 DEF Forget
    <2>2. row' \in [Ids -> Seq(Link)] /\ \A y \in Ids \ {x} : kind'[y] = kind[y]
      BY <1>4, <2>1
    <2> QED BY <1>2, <1>3, <2>1, <2>2 DEF StoreInv, StoreMoves
  <1>7. CASE Unindex(x)
    <2>1. /\ call' = call /\ changes' = changes /\ kind' = kind /\ copies' = copies /\ row' = row
          /\ indexed' = indexed \ {x} /\ issued' = issued /\ deleting' = deleting \ {x}
          /\ appeared' = appeared
      BY <1>7 DEF Unindex
    <2> QED BY <1>3, <2>1 DEF StoreInv, StoreMoves
  <1>8. CASE Put(x)
    <2>1. PICK k \in Puts(copies[x]) :
            kind' = [kind EXCEPT ![x] = k] /\ copies' = [copies EXCEPT ![x] = @ \cup {k}]
      BY <1>8 DEF Put
    <2>2. x \in issued
      BY <2>1 DEF Puts, StoreInv
    <2>3. /\ Change /\ indexed' = indexed /\ issued' = issued /\ deleting' = deleting
          /\ appeared' = IF kind[x] = "none" THEN appeared \cup {x} ELSE appeared
      BY <1>8 DEF Put
    <2>4. row' \in [Ids -> Seq(Link)]
      <3>1. row' = row \/ \E links \in Rows[x] : row' = [row EXCEPT ![x] = links]
        BY <1>8 DEF Put
      <3> QED BY <1>4, <3>1
    <2>5. appeared' \subseteq issued' /\ \A y \in Ids \ {x} : kind'[y] = kind[y]
      BY <1>4, <2>1, <2>2, <2>3 DEF StoreInv
    <2>6. \A y \in Ids : copies'[y] # {} => y \in issued'
      BY <1>4, <2>1, <2>2, <2>3 DEF StoreInv
    <2> QED BY <1>2, <1>3, <2>3, <2>4, <2>5, <2>6 DEF StoreInv, StoreMoves
  <1>9. CASE PutRow(x)
    <2>1. PICK links \in Rows[x] : row' = [row EXCEPT ![x] = links]
      BY <1>9 DEF PutRow
    <2>2. /\ Change /\ kind' = kind /\ copies' = copies /\ indexed' = indexed
          /\ issued' = issued /\ deleting' = deleting /\ appeared' = appeared
      BY <1>9 DEF PutRow
    <2>3. row' \in [Ids -> Seq(Link)]
      BY <1>4, <2>1
    <2> QED BY <1>2, <1>3, <2>2, <2>3 DEF StoreInv, StoreMoves
  <1> QED BY <1>0, <1>5, <1>6, <1>7, <1>8, <1>9

\* Every step keeps the invariant of the store.
LEMMA StoreInvNext == StoreInv /\ [Next]_readVars => StoreInv'
  <1> SUFFICES ASSUME StoreInv, [Next]_readVars PROVE StoreInv'
    OBVIOUS
  <1>1. CASE Others
    BY <1>1, StoreInvStore DEF Others
  <1>2. CASE Retrieve \/ List \/ Traverse \/ ParseTime \/ Associate \/ UNCHANGED readVars
    <2>1. UNCHANGED storeVars
      BY <1>2 DEF Retrieve, List, Traverse, ParseTime, Associate, readVars
    <2> QED BY <2>1 DEF storeVars, StoreInv, KindsInv
  <1> QED BY <1>1, <1>2 DEF Next

(***************************************************************************)
(* The edges traverse follows.                                             *)
(***************************************************************************)
\* An edge as traverse reports it.
SeenEdge == [from : Ids, to : Ids, type : LinkTypes]

\* The edges stored with x.
Own(x) == {EdgeView(x, l.to, l) : l \in ToSet(row[x])}

\* The stored edges that lead to x, seen from x.
Into(x) == UNION {{EdgeView(x, y, l) : l \in {k \in ToSet(row[y]) : k.to = x}} : y \in Units}

\* The view of an edge of x.
LEMMA EdgeViewType ==
    ASSUME NEW x \in Ids, NEW y \in Ids, NEW l \in Link
    PROVE  EdgeView(x, y, l) \in SeenEdge /\ EdgeView(x, y, l) = [from |-> x, to |-> y, type |-> l.type]
  BY DEF EdgeView, SeenEdge, Link

\* The out-edges of x are the edges stored with it.
LEMMA OutEdgesAre ==
    ASSUME StoreInv, NEW x \in Units
    PROVE  OutEdges(x) \in Seq(SeenEdge) /\ ToSet(OutEdges(x)) = Own(x)
  <1>1. x \in Ids /\ row[x] \in Seq(Link)
    BY DEF StoreInv, Units
  <1>2. PICK s \in Seq(Link), n \in Nat : s = row[x] /\ n = Len(s)
    BY <1>1
  <1>3. Links(x) = s
    BY <1>2 DEF Links
  <1>4. DOMAIN s = 1..n /\ \A i \in 1..n : s[i] \in Link /\ s[i].to \in Ids
    BY <1>2, LinkFields
  <1>5. PICK o : o = OutEdges(x)
    OBVIOUS
  <1>6. o = [i \in 1..n |-> EdgeView(x, s[i].to, s[i])]
    BY <1>3, <1>4, <1>5 DEF OutEdges
  <1>7. \A i \in 1..n : EdgeView(x, s[i].to, s[i]) \in SeenEdge
    BY <1>1, <1>4, EdgeViewType
  <1>8. o \in [1..n -> SeenEdge] /\ \A i \in 1..n : o[i] = EdgeView(x, s[i].to, s[i])
    BY <1>6, <1>7
  <1>9. o \in Seq(SeenEdge) /\ DOMAIN o = 1..n
    BY <1>8
  <1>10. ToSet(o) = {EdgeView(x, s[i].to, s[i]) : i \in 1..n}
    BY <1>8, <1>9 DEF ToSet
  <1>11. ToSet(s) = {s[i] : i \in 1..n}
    BY <1>4 DEF ToSet
  <1>12. Own(x) = {EdgeView(x, l.to, l) : l \in ToSet(s)}
    BY <1>2 DEF Own
  <1>13. Own(x) = {EdgeView(x, s[i].to, s[i]) : i \in 1..n}
    BY <1>11, <1>12
  <1> QED BY <1>5, <1>9, <1>10, <1>13

\* All stored edges.
LEMMA StoredEdgesAre ==
    ASSUME StoreInv
    PROVE  StoredEdges \in Seq(SeenEdge) /\ ToSet(StoredEdges) = UNION {Own(y) : y \in Units}
  <1>1. Units \in SUBSET Ids
    BY DEF Units
  <1>2. IsFiniteSet(Units) /\ Units \subseteq Int
    BY <1>1, IdsAreNats
  <1>3. PICK us : us = Ascending(Units)
    OBVIOUS
  <1>4. Climbs(us, Units)
    BY <1>2, <1>3, AscendingClimbs
  <1>5. PICK n \in Nat : n = Len(us)
    BY <1>4 DEF Climbs
  <1>6. DOMAIN us = 1..n /\ \A k \in 1..n : us[k] \in Units
    BY <1>4, <1>5 DEF Climbs
  <1>7. PICK ss : ss = [k \in 1..n |-> OutEdges(us[k])]
    OBVIOUS
  <1>8. StoredEdges = FlattenSeq(ss)
    BY <1>3, <1>6, <1>7 DEF StoredEdges
  <1>9. \A k \in 1..n : ss[k] \in Seq(SeenEdge) /\ ToSet(ss[k]) = Own(us[k])
    BY <1>6, <1>7, OutEdgesAre
  <1>10. ss \in [1..n -> Seq(SeenEdge)]
    BY <1>7, <1>9
  <1>11. /\ FlattenSeq(ss) \in Seq(SeenEdge)
         /\ ToSet(FlattenSeq(ss)) = UNION {ToSet(ss[k]) : k \in 1..n}
    BY <1>10, FlattenedSet
  <1>12. UNION {ToSet(ss[k]) : k \in 1..n} = UNION {Own(us[k]) : k \in 1..n}
    BY <1>9
  <1>13. \A y \in Units : \E k \in 1..n : us[k] = y
    BY <1>4, <1>5 DEF Climbs
  <1>14. UNION {Own(us[k]) : k \in 1..n} = UNION {Own(y) : y \in Units}
    BY <1>6, <1>13
  <1> QED BY <1>8, <1>11, <1>12, <1>14

\* The edges a sequence of edges holds, turned around.
LEMMA ReversedAre ==
    ASSUME NEW es \in Seq(SeenEdge)
    PROVE  /\ Reversed(es) \in Seq(SeenEdge)
           /\ ToSet(Reversed(es)) = {[from |-> e.to, to |-> e.from, type |-> e.type] : e \in ToSet(es)}
  <1>1. PICK n \in Nat : n = Len(es)
    OBVIOUS
  <1>2. DOMAIN es = 1..n /\ \A i \in 1..n : es[i] \in SeenEdge
    BY <1>1
  <1> DEFINE turn(e) == [from |-> e.to, to |-> e.from, type |-> e.type]
  <1>3. \A e \in SeenEdge : turn(e) \in SeenEdge /\ EdgeView(e.to, e.from, e) = turn(e)
    BY DEF SeenEdge, EdgeView
  <1>4. PICK r : r = Reversed(es)
    OBVIOUS
  <1>5. r = [i \in 1..n |-> EdgeView(es[i].to, es[i].from, es[i])]
    BY <1>2, <1>4 DEF Reversed
  <1> HIDE DEF turn
  <1>6. \A i \in 1..n : r[i] = turn(es[i])
    BY <1>2, <1>3, <1>5
  <1>7. r \in [1..n -> SeenEdge]
    BY <1>2, <1>3, <1>5, <1>6
  <1>8. r \in Seq(SeenEdge) /\ DOMAIN r = 1..n
    BY <1>7
  <1>9. ToSet(r) = {turn(es[i]) : i \in 1..n}
    BY <1>6, <1>8 DEF ToSet
  <1>10. ToSet(es) = {es[i] : i \in 1..n}
    BY <1>2 DEF ToSet
  <1>11. ToSet(r) = {turn(e) : e \in ToSet(es)}
    BY <1>9, <1>10
  <1> QED BY <1>4, <1>8, <1>11 DEF turn

\* The in-edges of x, seen from x.
LEMMA InEdgesAre ==
    ASSUME StoreInv, NEW x \in Units
    PROVE  Reversed(InEdges(x)) \in Seq(SeenEdge) /\ ToSet(Reversed(InEdges(x))) = Into(x)
  <1>1. PICK s : s = StoredEdges
    OBVIOUS
  <1>2. s \in Seq(SeenEdge) /\ ToSet(s) = UNION {Own(y) : y \in Units}
    BY <1>1, StoredEdgesAre
  <1>3. PICK ix : ix = {i \in DOMAIN s : s[i].to = x}
    OBVIOUS
  <1>4. PICK in : in = ElementsAt(s, ix)
    OBVIOUS
  <1>5. InEdges(x) = in /\ ix \subseteq DOMAIN s
    BY <1>1, <1>3, <1>4 DEF InEdges
  <1>6. in \in Seq(SeenEdge) /\ ToSet(in) = {s[i] : i \in ix}
    BY <1>2, <1>4, <1>5, ElementsAtType, ElementsAtSet
  <1>7. ToSet(in) = {e \in ToSet(s) : e.to = x}
    BY <1>3, <1>6 DEF ToSet
  <1> DEFINE turn(e) == [from |-> e.to, to |-> e.from, type |-> e.type]
  <1>8. Reversed(in) \in Seq(SeenEdge) /\ ToSet(Reversed(in)) = {turn(e) : e \in ToSet(in)}
    BY <1>6, ReversedAre
  <1>9. \A y \in Units : y \in Ids /\ \A l \in ToSet(row[y]) : l \in Link /\ l.to \in Ids
    <2>1. ASSUME NEW y \in Units PROVE y \in Ids /\ row[y] \in Seq(Link)
      BY DEF StoreInv, Units
    <2>2. ASSUME NEW s0 \in Seq(Link), NEW l \in ToSet(s0) PROVE l \in Link
      BY DEF ToSet
    <2> QED BY <2>1, <2>2, LinkFields
  <1>10. \A y \in Units : \A l \in ToSet(row[y]) :
           /\ EdgeView(y, l.to, l).to = l.to
           /\ turn(EdgeView(y, l.to, l)) = EdgeView(l.to, y, l)
    BY <1>9 DEF EdgeView
  <1> HIDE DEF turn
  <1>11. ASSUME NEW e \in ToSet(in) PROVE turn(e) \in Into(x)
    <2>1. e.to = x
      BY <1>7
    <2>2. PICK y \in Units : e \in Own(y)
      BY <1>2, <1>7
    <2>3. PICK l \in ToSet(row[y]) : e = EdgeView(y, l.to, l)
      BY <2>2 DEF Own
    <2>4. l.to = x /\ turn(e) = EdgeView(x, y, l)
      BY <1>10, <2>1, <2>3
    <2> QED BY <2>4 DEF Into
  <1>12. ASSUME NEW r \in Into(x) PROVE r \in {turn(e) : e \in ToSet(in)}
    <2>1. PICK y \in Units : r \in {EdgeView(x, y, l) : l \in {k \in ToSet(row[y]) : k.to = x}}
      BY DEF Into
    <2>2. PICK l \in ToSet(row[y]) : l.to = x /\ r = EdgeView(x, y, l)
      BY <2>1
    <2>3. PICK e : e = EdgeView(y, l.to, l)
      OBVIOUS
    <2>4. e.to = x /\ turn(e) = r
      BY <1>10, <2>2, <2>3
    <2>5. e \in Own(y)
      BY <2>3 DEF Own
    <2>6. e \in ToSet(in)
      BY <1>2, <1>7, <2>4, <2>5
    <2> QED BY <2>4, <2>6
  <1> QED BY <1>5, <1>8, <1>11, <1>12

\* The edges followed from x are the ones near x, in any direction.
LEMMA FollowedAre ==
    ASSUME StoreInv, traversal \in TraverseCalls, NEW x \in Units
    PROVE  /\ Followed(x) \in Seq(SeenEdge) /\ ToSet(Followed(x)) = Nearby(x)
           /\ \A e \in Nearby(x) : e \in SeenEdge
  <1> DEFINE Of(all) == {e \in all : e.type \in traversal.types}
             All == CASE traversal.direction = "Outgoing" -> Own(x)
                      [] traversal.direction = "Incoming" -> Into(x)
                      [] traversal.direction = "Both" -> Own(x) \cup Into(x)
  <1>1. Nearby(x) = Of(All)
    BY Zenon DEF Nearby, Own, Into
  <1>2. traversal.direction \in {"Outgoing", "Incoming", "Both"}
    BY BrowseAssumption
  <1>3. PICK o, r : o = OutEdges(x) /\ r = Reversed(InEdges(x))
    OBVIOUS
  <1>4. o \in Seq(SeenEdge) /\ ToSet(o) = Own(x) /\ r \in Seq(SeenEdge) /\ ToSet(r) = Into(x)
    BY <1>3, OutEdgesAre, InEdgesAre
  <1>5. o \o r \in Seq(SeenEdge) /\ ToSet(o \o r) = Own(x) \cup Into(x)
    BY <1>4, JoinedSet
  <1>6. PICK es : es = CandidateEdges(x)
    OBVIOUS
  <1>7. es \in Seq(SeenEdge) /\ ToSet(es) = All
    <2>1. CASE traversal.direction = "Outgoing"
      BY <1>3, <1>4, <1>6, <2>1 DEF CandidateEdges
    <2>2. CASE traversal.direction = "Incoming"
      BY <1>3, <1>4, <1>6, <2>2 DEF CandidateEdges
    <2>3. CASE traversal.direction = "Both"
      BY <1>3, <1>5, <1>6, <2>3 DEF CandidateEdges
    <2> QED BY <1>2, <2>1, <2>2, <2>3
  <1> HIDE DEF All
  <1>8. PICK ix : ix = {i \in DOMAIN es : es[i].type \in traversal.types}
    OBVIOUS
  <1>9. Followed(x) = ElementsAt(es, ix) /\ ix \subseteq DOMAIN es
    BY <1>6, <1>8 DEF Followed
  <1>10. ElementsAt(es, ix) \in Seq(SeenEdge) /\ ToSet(ElementsAt(es, ix)) = {es[i] : i \in ix}
    BY <1>7, <1>9, ElementsAtType, ElementsAtSet
  <1>11. {es[i] : i \in ix} = Of(ToSet(es))
    BY <1>8 DEF ToSet
  <1>12. \A e \in ToSet(es) : e \in SeenEdge
    BY <1>7 DEF ToSet
  <1> QED BY <1>1, <1>7, <1>9, <1>10, <1>11, <1>12

(***************************************************************************)
(* The search of traverse.  The snapshot it reads does not change, so the  *)
(* argument is about one fixed graph w: the units, the edges near each,    *)
(* the start, the depth and the balls around the start.                    *)
(***************************************************************************)
\* Where the edges near the nodes of S lead.
Hood(w, S) == {e.to : e \in UNION {w.near[x] : x \in S \cap w.units}}

\* w is a graph of memories with the balls around its start.
Graph(w) ==
    /\ w.units \subseteq Ids /\ w.start \in Ids /\ w.depth \in 1..5
    /\ \A x \in w.units : w.near[x] \subseteq SeenEdge
    /\ w.ball \in [Nat -> SUBSET Ids] /\ w.ball[0] = {w.start}
    /\ \A n \in Nat : w.ball[n + 1] = w.ball[n] \cup Hood(w, w.ball[n])

\* w is the graph the traversal reads.
Reads(w) ==
    /\ Graph(w) /\ w.units = Units /\ w.start = traversal.start /\ w.depth = Depth
    /\ \A x \in Units : w.near[x] = Nearby(x)

\* x is d edges away from the start and not nearer.
At(w, x, d) == d \in Nat /\ x \in w.ball[d] /\ (d # 0 => x \notin w.ball[d - 1])

\* The nodes waiting.
Queued(q) == {q[i].id : i \in 1..Len(q)}

\* The nodes whose edges are asked for.
Inner(w) == w.ball[w.depth - 1] \cap w.units

\* An entry of the queue.
Entry == [id : Ids, depth : 0..5]

\* A node as it is reported.
Report == [id : Ids, depth : 1..5]

\* The queue holds visited nodes, each once and at its distance, the nearer ones
\* first, and only of two neighbouring distances.
QueueOK(w, q, v) ==
    /\ q \in Seq(Entry)
    /\ \A i \in 1..Len(q) : At(w, q[i].id, q[i].depth) /\ q[i].id \in v /\ q[i].depth <= w.depth
    /\ \A i, j \in 1..Len(q) : i < j => /\ q[i].id # q[j].id /\ q[i].depth <= q[j].depth
                                        /\ q[j].depth <= q[i].depth + 1

\* The nodes reported are the visited units but the start, each once and at its
\* distance.
NodesOK(w, ns, v) ==
    /\ ns \in Seq(Report)
    /\ \A i \in 1..Len(ns) : /\ At(w, ns[i].id, ns[i].depth) /\ ns[i].id \in v \cap w.units
                             /\ ns[i].depth <= w.depth
    /\ \A i, j \in 1..Len(ns) : i # j => ns[i].id # ns[j].id
    /\ \A x \in v \cap w.units : x = w.start \/ \E i \in 1..Len(ns) : ns[i].id = x

\* The nodes visited so far, with their queue and report.
Visits(w, q, v, ns) ==
    /\ v \subseteq w.ball[w.depth] /\ w.start \in v /\ QueueOK(w, q, v) /\ NodesOK(w, ns, v)

\* The nodes that are not waiting any more have been expanded.
Expanded(w, q, v, es) ==
    /\ es \in Seq(SeenEdge)
    /\ \A x \in (v \ Queued(q)) \cap Inner(w) : \A e \in w.near[x] : e.to \in v
    /\ ToSet(es) = UNION {w.near[x] : x \in (v \ Queued(q)) \cap Inner(w)}

\* The invariant of the search.
TravInv ==
    /\ traversal \in TraverseCalls
    /\ tpc \in {"idle", "start", "bfs", "done", "NotFound"}
    /\ tpc # "idle" => call = "traverse"
    /\ tpc \in {"idle", "start", "NotFound"}
         => queue = <<>> /\ visited = {} /\ nodes = <<>> /\ edges = <<>>
    /\ tpc = "done" => queue = <<>>
    /\ tpc \in {"bfs", "done"} =>
         \A w : Reads(w) => Visits(w, queue, visited, nodes) /\ Expanded(w, queue, visited, edges)

\* A larger ball holds a smaller one.
LEMMA BallGrows ==
    ASSUME NEW w, Graph(w), NEW m \in Nat, NEW n \in Nat, m <= n
    PROVE  w.ball[m] \subseteq w.ball[n]
  <1> DEFINE P == {k \in Nat : m <= k => w.ball[m] \subseteq w.ball[k]}
  <1>1. 0 \in P
    <2>1. m <= 0 => m = 0
      OBVIOUS
    <2> QED BY <2>1
  <1>2. ASSUME NEW k \in Nat, k \in P PROVE k + 1 \in P
    <2>1. w.ball[k] \subseteq w.ball[k + 1]
      BY DEF Graph
    <2>2. k + 1 \in Nat /\ (m <= k + 1 => m <= k \/ m = k + 1)
      OBVIOUS
    <2> QED BY <1>2, <2>1, <2>2
  <1> HIDE DEF P
  <1>3. n \in P
    BY <1>1, <1>2, NatInduct
  <1> QED BY <1>3 DEF P

\* A node has one distance.
LEMMA OneDistance ==
    ASSUME NEW w, Graph(w), NEW x, NEW c, NEW d, At(w, x, c), At(w, x, d)
    PROVE  c = d
  <1>1. \A m, n \in Nat : m < n /\ x \in w.ball[m] => x \in w.ball[n - 1]
    <2> SUFFICES ASSUME NEW m \in Nat, NEW n \in Nat, m < n, x \in w.ball[m]
                 PROVE  x \in w.ball[n - 1]
      OBVIOUS
    <2>1. n - 1 \in Nat /\ m <= n - 1
      OBVIOUS
    <2> QED BY <2>1, BallGrows
  <1>2. c \in Nat /\ d \in Nat
    BY DEF At
  <1>3. ~ (c < d)
    <2>1. c < d => d # 0
      BY <1>2
    <2> QED BY <1>1, <1>2, <2>1 DEF At
  <1>4. ~ (d < c)
    <2>1. d < c => c # 0
      BY <1>2
    <2> QED BY <1>1, <1>2, <2>1 DEF At
  <1> QED BY <1>2, <1>3, <1>4

\* An edge of a node of a ball leads into the next ball.
LEMMA EdgeLeadsOut ==
    ASSUME NEW w, Graph(w), NEW n \in Nat, NEW x \in w.ball[n] \cap w.units, NEW e \in w.near[x]
    PROVE  e \in SeenEdge /\ e.to \in w.ball[n + 1]
  <1>1. e \in SeenEdge
    BY DEF Graph
  <1>2. e.to \in Hood(w, w.ball[n])
    BY DEF Hood
  <1> QED BY <1>1, <1>2 DEF Graph

\* Where the queue holds nothing nearer than h, all nodes within h are visited.
LEMMA AllWithin ==
    ASSUME NEW w, Graph(w), NEW q, NEW v, NEW ns, NEW es,
           Visits(w, q, v, ns), Expanded(w, q, v, es),
           NEW h \in Nat, h <= w.depth, \A i \in 1..Len(q) : h <= q[i].depth
    PROVE  w.ball[h] \subseteq v
  <1>0. w.depth \in Nat /\ w.depth - 1 \in Nat
    BY DEF Graph
  <1> DEFINE P == {m \in Nat : m <= h => w.ball[m] \subseteq v}
  <1>1. 0 \in P
    BY DEF Graph, Visits
  <1>2. ASSUME NEW m \in Nat, m \in P PROVE m + 1 \in P
    <2>0. m + 1 \in Nat
      OBVIOUS
    <2> SUFFICES ASSUME m + 1 <= h PROVE w.ball[m + 1] \subseteq v
      BY <2>0
    <2>1. m <= h /\ m < h /\ m <= w.depth - 1
      BY <1>0
    <2>2. w.ball[m] \subseteq v
      BY <1>2, <2>1
    <2>3. w.ball[m] \cap Queued(q) = {}
      <3> SUFFICES ASSUME NEW i \in 1..Len(q), q[i].id \in w.ball[m] PROVE FALSE
        BY DEF Queued
      <3>1. At(w, q[i].id, q[i].depth) /\ h <= q[i].depth
        BY DEF Visits, QueueOK
      <3>2. PICK d \in Nat : d = q[i].depth
        BY <3>1 DEF At
      <3>3. d # 0 /\ d - 1 \in Nat /\ m <= d - 1
        BY <2>1, <3>1, <3>2
      <3>4. q[i].id \in w.ball[d - 1]
        BY <3>3, BallGrows
      <3> QED BY <3>1, <3>2, <3>3, <3>4 DEF At
    <2>4. w.ball[m] \subseteq w.ball[w.depth - 1]
      BY <1>0, <2>1, BallGrows
    <2>5. ASSUME NEW x \in w.ball[m] \cap w.units, NEW e \in w.near[x] PROVE e.to \in v
      <3>1. x \in (v \ Queued(q)) \cap Inner(w)
        BY <2>2, <2>3, <2>4 DEF Inner
      <3> QED BY <3>1 DEF Expanded
    <2>6. Hood(w, w.ball[m]) \subseteq v
      BY <2>5 DEF Hood
    <2> QED BY <2>2, <2>6 DEF Graph
  <1> HIDE DEF P
  <1>3. h \in P
    BY <1>1, <1>2, NatInduct
  <1> QED BY <1>3 DEF P

\* x has not been visited and is one edge beyond the node at the head of the queue.
Beyond(w, q, v, h, x, new) ==
    /\ QueueOK(w, q, v) /\ q # <<>> /\ h \in Nat /\ h = q[1].depth /\ h < w.depth
    /\ x \in Ids /\ x \notin v /\ At(w, x, h + 1) /\ new = [id |-> x, depth |-> h + 1]

\* p is the queue with such a node more.
Enqueued(w, q, v, x, p) ==
    QueueOK(w, p, v \cup {x}) /\ Queued(p) = Queued(q) \cup {x} /\ p # <<>> /\ p[1] = q[1]

\* It is a queue again.
LEMMA QueueGrows ==
    ASSUME NEW w, Graph(w), NEW q, NEW v, NEW h, NEW x, NEW new, Beyond(w, q, v, h, x, new),
           NEW p, p = Append(q, new)
    PROVE  Enqueued(w, q, v, x, p)
  <1>1. /\ QueueOK(w, q, v) /\ q # <<>> /\ h \in Nat /\ h = q[1].depth /\ h < w.depth
        /\ x \in Ids /\ x \notin v /\ At(w, x, h + 1) /\ new = [id |-> x, depth |-> h + 1]
    BY DEF Beyond
  <1>2. PICK d \in 1..5 : d = w.depth
    BY DEF Graph
  <1>3. h \in Nat /\ h < d
    BY <1>1, <1>2
  <1>4. h + 1 \in 0..5 /\ h + 1 <= d
    BY <1>3
  <1>5. h + 1 \in 0..5 /\ h + 1 <= w.depth
    BY <1>2, <1>4
  <1>6. new \in Entry /\ new.id = x /\ new.depth = h + 1
    BY <1>1, <1>5 DEF Entry
  <1>7. q \in Seq(Entry)
    BY <1>1 DEF QueueOK
  <1>8. PICK n \in Nat : n = Len(q)
    BY <1>1, <1>7
  <1>9. /\ p \in Seq(Entry) /\ Len(p) = n + 1 /\ p[n + 1] = new
        /\ \A i \in 1..n : p[i] = q[i]
    BY <1>1, <1>6, <1>7, <1>8, AppendedSet
  <1>10. \A i \in 1..(n + 1) : i \in 1..n \/ i = n + 1
    OBVIOUS
  <1>11. 1 \in 1..n
    BY <1>1, <1>7, <1>8
  <1>12. \A i \in 1..n : q[i].depth \in Nat /\ h <= q[i].depth /\ q[i].depth <= h + 1
    <2> SUFFICES ASSUME NEW i \in 1..n
                 PROVE  q[i].depth \in Nat /\ h <= q[i].depth /\ q[i].depth <= h + 1
      OBVIOUS
    <2>1. q[i].depth \in Nat
      BY <1>1, <1>8 DEF QueueOK, At
    <2>2. CASE i = 1
      BY <1>1, <2>1, <2>2
    <2>3. CASE i # 1
      <3>1. 1 < i
        BY <1>1, <2>3
      <3> QED BY <1>1, <1>8, <1>11, <2>1, <3>1 DEF QueueOK
    <2> QED BY <1>1, <2>2, <2>3
  <1>13. ASSUME NEW i \in 1..(n + 1)
         PROVE  At(w, p[i].id, p[i].depth) /\ p[i].id \in v \cup {x} /\ p[i].depth <= w.depth
    <2>1. CASE i \in 1..n
      BY <1>1, <1>8, <1>9, <2>1 DEF QueueOK
    <2>2. CASE i = n + 1
      BY <1>1, <1>5, <1>6, <1>9, <2>2
    <2> QED BY <1>1, <1>10, <2>1, <2>2
  <1>14. ASSUME NEW i \in 1..(n + 1), NEW j \in 1..(n + 1), i < j
         PROVE  /\ p[i].id # p[j].id /\ p[i].depth <= p[j].depth
                /\ p[j].depth <= p[i].depth + 1
    <2>1. i \in 1..n
      BY <1>14
    <2>2. CASE j \in 1..n
      BY <1>1, <1>8, <1>9, <1>14, <2>1, <2>2 DEF QueueOK
    <2>3. CASE j = n + 1
      <3>1. q[i].id \in v
        BY <1>1, <1>8, <2>1 DEF QueueOK
      <3>2. p[i].id # p[j].id
        BY <1>1, <1>6, <1>9, <2>1, <2>3, <3>1
      <3>3. h + 1 <= q[i].depth + 1
        BY <1>1, <1>12, <2>1
      <3> QED BY <1>1, <1>6, <1>9, <1>12, <2>1, <2>3, <3>2, <3>3
    <2> QED BY <1>1, <1>10, <2>2, <2>3
  <1>15. QueueOK(w, p, v \cup {x})
    BY <1>1, <1>9, <1>13, <1>14 DEF QueueOK
  <1>16. Queued(p) = Queued(q) \cup {x}
    <2>1. 1..(n + 1) = (1..n) \cup {n + 1}
      OBVIOUS
    <2> QED BY <1>1, <1>6, <1>8, <1>9, <2>1 DEF Queued
  <1>17. p # <<>> /\ p[1] = q[1]
    BY <1>1, <1>9, <1>11
  <1> QED BY <1>15, <1>16, <1>17 DEF Enqueued

\* The report with a node more.
LEMMA ReportGrows ==
    ASSUME NEW w, Graph(w), NEW ns, NEW v, NodesOK(w, ns, v),
           NEW h \in Nat, h < w.depth, NEW x \in w.units, x \notin v, At(w, x, h + 1),
           NEW new, new = [id |-> x, depth |-> h + 1], NEW p, p = Append(ns, new)
    PROVE  NodesOK(w, p, v \cup {x})
  <1>1. w.depth \in 1..5 /\ h + 1 \in 1..5 /\ h + 1 <= w.depth /\ x \in Ids
    BY DEF Graph
  <1>2. new \in Report /\ new.id = x /\ new.depth = h + 1
    BY <1>1 DEF Report
  <1>3. ns \in Seq(Report)
    BY DEF NodesOK
  <1>4. PICK n \in Nat : n = Len(ns)
    BY <1>3
  <1>5. /\ p \in Seq(Report) /\ Len(p) = n + 1 /\ p[n + 1] = new
        /\ \A i \in 1..n : p[i] = ns[i]
    BY <1>2, <1>3, <1>4, AppendedSet
  <1>6. /\ \A i \in 1..(n + 1) : i \in 1..n \/ i = n + 1
        /\ \A i \in 1..n : i \in 1..(n + 1) 
        /\ n + 1 \in 1..(n + 1)
    OBVIOUS
  <1>7. \A i \in 1..n : ns[i].id \in v \cap w.units
    BY <1>4 DEF NodesOK
  <1>8. ASSUME NEW i \in 1..(n + 1)
        PROVE  /\ At(w, p[i].id, p[i].depth) /\ p[i].id \in (v \cup {x}) \cap w.units
               /\ p[i].depth <= w.depth
    <2>1. CASE i \in 1..n
      BY <1>4, <1>5, <2>1 DEF NodesOK
    <2>2. CASE i = n + 1
      BY <1>1, <1>2, <1>5, <2>2
    <2> QED BY <1>6, <2>1, <2>2
  <1>9. ASSUME NEW i \in 1..(n + 1), NEW j \in 1..(n + 1), i # j PROVE p[i].id # p[j].id
    <2>1. CASE i \in 1..n /\ j \in 1..n
      BY <1>4, <1>5, <1>9, <2>1 DEF NodesOK
    <2>2. CASE i = n + 1 /\ j \in 1..n
      BY <1>2, <1>5, <1>7, <2>2
    <2>3. CASE i \in 1..n /\ j = n + 1
      BY <1>2, <1>5, <1>7, <2>3
    <2> QED BY <1>6, <1>9, <2>1, <2>2, <2>3
  <1>10. ASSUME NEW y \in (v \cup {x}) \cap w.units
         PROVE  y = w.start \/ \E i \in 1..(n + 1) : p[i].id = y
    <2>1. CASE y = x
      BY <1>2, <1>5, <1>6, <2>1
    <2>2. CASE y \in v
      <3>1. y = w.start \/ \E i \in 1..n : ns[i].id = y
        BY <1>4, <2>2 DEF NodesOK
      <3> QED BY <1>5, <1>6, <3>1
    <2> QED BY <2>1, <2>2
  <1>11. NodesOK(w, p, v \cup {x})
    BY <1>5, <1>8, <1>9, <1>10 DEF NodesOK
  <1> QED BY <1>11

\* A node without a unit is visited and not reported.
LEMMA ReportStays ==
    ASSUME NEW w, NEW ns, NEW v, NodesOK(w, ns, v), NEW x, x \notin w.units
    PROVE  NodesOK(w, ns, v \cup {x})
  BY DEF NodesOK

\* What the search holds while it expands the node at the head of the queue.
Holding == [depth : Nat, visited : SUBSET Ids, queue : Seq(Entry), nodes : Seq(Report),
            edges : Seq(SeenEdge)]

\* It does so for this head; left are the nodes it has expanded before.
Going(w, head, left, r) ==
    /\ r \in Holding /\ r.depth = head.depth /\ r.queue # <<>> /\ r.queue[1] = head
    /\ head.depth \in Nat /\ head.depth < w.depth
    /\ Visits(w, r.queue, r.visited, r.nodes)
    /\ w.ball[head.depth] \subseteq r.visited
    /\ r.visited \ Queued(r.queue) = left

\* f is r with the edge e recorded and its end visited.
Recorded(r, e, f) == f.visited = r.visited \cup {e.to} /\ ToSet(f.edges) = ToSet(r.edges) \cup {e}

\* One edge of the head.
LEMMA FollowGoes ==
    ASSUME NEW w, Graph(w), w.units = Units, NEW head, NEW left, NEW r, Going(w, head, left, r),
           NEW e \in SeenEdge, e.to \in w.ball[head.depth + 1]
    PROVE  Going(w, head, left, Follow(r, e)) /\ Recorded(r, e, Follow(r, e))
  <1>1. PICK h \in Nat, x \in Ids : h = head.depth /\ x = e.to
    BY DEF Going, SeenEdge
  <1>2. PICK q, v, ns, es : /\ r = [depth |-> h, visited |-> v, queue |-> q, nodes |-> ns, edges |-> es]
                            /\ v \in SUBSET Ids /\ q \in Seq(Entry) /\ ns \in Seq(Report)
                            /\ es \in Seq(SeenEdge)
    BY <1>1 DEF Going, Holding
  <1>3. /\ q # <<>> /\ q[1] = head /\ h < w.depth
        /\ Visits(w, q, v, ns) /\ w.ball[h] \subseteq v /\ v \ Queued(q) = left
    BY <1>1, <1>2 DEF Going
  <1>4. PICK new : new = [id |-> x, depth |-> h + 1]
    OBVIOUS
  <1>5. Follow(r, e) =
          [depth |-> h, visited |-> v \cup {x},
           queue |-> IF x \notin v THEN Append(q, new) ELSE q,
           nodes |-> IF x \notin v /\ x \in w.units THEN Append(ns, new) ELSE ns,
           edges |-> Append(es, e)]
    BY <1>1, <1>2, <1>4 DEF Follow
  <1>6. PICK fs : fs = Append(es, e)
    OBVIOUS
  <1>7. fs \in Seq(SeenEdge) /\ ToSet(fs) = ToSet(es) \cup {e}
    BY <1>2, <1>6, AppendedSet
  <1>8. PICK f : f = Follow(r, e)
    OBVIOUS
  <1>9. w.depth \in 1..5 /\ h + 1 \in Nat /\ h + 1 <= w.depth /\ w.depth \in Nat
    BY <1>3 DEF Graph
  <1>10. x \in w.ball[w.depth]
    <2>1. w.ball[h + 1] \subseteq w.ball[w.depth]
      BY <1>9, BallGrows
    <2> QED BY <1>1, <2>1
  <1>11. CASE x \in v
    <2>1. v \cup {x} = v
      BY <1>11
    <2>2. f = [depth |-> h, visited |-> v, queue |-> q, nodes |-> ns,
                          edges |-> fs]
      BY <1>5, <1>11, <1>8, <1>6, <2>1
    <2>3. f \in Holding
      BY <1>2, <1>7, <2>2 DEF Holding
    <2>4. Going(w, head, left, f)
      BY <1>1, <1>3, <2>2, <2>3 DEF Going
    <2>5. f.visited = r.visited \cup {x} /\ f.edges = fs /\ r.edges = es
      BY <1>2, <2>1, <2>2
    <2> QED BY <1>1, <1>7, <1>8, <2>4, <2>5 DEF Recorded
  <1>12. CASE x \notin v
    <2>1. At(w, x, h + 1)
      <3>1. (h + 1) - 1 = h /\ x \notin w.ball[h]
        BY <1>3, <1>12
      <3> QED BY <1>1, <1>9, <3>1 DEF At
    <2>2. PICK p : p = Append(q, new)
      OBVIOUS
    <2>3. QueueOK(w, p, v \cup {x}) /\ Queued(p) = Queued(q) \cup {x} /\ p # <<>> /\ p[1] = head
      <3>1. Beyond(w, q, v, h, x, new)
        BY <1>1, <1>3, <1>4, <1>12, <2>1 DEF Visits, Beyond
      <3>2. Enqueued(w, q, v, x, p)
        BY <2>2, <3>1, QueueGrows
      <3> QED BY <1>3, <3>2 DEF Enqueued
    <2>4. PICK ms : ms = IF x \in w.units THEN Append(ns, new) ELSE ns
      OBVIOUS
    <2>5. NodesOK(w, ms, v \cup {x})
      <3>1. CASE x \in w.units
        BY <1>3, <1>4, <1>12, <2>1, <2>4, <3>1, ReportGrows DEF Visits
      <3>2. CASE x \notin w.units
        BY <1>3, <2>4, <3>2, ReportStays DEF Visits
      <3> QED BY <3>1, <3>2
    <2>6. Visits(w, p, v \cup {x}, ms)
      BY <1>3, <1>10, <2>3, <2>5 DEF Visits
    <2>7. f = [depth |-> h, visited |-> v \cup {x}, queue |-> p, nodes |-> ms,
                          edges |-> fs]
      BY <1>5, <1>12, <1>8, <1>6, <2>2, <2>4
    <2>8. f \in Holding
      <3>1. p \in Seq(Entry) /\ ms \in Seq(Report)
        BY <2>3, <2>5 DEF QueueOK, NodesOK
      <3> QED BY <1>2, <1>7, <2>7, <3>1 DEF Holding
    <2>9. (v \cup {x}) \ Queued(p) = left
      BY <1>3, <1>12, <2>3
    <2>10. w.ball[h] \subseteq v \cup {x}
      BY <1>3
    <2>11. Going(w, head, left, f)
      BY <1>1, <1>3, <2>3, <2>6, <2>7, <2>8, <2>9, <2>10 DEF Going
    <2>12. f.visited = r.visited \cup {x} /\ f.edges = fs /\ r.edges = es
      BY <1>2, <2>7
    <2> QED BY <1>1, <1>7, <1>8, <2>11, <2>12 DEF Recorded
  <1> QED BY <1>11, <1>12

\* The loop over the edges of the head, as the values after each pass.
FollowClosed(A, n, s) == \A r \in A : \A i \in 1..n : Follow(r, s[i]) \in A

\* f holds what the search holds after each edge.
FollowPasses(f, A, base, n, s) ==
    /\ f \in [0..n -> A] /\ f[0] = base /\ FoldLeft(Follow, base, s) = f[n]
    /\ \A k \in 1..n : f[k] = Follow(f[k - 1], s[k])

\* The fold over the edges of the head (Expand) is such a loop.
LEMMA FollowSteps ==
    ASSUME NEW A, NEW base \in A, NEW n \in Nat, NEW s, DOMAIN s = 1..n,
           FollowClosed(A, n, s)
    PROVE  \E f : FollowPasses(f, A, base, n, s)
  <1> DEFINE Body(g, T) == IF T = {} THEN base ELSE Follow(g[T \ {Max(T)}], s[Max(T)])
             I == CHOOSE g : g = [T \in SUBSET (1..n) |-> Body(g, T)]
  <1>1. FoldLeft(Follow, base, s) = I[1..n]
    BY Zenon DEF FoldLeft, MapThenFoldSet
  <1>2. PICK step : step = [i \in 1..n |-> [r \in A |-> Follow(r, s[i])]]
    OBVIOUS
  <1>3. step \in [1..n -> [A -> A]] /\ \A i \in 1..n : \A r \in A : step[i][r] = Follow(r, s[i])
    BY <1>2 DEF FollowClosed
  <1>4. PICK g \in [SUBSET (1..n) -> A] : \A T \in SUBSET (1..n) :
          g[T] = IF T = {} THEN base ELSE step[Max(T)][g[T \ {Max(T)}]]
    <2>1. PICK g : Unrolled(g, n, A, base, step)
      BY <1>3, LoopExists
    <2> QED BY <2>1 DEF Unrolled
  <1>5. \A T \in SUBSET (1..n) : T # {} => Max(T) \in 1..n
    BY IntervalStep
  <1>6. g = [T \in SUBSET (1..n) |-> Body(g, T)]
    <2>1. ASSUME NEW T \in SUBSET (1..n) PROVE g[T] = Body(g, T)
      <3>1. T \ {Max(T)} \in SUBSET (1..n) /\ g[T \ {Max(T)}] \in A
        OBVIOUS
      <3> QED BY <1>3, <1>4, <1>5, <3>1
    <2> HIDE DEF Body
    <2> QED BY <2>1
  <1>7. I = [T \in SUBSET (1..n) |-> Body(I, T)]
    <2> HIDE DEF Body
    <2> QED BY <1>6
  <1>8. PICK h : h = I
    OBVIOUS
  <1>9. \A T \in SUBSET (1..n) : h[T] = Body(h, T)
    <2> HIDE DEF Body, I
    <2> QED BY <1>7, <1>8
  <1> HIDE DEF I
  <1>10. Loop(h, n, A, base, step)
    BY <1>3, <1>5, <1>9 DEF Loop
  <1>11. PICK f : Passes(f, n, A, base, step) /\ f[n] = h[1..n]
    BY <1>3, <1>10, LoopPasses
  <1>12. \A k \in 1..n : f[k - 1] \in A
    BY <1>11 DEF Passes
  <1>13. FollowPasses(f, A, base, n, s)
    BY <1>1, <1>3, <1>8, <1>11, <1>12 DEF Passes, FollowPasses
  <1> QED BY <1>13

\* The queue without its head.
LEMMA QueueShrinks ==
    ASSUME NEW w, NEW q, NEW v, NEW ns, Visits(w, q, v, ns), q # <<>>, NEW p, p = Tail(q)
    PROVE  Visits(w, p, v, ns) /\ v \ Queued(p) = (v \ Queued(q)) \cup {q[1].id}
  <1>1. q \in Seq(Entry)
    BY DEF Visits, QueueOK
  <1>2. PICK n \in Nat : Len(q) = n + 1
    <2>1. Len(q) \in Nat /\ Len(q) # 0 /\ Len(q) - 1 \in Nat /\ Len(q) = (Len(q) - 1) + 1
      BY <1>1
    <2> QED BY <2>1
  <1>3. p \in Seq(Entry) /\ Len(p) = n /\ \A i \in 1..n : p[i] = q[i + 1]
    BY <1>1, <1>2
  <1>4. \A i \in 1..n : i + 1 \in 1..(n + 1)
    OBVIOUS
  <1>5. \A i, j \in 1..n : i < j => i + 1 < j + 1
    OBVIOUS
  <1>6. QueueOK(w, q, v)
    BY DEF Visits
  <1>7. ASSUME NEW i \in 1..n
        PROVE  At(w, p[i].id, p[i].depth) /\ p[i].id \in v /\ p[i].depth <= w.depth
    BY <1>2, <1>3, <1>4, <1>6 DEF QueueOK
  <1>8. ASSUME NEW i \in 1..n, NEW j \in 1..n, i < j
        PROVE  p[i].id # p[j].id /\ p[i].depth <= p[j].depth /\ p[j].depth <= p[i].depth + 1
    <2>1. PICK k \in 1..(n + 1), l \in 1..(n + 1) : k = i + 1 /\ l = j + 1 /\ k < l
      BY <1>4, <1>5, <1>8
    <2>2. q[k].id # q[l].id /\ q[k].depth <= q[l].depth /\ q[l].depth <= q[k].depth + 1
      BY <1>2, <1>6, <2>1 DEF QueueOK
    <2> QED BY <1>3, <2>1, <2>2
  <1>9. QueueOK(w, p, v)
    BY <1>3, <1>7, <1>8 DEF QueueOK
  <1>10. Queued(q) = Queued(p) \cup {q[1].id}
    <2>1. 1..(n + 1) = {i + 1 : i \in 1..n} \cup {1}
      <3>1. \A i \in 1..(n + 1) : i # 1 => i - 1 \in 1..n /\ i = (i - 1) + 1
        OBVIOUS
      <3>2. 1 \in 1..(n + 1)
        OBVIOUS
      <3> QED BY <1>4, <3>1, <3>2
    <2>2. Queued(p) = {q[i + 1].id : i \in 1..n}
      BY <1>3 DEF Queued
    <2> QED BY <1>2, <2>1, <2>2 DEF Queued
  <1>11. q[1].id \in v /\ q[1].id \notin Queued(p)
    <2>1. 1 \in 1..(n + 1)
      OBVIOUS
    <2>2. ASSUME NEW i \in 1..n PROVE p[i].id # q[1].id
      <3>1. i + 1 \in 1..(n + 1) /\ 1 < i + 1
        OBVIOUS
      <3>2. q[1].id # q[i + 1].id
        BY <1>2, <1>6, <2>1, <3>1 DEF QueueOK
      <3> QED BY <1>3, <3>2
    <2>3. q[1].id \in v
      BY <1>2, <1>6, <2>1 DEF QueueOK
    <2> QED BY <1>3, <2>2, <2>3 DEF Queued
  <1>12. Visits(w, p, v, ns)
    BY <1>9 DEF Visits
  <1> QED BY <1>10, <1>11, <1>12

\* The head is expanded where it is a unit nearer than the depth asked for.
LEMMA HeadInner ==
    ASSUME NEW w, Graph(w), NEW q, NEW v, NEW ns, Visits(w, q, v, ns), q # <<>>
    PROVE  /\ q[1].depth \in Nat /\ q[1].depth <= w.depth /\ q[1].id \in w.ball[q[1].depth]
           /\ q[1].id \in Inner(w) <=> q[1].depth < w.depth /\ q[1].id \in w.units
           /\ \A i \in 1..Len(q) : q[1].depth <= q[i].depth
  <1>1. q \in Seq(Entry) /\ QueueOK(w, q, v)
    BY DEF Visits, QueueOK
  <1>2. 1 \in 1..Len(q)
    BY <1>1
  <1>3. PICK x, d : x = q[1].id /\ d = q[1].depth
    OBVIOUS
  <1>4. At(w, x, d) /\ d <= w.depth
    BY <1>1, <1>2, <1>3 DEF QueueOK
  <1>5. d \in Nat /\ x \in w.ball[d] /\ (d # 0 => x \notin w.ball[d - 1])
    BY <1>4 DEF At
  <1>6. w.depth \in Nat /\ w.depth - 1 \in Nat /\ w.depth # 0
    BY DEF Graph
  <1>7. \A i \in 1..Len(q) : q[1].depth <= q[i].depth
    <2> SUFFICES ASSUME NEW i \in 1..Len(q) PROVE q[1].depth <= q[i].depth
      OBVIOUS
    <2>1. CASE i = 1
      BY <1>3, <1>5, <2>1
    <2>2. CASE i # 1
      <3>1. 1 < i
        BY <2>2
      <3> QED BY <1>1, <1>2, <3>1 DEF QueueOK
    <2> QED BY <2>1, <2>2
  <1>8. CASE d < w.depth
    <2>1. d <= w.depth - 1
      BY <1>5, <1>6, <1>8
    <2>2. x \in w.ball[w.depth - 1]
      BY <1>5, <1>6, <2>1, BallGrows
    <2>3. x \in Inner(w) <=> d < w.depth /\ x \in w.units
      BY <1>8, <2>2 DEF Inner
    <2> QED BY <1>3, <1>4, <1>5, <2>3, <1>7
  <1>9. CASE ~ (d < w.depth)
    <2>1. d = w.depth /\ d # 0
      BY <1>4, <1>5, <1>6, <1>9
    <2>2. x \notin w.ball[w.depth - 1]
      BY <1>5, <2>1
    <2>3. x \in Inner(w) <=> d < w.depth /\ x \in w.units
      BY <1>9, <2>2 DEF Inner
    <2> QED BY <1>3, <1>4, <1>5, <2>3, <1>7
  <1> QED BY <1>8, <1>9

\* The edges the head is expanded with.
HeadEdges(w, head, s) ==
    /\ s \in Seq(SeenEdge)
    /\ head.id \in Inner(w) => ToSet(s) = w.near[head.id]
    /\ head.id \notin Inner(w) => s = <<>>

\* The search state, as a record.
Held(d, v, q, ns, es) == [depth |-> d, visited |-> v, queue |-> q, nodes |-> ns, edges |-> es]

\* The loop when the head is not expanded.
LEMMA NoEdges ==
    ASSUME NEW r, NEW s, s = <<>>
    PROVE  FoldLeft(Follow, r, s) = r
  <1>1. PICK n \in Nat : n = 0 /\ DOMAIN s = 1..n
    <2>1. DOMAIN s = 1..0
      OBVIOUS
    <2> QED BY <2>1
  <1>2. FollowClosed({r}, n, s)
    <2>1. 1..n = {}
      BY <1>1
    <2> QED BY <2>1 DEF FollowClosed
  <1>3. PICK f : FollowPasses(f, {r}, r, n, s)
    BY <1>1, <1>2, FollowSteps
  <1> QED BY <1>1, <1>3 DEF FollowPasses

\* The loop when it is: all its edges are recorded and their ends visited.
LEMMA HeadLoop ==
    ASSUME NEW w, Graph(w), w.units = Units, NEW head, NEW left, NEW r, Going(w, head, left, r),
           NEW s \in Seq(SeenEdge), head.id \in w.ball[head.depth] \cap w.units,
           ToSet(s) = w.near[head.id], NEW acc, acc = FoldLeft(Follow, r, s)
    PROVE  /\ Going(w, head, left, acc) /\ r.visited \subseteq acc.visited
           /\ \A e \in ToSet(s) : e.to \in acc.visited
           /\ ToSet(acc.edges) = ToSet(r.edges) \cup ToSet(s)
  <1>1. PICK n \in Nat : n = Len(s) /\ DOMAIN s = 1..n /\ ToSet(s) = {s[i] : i \in 1..n}
    BY DEF ToSet
  <1>2. head.depth \in Nat
    BY DEF Going
  <1>3. \A i \in 1..n : s[i] \in SeenEdge /\ s[i].to \in w.ball[head.depth + 1]
    <2> SUFFICES ASSUME NEW i \in 1..n
                 PROVE  s[i] \in SeenEdge /\ s[i].to \in w.ball[head.depth + 1]
      OBVIOUS
    <2>1. s[i] \in w.near[head.id]
      BY <1>1
    <2> QED BY <1>2, <2>1, EdgeLeadsOut
  <1>4. PICK A : A = {a \in Holding : Going(w, head, left, a)}
    OBVIOUS
  <1>5. \A a : a \in A <=> Going(w, head, left, a)
    BY <1>4 DEF Going
  <1>6. FollowClosed(A, n, s)
    <2> SUFFICES ASSUME NEW a \in A, NEW i \in 1..n PROVE Follow(a, s[i]) \in A
      BY DEF FollowClosed
    <2>1. Going(w, head, left, a)
      BY <1>5
    <2>2. Going(w, head, left, Follow(a, s[i]))
      BY <1>3, <2>1, FollowGoes
    <2> QED BY <1>5, <2>2
  <1>7. PICK f : FollowPasses(f, A, r, n, s)
    <2>1. r \in A
      BY <1>5
    <2> QED BY <1>1, <1>6, <2>1, FollowSteps
  <1>8. f \in [0..n -> A] /\ f[0] = r /\ acc = f[n]
    BY <1>7 DEF FollowPasses
  <1>9. ASSUME NEW k \in 1..n
        PROVE  /\ f[k].visited = f[k - 1].visited \cup {s[k].to}
               /\ ToSet(f[k].edges) = ToSet(f[k - 1].edges) \cup {s[k]}
    <2>1. f[k - 1] \in A /\ f[k] = Follow(f[k - 1], s[k])
      BY <1>7 DEF FollowPasses
    <2>2. Going(w, head, left, f[k - 1])
      BY <1>5, <2>1
    <2>3. PICK a, e : a = f[k - 1] /\ e = s[k]
      OBVIOUS
    <2>4. Going(w, head, left, a) /\ e \in SeenEdge /\ e.to \in w.ball[head.depth + 1]
      BY <1>3, <2>2, <2>3
    <2>5. Recorded(a, e, Follow(a, e))
      BY <2>4, FollowGoes
    <2> QED BY <2>1, <2>3, <2>5 DEF Recorded
  <1> DEFINE Part(k) == {s[i] : i \in 1..k}
             P == {k \in Nat : k <= n =>
                      /\ r.visited \subseteq f[k].visited
                      /\ \A e \in Part(k) : e.to \in f[k].visited
                      /\ ToSet(f[k].edges) = ToSet(r.edges) \cup Part(k)}
  <1>10. 0 \in P
    <2>1. Part(0) = {}
      OBVIOUS
    <2> HIDE DEF Part
    <2> QED BY <1>8, <2>1
  <1>11. ASSUME NEW k \in Nat, k \in P PROVE k + 1 \in P
    <2>0. k + 1 \in Nat
      OBVIOUS
    <2>1. Part(k + 1) = Part(k) \cup {s[k + 1]}
      <3>1. 1..(k + 1) = (1..k) \cup {k + 1}
        OBVIOUS
      <3> QED BY <3>1
    <2>2. k + 1 <= n => k <= n /\ k + 1 \in 1..n /\ (k + 1) - 1 = k
      OBVIOUS
    <2> HIDE DEF Part
    <2> SUFFICES ASSUME k + 1 <= n
                 PROVE  /\ r.visited \subseteq f[k + 1].visited
                        /\ \A e \in Part(k + 1) : e.to \in f[k + 1].visited
                        /\ ToSet(f[k + 1].edges) = ToSet(r.edges) \cup Part(k + 1)
      BY <2>0
    <2>3. /\ f[k + 1].visited = f[k].visited \cup {s[k + 1].to}
          /\ ToSet(f[k + 1].edges) = ToSet(f[k].edges) \cup {s[k + 1]}
      BY <1>9, <2>2
    <2> QED BY <1>11, <2>1, <2>2, <2>3
  <1> HIDE DEF P
  <1>12. n \in P
    BY <1>10, <1>11, NatInduct
  <1>13. Part(n) = ToSet(s)
    BY <1>1
  <1>14. /\ r.visited \subseteq acc.visited /\ \A e \in ToSet(s) : e.to \in acc.visited
         /\ ToSet(acc.edges) = ToSet(r.edges) \cup ToSet(s)
    <2> HIDE DEF Part
    <2> QED BY <1>8, <1>12, <1>13 DEF P
  <1>15. Going(w, head, left, acc)
    <2>1. n \in 0..n
      OBVIOUS
    <2> QED BY <1>5, <1>8, <2>1
  <1> QED BY <1>14, <1>15

\* Taking the head of the queue and expanding it keeps the invariant.
LEMMA PopExpands ==
    ASSUME NEW w, Graph(w), w.units = Units, NEW q, NEW v, NEW ns, NEW es,
           Visits(w, q, v, ns), Expanded(w, q, v, es), q # <<>>, NEW s, HeadEdges(w, q[1], s),
           NEW acc, acc = FoldLeft(Follow, Held(q[1].depth, v, q, ns, es), s)
    PROVE  /\ Visits(w, Tail(acc.queue), acc.visited, acc.nodes)
           /\ Expanded(w, Tail(acc.queue), acc.visited, acc.edges)
  <1>1. PICK head, left, r : /\ head = q[1] /\ left = v \ Queued(q)
                             /\ r = Held(head.depth, v, q, ns, es)
    OBVIOUS
  <1>2. r.visited = v /\ r.queue = q /\ r.nodes = ns /\ r.edges = es /\ r.depth = head.depth
    BY <1>1 DEF Held
  <1>3. /\ head.depth \in Nat /\ head.depth <= w.depth /\ head.id \in w.ball[head.depth]
        /\ head.id \in Inner(w) <=> head.depth < w.depth /\ head.id \in w.units
        /\ \A i \in 1..Len(q) : head.depth <= q[i].depth
    BY <1>1, HeadInner
  <1>4. ToSet(es) = UNION {w.near[x] : x \in left \cap Inner(w)}
    BY <1>1 DEF Expanded
  <1>5. \A x \in left \cap Inner(w) : \A e \in w.near[x] : e.to \in v
    BY <1>1 DEF Expanded
  <1>6. CASE head.id \notin Inner(w)
    <2>1. acc = r
      BY <1>1, <1>6, NoEdges DEF HeadEdges
    <2>2. PICK p : p = Tail(q)
      OBVIOUS
    <2>3. Visits(w, p, v, ns) /\ v \ Queued(p) = left \cup {head.id}
      BY <1>1, <2>2, QueueShrinks
    <2>4. (v \ Queued(p)) \cap Inner(w) = left \cap Inner(w)
      BY <1>6, <2>3
    <2>5. Expanded(w, p, v, es)
      BY <1>4, <1>5, <2>4 DEF Expanded
    <2> QED BY <1>2, <2>1, <2>2, <2>3, <2>5
  <1>7. CASE head.id \in Inner(w)
    <2>1. head.depth < w.depth /\ head.id \in w.units /\ s \in Seq(SeenEdge) /\ ToSet(s) = w.near[head.id]
      BY <1>1, <1>3, <1>7 DEF HeadEdges
    <2>2. w.ball[head.depth] \subseteq v
      BY <1>3, AllWithin
    <2>3. r \in Holding
      <3>1. /\ q \in Seq(Entry) /\ ns \in Seq(Report) /\ es \in Seq(SeenEdge)
            /\ v \subseteq w.ball[w.depth]
        BY DEF Visits, QueueOK, NodesOK, Expanded
      <3>2. v \subseteq Ids
        <4>1. w.depth \in Nat
          BY DEF Graph
        <4> QED BY <3>1, <4>1 DEF Graph
      <3> QED BY <1>1, <1>3, <3>1, <3>2 DEF Held, Holding
    <2>4. Going(w, head, left, r)
      BY <1>1, <1>2, <1>3, <2>1, <2>2, <2>3 DEF Going
    <2>5. /\ Going(w, head, left, acc) /\ v \subseteq acc.visited
          /\ \A e \in w.near[head.id] : e.to \in acc.visited
          /\ ToSet(acc.edges) = ToSet(es) \cup w.near[head.id]
      BY <1>1, <1>2, <1>3, <2>1, <2>4, HeadLoop
    <2>6. PICK p : p = Tail(acc.queue)
      OBVIOUS
    <2>7. /\ Visits(w, acc.queue, acc.visited, acc.nodes) /\ acc.queue # <<>>
          /\ acc.queue[1] = head /\ acc.visited \ Queued(acc.queue) = left
          /\ acc.edges \in Seq(SeenEdge)
      BY <2>5 DEF Going, Holding
    <2>8. Visits(w, p, acc.visited, acc.nodes) /\ acc.visited \ Queued(p) = left \cup {head.id}
      <3>1. PICK aq, av, an : aq = acc.queue /\ av = acc.visited /\ an = acc.nodes
        OBVIOUS
      <3>2. Visits(w, aq, av, an) /\ aq # <<>> /\ p = Tail(aq)
        BY <2>6, <2>7, <3>1
      <3>3. Visits(w, p, av, an) /\ av \ Queued(p) = (av \ Queued(aq)) \cup {aq[1].id}
        BY <3>2, QueueShrinks
      <3> QED BY <2>7, <3>1, <3>3
    <2>9. (acc.visited \ Queued(p)) \cap Inner(w) = (left \cap Inner(w)) \cup {head.id}
      BY <1>7, <2>8
    <2>10. UNION {w.near[x] : x \in (left \cap Inner(w)) \cup {head.id}} = ToSet(acc.edges)
      BY <1>4, <2>5
    <2>11. Expanded(w, p, acc.visited, acc.edges)
      BY <1>5, <2>5, <2>7, <2>9, <2>10 DEF Expanded
    <2> QED BY <2>6, <2>8, <2>11
  <1> QED BY <1>6, <1>7

\* The depth is clamped.
LEMMA DepthType ==
    ASSUME traversal \in TraverseCalls
    PROVE  Depth \in 1..5
  <1>1. PICK d \in Nat : d = traversal.depth
    BY BrowseAssumption
  <1> QED BY <1>1 DEF Depth, Clamp, Greater, Lesser

\* The graph the traversal reads, with the balls of the reference definition.
LEMMA ReadsBall ==
    ASSUME StoreInv, traversal \in TraverseCalls
    PROVE  \E w : Reads(w) /\ w.ball = Ball
  <1>1. PICK near : near = [x \in Units |-> Nearby(x)]
    OBVIOUS
  <1>2. PICK u, s, d : u = Units /\ s = traversal.start /\ d = Depth
    OBVIOUS
  <1>3. u \subseteq Ids /\ s \in Ids /\ d \in 1..5
    BY <1>2, DepthType, BrowseAssumption DEF Units
  <1>4. \A x \in u : near[x] = Nearby(x) /\ near[x] \subseteq SeenEdge
    BY <1>1, <1>2, FollowedAre
  <1> DEFINE Out(S) == {e.to : e \in UNION {Nearby(x) : x \in S \cap Units}}
             Body(b) == [n \in Nat |-> IF n = 0 THEN {traversal.start} ELSE b[n - 1] \cup Out(b[n - 1])]
             B == CHOOSE b : b = Body(b)
  <1>5. Ball = B
    BY Zenon DEF Ball
  <1>6. \A S : Out(S) \subseteq Ids
    BY <1>1, <1>2, <1>4 DEF SeenEdge
  <1>7. PICK step : step = [n \in Nat |-> [S \in SUBSET Ids |-> S \cup Out(S)]]
    OBVIOUS
  <1> HIDE DEF Out
  <1>8. step \in [Nat -> [SUBSET Ids -> SUBSET Ids]] /\ {s} \in SUBSET Ids
    BY <1>3, <1>6, <1>7
  <1>9. PICK f : Iterates(f, SUBSET Ids, {s}, step)
    BY <1>8, NatRecursion
  <1>10. ASSUME NEW n \in Nat
         PROVE  f[n] = IF n = 0 THEN {s} ELSE f[n - 1] \cup Out(f[n - 1])
    <2>1. CASE n = 0
      BY <1>9, <2>1 DEF Iterates
    <2>2. CASE n # 0
      <3>1. n - 1 \in Nat /\ (n - 1) + 1 = n
        BY <2>2
      <3>2. f[n] = step[n - 1][f[n - 1]] /\ f[n - 1] \in SUBSET Ids
        BY <1>9, <3>1 DEF Iterates
      <3> QED BY <1>7, <2>2, <3>1, <3>2
    <2> QED BY <2>1, <2>2
  <1>11. f = Body(f)
    <2>1. f \in [Nat -> SUBSET Ids]
      BY <1>9 DEF Iterates
    <2> QED BY <1>2, <1>10, <2>1
  <1>12. B = Body(B)
    <2> HIDE DEF Body
    <2> QED BY <1>11, Zenon
  <1>13. PICK b : b = B
    OBVIOUS
  <1> HIDE DEF B
  <1>14. b = Body(b)
    BY <1>12, <1>13
  <1>15. /\ b = [n \in DOMAIN b |-> b[n]] /\ DOMAIN b = Nat /\ b[0] = {s}
         /\ \A n \in Nat : b[n + 1] = b[n] \cup Out(b[n])
    <2>1. DOMAIN b = Nat /\ b = [n \in DOMAIN b |-> b[n]] /\ b[0] = {s}
      BY <1>2, <1>14
    <2>2. ASSUME NEW n \in Nat PROVE b[n + 1] = b[n] \cup Out(b[n])
      <3>1. n + 1 \in Nat /\ n + 1 # 0 /\ (n + 1) - 1 = n
        OBVIOUS
      <3> QED BY <1>14, <3>1
    <2> QED BY <2>1, <2>2
  <1> HIDE DEF Body
  <1> DEFINE M == {n \in Nat : b[n] \subseteq Ids}
  <1>16. 0 \in M
    BY <1>3, <1>15
  <1>17. ASSUME NEW n \in Nat, n \in M PROVE n + 1 \in M
    <2>1. n + 1 \in Nat
      OBVIOUS
    <2> QED BY <1>6, <1>15, <1>17, <2>1
  <1> HIDE DEF M
  <1>18. Nat \subseteq M
    BY <1>16, <1>17, NatInduct
  <1>19. b \in [Nat -> SUBSET Ids]
    BY <1>15, <1>18 DEF M
  <1>20. PICK w : w = [units |-> u, near |-> near, start |-> s, depth |-> d, ball |-> b]
    OBVIOUS
  <1>21. w.units = u /\ w.near = near /\ w.start = s /\ w.depth = d /\ w.ball = b
    BY <1>20
  <1>22. \A n \in Nat : Hood(w, w.ball[n]) = Out(b[n])
    BY <1>2, <1>4, <1>21 DEF Hood, Out
  <1>23. Graph(w)
    BY <1>3, <1>4, <1>15, <1>19, <1>21, <1>22 DEF Graph
  <1>24. Reads(w)
    BY <1>2, <1>4, <1>21, <1>23 DEF Reads
  <1> QED BY <1>5, <1>13, <1>21, <1>24

\* Before the search.
LEMMA TravInvInit == Init => TravInv
  <1> SUFFICES ASSUME Init PROVE TravInv
    OBVIOUS
  <1>1. /\ tpc = IF call = "traverse" THEN "start" ELSE "idle"
        /\ queue = <<>> /\ visited = {} /\ nodes = <<>> /\ edges = <<>>
    BY DEF Init, BrowseInit
  <1>2. traversal \in TraverseCalls
    <2>1. traversal \in (IF call = "traverse" THEN TraverseCalls
                         ELSE {CHOOSE c \in TraverseCalls : TRUE})
      BY DEF Init, BrowseInit
    <2>2. TraverseCalls # {}
      BY BrowseAssumption
    <2> QED BY <2>1, <2>2
  <1> QED BY <1>1, <1>2 DEF TravInv

\* While the store and the input stay the same, so does the graph.
LEMMA ReadsSame ==
    ASSUME kind' = kind, row' = row, traversal' = traversal, NEW w
    PROVE  Reads(w)' <=> Reads(w)
  <1>1. Units' = Units
    BY DEF Units
  <1>2. Depth' = Depth
    BY DEF Depth
  <1>3. \A x \in Units : Nearby(x)' = Nearby(x)
    BY <1>1 DEF Nearby
  <1> QED BY <1>1, <1>2, <1>3 DEF Reads

\* The first step visits the start.
LEMMA SearchStarts ==
    ASSUME NEW w, Graph(w), w.start \in w.units, NEW q, q = <<[id |-> w.start, depth |-> 0]>>
    PROVE  Visits(w, q, {w.start}, <<>>) /\ Expanded(w, q, {w.start}, <<>>)
  <1>0. w.start \in Ids /\ w.ball[0] = {w.start} /\ w.depth \in Nat
    BY DEF Graph
  <1>1. PICK s \in Ids : s = w.start
    BY <1>0
  <1>2. /\ q \in Seq(Entry) /\ Len(q) = 1 /\ q[1].id = s /\ q[1].depth = 0
    BY <1>1 DEF Entry
  <1>3. 1..1 = {1}
    OBVIOUS
  <1>4. At(w, s, 0)
    BY <1>0, <1>1 DEF At
  <1>5. QueueOK(w, q, {s})
    <2>1. 0 <= w.depth
      BY <1>0
    <2>2. \A i \in 1..1 : i = 1
      OBVIOUS
    <2> QED BY <1>2, <1>3, <1>4, <2>1, <2>2 DEF QueueOK
  <1>6. NodesOK(w, <<>>, {s})
    <2>1. PICK ns : ns = <<>>
      OBVIOUS
    <2>2. ns \in Seq(Report) /\ 1..Len(ns) = {}
      BY <2>1
    <2> QED BY <1>1, <2>1, <2>2 DEF NodesOK
  <1>7. {s} \subseteq w.ball[w.depth]
    <2>1. w.ball[0] \subseteq w.ball[w.depth]
      BY <1>0, BallGrows
    <2> QED BY <1>0, <1>1, <2>1
  <1>8. {s} \ Queued(q) = {}
    BY <1>2, <1>3 DEF Queued
  <1>9. Expanded(w, q, {s}, <<>>)
    <2>1. PICK es : es = <<>>
      OBVIOUS
    <2>2. es \in Seq(SeenEdge) /\ ToSet(es) = {}
      BY <2>1 DEF ToSet
    <2> QED BY <1>8, <2>1, <2>2 DEF Expanded
  <1> QED BY <1>1, <1>5, <1>6, <1>7, <1>9 DEF Visits

\* The edges Expand goes over.
LEMMA ExpandsHead ==
    ASSUME StoreInv, traversal \in TraverseCalls, NEW w, Reads(w), queue # <<>>,
           Visits(w, queue, visited, nodes)
    PROVE  \E s : /\ HeadEdges(w, queue[1], s)
                  /\ Expand(Head(queue)) =
                       FoldLeft(Follow, Held(queue[1].depth, visited, queue, nodes, edges), s)
  <1>1. PICK head : head = queue[1]
    OBVIOUS
  <1>2. Head(queue) = head
    BY <1>1
  <1>3. Graph(w) /\ w.units = Units /\ w.depth = Depth
    BY DEF Reads
  <1>4. /\ head.depth \in Nat
        /\ head.id \in Inner(w) <=> head.depth < w.depth /\ head.id \in w.units
    BY <1>1, <1>3, HeadInner
  <1>5. PICK s : s = IF head.depth >= Depth \/ head.id \notin Units THEN <<>> ELSE Followed(head.id)
    OBVIOUS
  <1>6. Expand(head) = FoldLeft(Follow, Held(head.depth, visited, queue, nodes, edges), s)
    BY <1>5 DEF Expand, Held
  <1>7. Depth \in 1..5
    BY DepthType
  <1>8. head.depth >= Depth <=> ~ (head.depth < Depth)
    BY <1>4, <1>7
  <1>9. HeadEdges(w, head, s)
    <2>1. CASE head.id \in Inner(w)
      <3>1. head.id \in Units /\ s = Followed(head.id)
        BY <1>3, <1>4, <1>5, <1>8, <2>1
      <3>2. s \in Seq(SeenEdge) /\ ToSet(s) = Nearby(head.id)
        BY <3>1, FollowedAre
      <3>3. w.near[head.id] = Nearby(head.id)
        BY <3>1 DEF Reads
      <3> QED BY <2>1, <3>2, <3>3 DEF HeadEdges
    <2>2. CASE head.id \notin Inner(w)
      <3>1. s = <<>>
        BY <1>3, <1>4, <1>5, <1>8, <2>2
      <3> QED BY <2>2, <3>1 DEF HeadEdges
    <2> QED BY <2>1, <2>2
  <1> QED BY <1>1, <1>2, <1>6, <1>9

\* What the other calls and the other threads leave alone.
LEMMA TravInvKeep ==
    ASSUME TravInv, UNCHANGED traverseVars, call' = call,
           tpc # "idle" => UNCHANGED <<kind, row>>
    PROVE  TravInv'
  <1>1. /\ tpc' = tpc /\ traversal' = traversal /\ queue' = queue /\ visited' = visited
        /\ nodes' = nodes /\ edges' = edges
    BY DEF traverseVars
  <1>2. ASSUME tpc \in {"bfs", "done"}, NEW w, Reads(w)' 
        PROVE  Visits(w, queue, visited, nodes) /\ Expanded(w, queue, visited, edges)
    <2>1. kind' = kind /\ row' = row
      BY <1>2
    <2>2. Reads(w)
      BY <1>1, <1>2, <2>1, ReadsSame
    <2> QED BY <1>2, <2>2 DEF TravInv
  <1>3. \A w : Visits(w, queue, visited, nodes)' <=> Visits(w, queue, visited, nodes)
    BY <1>1 DEF Visits, QueueOK, NodesOK, At
  <1>4. \A w : Expanded(w, queue, visited, edges)' <=> Expanded(w, queue, visited, edges)
    BY <1>1 DEF Expanded, Queued, Inner
  <1> QED BY <1>1, <1>2, <1>3, <1>4 DEF TravInv

\* The steps of a traversal keep the invariant.
LEMMA TravInvTraverse ==
    ASSUME StoreInv, TravInv, Traverse
    PROVE  TravInv'
  <1>0. /\ call = "traverse" /\ call' = call /\ kind' = kind /\ row' = row
        /\ traversal \in TraverseCalls
    BY DEF Traverse, storeVars, TravInv
  <1>1. CASE TraverseStart
    <2>1. /\ tpc = "start" /\ traversal' = traversal /\ nodes' = nodes /\ edges' = edges
          /\ nodes = <<>> /\ edges = <<>> /\ queue = <<>> /\ visited = {}
      BY <1>1 DEF TraverseStart, TravInv
    <2>2. CASE traversal.start \in Units
      <3>1. /\ tpc' = "bfs" /\ visited' = {traversal.start}
            /\ queue' = <<[id |-> traversal.start, depth |-> 0]>>
        BY <1>1, <2>2 DEF TraverseStart
      <3>2. ASSUME NEW w, Reads(w)'
            PROVE  Visits(w, queue', visited', nodes') /\ Expanded(w, queue', visited', edges')
        <4>1. Reads(w)
          BY <1>0, <2>1, <3>2, ReadsSame
        <4>2. Graph(w) /\ w.start \in w.units /\ w.start = traversal.start
          BY <2>2, <4>1 DEF Reads
        <4>3. PICK q : q = <<[id |-> w.start, depth |-> 0]>>
          OBVIOUS
        <4>4. Visits(w, q, {w.start}, <<>>) /\ Expanded(w, q, {w.start}, <<>>)
          BY <4>2, <4>3, SearchStarts
        <4> QED BY <2>1, <3>1, <4>2, <4>3, <4>4
      <3> QED BY <1>0, <2>1, <3>1, <3>2 DEF TravInv
    <2>3. CASE traversal.start \notin Units
      <3>1. tpc' = "NotFound" /\ visited' = visited /\ queue' = queue
        BY <1>1, <2>3 DEF TraverseStart
      <3> QED BY <1>0, <2>1, <3>1 DEF TravInv
    <2> QED BY <2>2, <2>3
  <1>2. CASE TraversePop
    <2>1. PICK acc : acc = Expand(Head(queue))
      OBVIOUS
    <2>2. /\ tpc = "bfs" /\ queue # <<>> /\ queue' = Tail(acc.queue) /\ visited' = acc.visited
          /\ nodes' = acc.nodes /\ edges' = acc.edges /\ tpc' = tpc /\ traversal' = traversal
      BY <1>2, <2>1 DEF TraversePop
    <2>3. ASSUME NEW w, Reads(w)'
          PROVE  Visits(w, queue', visited', nodes') /\ Expanded(w, queue', visited', edges')
      <3>1. Reads(w) /\ Graph(w) /\ w.units = Units
        <4>1. Reads(w)
          BY <1>0, <2>2, <2>3, ReadsSame
        <4> QED BY <4>1 DEF Reads
      <3>2. Visits(w, queue, visited, nodes) /\ Expanded(w, queue, visited, edges)
        BY <2>2, <3>1 DEF TravInv
      <3>3. PICK s : /\ HeadEdges(w, queue[1], s)
                     /\ acc = FoldLeft(Follow, Held(queue[1].depth, visited, queue, nodes, edges), s)
        BY <1>0, <2>1, <2>2, <3>1, <3>2, ExpandsHead
      <3>4. /\ Visits(w, Tail(acc.queue), acc.visited, acc.nodes)
            /\ Expanded(w, Tail(acc.queue), acc.visited, acc.edges)
        BY <2>2, <3>1, <3>2, <3>3, PopExpands
      <3> QED BY <2>2, <3>4
    <2> QED BY <1>0, <2>2, <2>3 DEF TravInv
  <1>3. CASE TraverseReturn
    <2>1. /\ tpc = "bfs" /\ queue = <<>> /\ tpc' = "done" /\ traversal' = traversal
          /\ queue' = queue /\ visited' = visited /\ nodes' = nodes /\ edges' = edges
      BY <1>3 DEF TraverseReturn
    <2>2. ASSUME NEW w, Reads(w)'
          PROVE  Visits(w, queue', visited', nodes') /\ Expanded(w, queue', visited', edges')
      <3>1. Reads(w)
        BY <1>0, <2>1, <2>2, ReadsSame
      <3> QED BY <2>1, <3>1 DEF TravInv
    <2> QED BY <1>0, <2>1, <2>2 DEF TravInv
  <1> QED BY <1>1, <1>2, <1>3 DEF Traverse, TraverseStep

\* Every step keeps it: no other thread steps during a traversal.
LEMMA TravInvNext == StoreInv /\ TravInv /\ [Next]_readVars => TravInv'
  <1> SUFFICES ASSUME StoreInv, TravInv, [Next]_readVars PROVE TravInv'
    OBVIOUS
  <1>1. CASE Traverse
    BY <1>1, TravInvTraverse
  <1>2. CASE Retrieve \/ List \/ ParseTime \/ Associate \/ UNCHANGED readVars
    <2>1. UNCHANGED traverseVars /\ UNCHANGED storeVars
      BY <1>2 DEF Retrieve, List, ParseTime, Associate, readVars
    <2>2. call' = call /\ kind' = kind /\ row' = row
      BY <2>1 DEF storeVars
    <2> QED BY <2>1, <2>2, TravInvKeep
  <1>3. CASE Others
    <2>1. UNCHANGED traverseVars /\ Reading /\ StoreStep
      BY <1>3 DEF Others
    <2>2. call' = call
      BY <2>1 DEF StoreStep, Write, Forget, Unindex, Put, PutRow, Change
    <2>3. tpc = "idle"
      BY <2>1 DEF Reading, TravInv
    <2> QED BY <2>1, <2>2, <2>3, TravInvKeep
  <1> QED BY <1>1, <1>2, <1>3 DEF Next

\* When the queue is empty, all nodes within the depth are visited, and each has its
\* distance.
LEMMA SearchEnds ==
    ASSUME StoreInv, TravInv
    PROVE  TraverseExact
  <1> SUFFICES ASSUME tpc = "done" PROVE TraverseExact
    BY DEF TraverseExact
  <1>1. traversal \in TraverseCalls /\ queue = <<>>
    BY DEF TravInv
  <1>2. PICK w : Reads(w) /\ w.ball = Ball
    BY <1>1, ReadsBall
  <1>3. /\ Graph(w) /\ w.units = Units /\ w.start = traversal.start /\ w.depth = Depth
        /\ \A x \in Units : w.near[x] = Nearby(x)
    BY <1>2 DEF Reads
  <1>4. Visits(w, queue, visited, nodes) /\ Expanded(w, queue, visited, edges)
    BY <1>2 DEF TravInv
  <1>5. PICK d \in Nat : d = w.depth /\ d # 0 /\ d - 1 \in Nat /\ d - 1 <= d
    BY <1>3 DEF Graph
  <1>6. 1..Len(queue) = {} /\ Queued(queue) = {}
    BY <1>1 DEF Queued
  <1>7. visited = w.ball[d]
    <2>1. d <= w.depth /\ \A i \in 1..Len(queue) : d <= queue[i].depth
      BY <1>5, <1>6
    <2>2. w.ball[d] \subseteq visited
      BY <1>3, <1>4, <2>1, AllWithin
    <2> QED BY <1>4, <1>5, <2>2 DEF Visits
  <1>8. NodesOK(w, nodes, visited)
    BY <1>4 DEF Visits
  <1>9. PICK n \in Nat : n = Len(nodes) /\ DOMAIN nodes = 1..n
    BY <1>8 DEF NodesOK
  <1>10. \A i, j \in DOMAIN nodes : i # j => nodes[i].id # nodes[j].id
    BY <1>8, <1>9 DEF NodesOK
  <1>11. \A i \in 1..n : nodes[i] \in Report
    BY <1>8, <1>9 DEF NodesOK
  <1>12. ASSUME NEW r \in ToSet(nodes)
         PROVE  r \in [id : Units, depth : 1..Depth] /\ r.id \in Ball[r.depth] \ Ball[r.depth - 1]
    <2>1. PICK i \in 1..n : r = nodes[i]
      BY <1>9 DEF ToSet
    <2>2. r \in Report /\ At(w, r.id, r.depth) /\ r.id \in Units /\ r.depth <= d
      BY <1>3, <1>5, <1>8, <1>9, <1>11, <2>1 DEF NodesOK
    <2>3. r.depth \in 1..5 /\ r = [id |-> r.id, depth |-> r.depth]
      BY <2>2 DEF Report
    <2>4. r.depth \in 1..Depth /\ r.depth # 0
      BY <1>3, <1>5, <2>2, <2>3
    <2>5. r \in [id : Units, depth : 1..Depth]
      BY <2>2, <2>3, <2>4
    <2> QED BY <1>2, <2>2, <2>4, <2>5 DEF At
  <1>13. ASSUME NEW r \in [id : Units, depth : 1..Depth], r.id \in Ball[r.depth] \ Ball[r.depth - 1]
         PROVE  r \in ToSet(nodes)
    <2>1. PICK x \in Units, c \in 1..d : r = [id |-> x, depth |-> c]
      BY <1>3, <1>5
    <2>2. /\ x = r.id /\ c = r.depth /\ c \in Nat /\ c # 0 /\ c - 1 \in Nat /\ c <= d
          /\ 0 <= c - 1 /\ 0 \in Nat
      BY <2>1
    <2>3. At(w, x, c)
      BY <1>2, <1>13, <2>2 DEF At
    <2>4. x \in visited
      <3>1. w.ball[c] \subseteq w.ball[d]
        BY <1>3, <2>2, BallGrows
      <3> QED BY <1>7, <2>3, <3>1 DEF At
    <2>5. x # w.start
      <3>1. w.ball[0] \subseteq w.ball[c - 1]
        BY <1>3, <2>2, BallGrows
      <3>2. w.start \in w.ball[0]
        BY <1>3 DEF Graph
      <3> QED BY <2>2, <2>3, <3>1, <3>2 DEF At
    <2>6. PICK i \in 1..n : nodes[i].id = x
      BY <1>3, <1>8, <1>9, <2>4, <2>5 DEF NodesOK
    <2>7. At(w, x, nodes[i].depth)
      BY <1>8, <1>9, <2>6 DEF NodesOK
    <2>8. nodes[i].depth = c
      BY <1>3, <2>3, <2>7, OneDistance
    <2>9. nodes[i] = [id |-> x, depth |-> c]
      BY <1>11, <2>6, <2>8 DEF Report
    <2> QED BY <1>9, <2>1, <2>9 DEF ToSet
  <1>14. ToSet(nodes) =
           {r \in [id : Units, depth : 1..Depth] : r.id \in Ball[r.depth] \ Ball[r.depth - 1]}
    BY <1>12, <1>13
  <1>15. ToSet(edges) = UNION {Nearby(x) : x \in Ball[Depth - 1] \cap Units}
    <2>1. w.ball[d - 1] \subseteq w.ball[d]
      BY <1>3, <1>5, BallGrows
    <2>2. (visited \ Queued(queue)) \cap Inner(w) = Ball[Depth - 1] \cap Units
      BY <1>2, <1>3, <1>5, <1>6, <1>7, <2>1 DEF Inner
    <2>3. ToSet(edges) = UNION {w.near[x] : x \in Ball[Depth - 1] \cap Units}
      BY <1>4, <2>2 DEF Expanded
    <2> QED BY <1>3, <2>3
  <1> QED BY <1>10, <1>14, <1>15 DEF TraverseExact

\* traverse (Engine::traverse in traverse_api.rs) returns every existing memory within
\* max_depth edges of the start exactly once and at its distance, and exactly the
\* edges of the memories nearer than max_depth, whatever the edges, the direction
\* and the types asked for.
THEOREM TraverseExactAlways == Spec => []TraverseExact
  <1>1. Init => StoreInv /\ TravInv
    BY StoreInvInit, TravInvInit
  <1>2. StoreInv /\ TravInv /\ [Next]_readVars => (StoreInv /\ TravInv)'
    BY StoreInvNext, TravInvNext
  <1>3. StoreInv /\ TravInv => TraverseExact
    BY SearchEnds
  <1> QED BY <1>1, <1>2, <1>3, PTL DEF Spec
=============================================================================
