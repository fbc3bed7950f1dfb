-------------------------- MODULE LinkGraphProofs --------------------------
(***************************************************************************)
(* The invariants and action properties of LinkGraph, for every number of  *)
(* memories and every value of the parameters.                             *)
(*                                                                         *)
(* What the steps do to a unit's links is a series of maps that leave the  *)
(* identity of an edge alone (target, source of the edge, type and         *)
(* observation state), two that do not (new co-activation edges, the       *)
(* redirection to a summary) and cuts.  GoodLinks says what all of them    *)
(* preserve.                                                               *)
(***************************************************************************)
EXTENDS LinkGraph, FiniteSetTheorems, TLAPS

SameKey(e, f) ==
    e.to = f.to /\ e.orig = f.orig /\ e.type = f.type /\ e.obs = f.obs

\* Edges lead to memories that were drawn; an edge that was redirected leads
\* to a summary; two alike edges were redirected; confirmed edges differ in
\* what they were built for.
GoodLinks(L, I, S) ==
    /\ L \in SUBSET Link /\ IsFiniteSet(L)
    /\ \A e \in L : e.to \in I /\ e.orig \in I /\ (e.orig # e.to => e.to \in S)
    /\ \A e, f \in L : e.to = f.to /\ e.type = f.type /\ e # f =>
           e.orig # e.to /\ f.orig # f.to /\ e.orig # f.orig
    /\ \A e, f \in L : ~ e.obs /\ ~ f.obs /\ e.orig = f.orig /\ e.type = f.type => e = f

IndInv ==
    /\ TypeOK
    /\ DegreeBounded
    /\ Paired \subseteq issued
    /\ \A x \in Ids : GoodLinks(links[x], issued, summaries)
    /\ \A x \in Ids \ live : links[x] = {}

-----------------------------------------------------------------------------
(***************************************************************************)
(* Sets of links.                                                          *)
(***************************************************************************)
\* The image of a finite set under a function is finite and not larger; it is
\* as large when the function is one-to-one.
LEMMA Image ==
  ASSUME NEW S, IsFiniteSet(S), NEW M, NEW F \in Surjection(S, M)
  PROVE  /\ IsFiniteSet(M)
         /\ Cardinality(M) \in Nat /\ Cardinality(S) \in Nat
         /\ Cardinality(M) <= Cardinality(S)
         /\ (\A e, f \in S : F[e] = F[f] => e = f) =>
                Cardinality(M) = Cardinality(S)
<1>1. /\ IsFiniteSet(M) /\ Cardinality(M) <= Cardinality(S)
      /\ Cardinality(M) = Cardinality(S) <=> F \in Injection(S, M)
  BY FS_Surjection
<1>2. Cardinality(M) \in Nat /\ Cardinality(S) \in Nat
  BY <1>1, FS_CardinalityType
<1>3. ASSUME \A e, f \in S : F[e] = F[f] => e = f
      PROVE  F \in Injection(S, M)
  <2>1. F \in [S -> M]
    BY DEF Surjection
  <2> QED BY <1>3, <2>1 DEF Injection, IsInjective
<1> QED BY <1>1, <1>2, <1>3

\* A map that keeps the identity of edges, followed by a cut, preserves
\* GoodLinks.
LEMMA MapGood ==
  ASSUME NEW L, NEW I, NEW S, GoodLinks(L, I, S),
         NEW F \in [L -> Link], \A e \in L : SameKey(F[e], e),
         NEW M \in SUBSET {F[e] : e \in L}
  PROVE  GoodLinks(M, I, S) /\ Cardinality(M) \in Nat /\ Cardinality(M) <= Cardinality(L)
<1>0. PICK A : A = {F[e] : e \in L}
  OBVIOUS
<1>1. /\ IsFiniteSet(A) /\ Cardinality(A) <= Cardinality(L)
      /\ Cardinality(A) \in Nat /\ Cardinality(L) \in Nat
  <2>1. IsFiniteSet(L)
    BY DEF GoodLinks
  <2>2. F \in Surjection(L, A)
    BY <1>0 DEF Surjection
  <2> QED BY <2>1, <2>2, Image
<1>2. /\ IsFiniteSet(M) /\ Cardinality(M) \in Nat
      /\ Cardinality(M) <= Cardinality(A)
  <2>1. M \in SUBSET A
    BY <1>0
  <2> QED BY <1>1, <2>1, FS_Subset, FS_CardinalityType
<1>3. M \in SUBSET Link
  OBVIOUS
<1>4. \A m \in M : \E e \in L : m = F[e] /\ SameKey(m, e)
  OBVIOUS
<1>5. \A e \in M : e.to \in I /\ e.orig \in I /\ (e.orig # e.to => e.to \in S)
  BY <1>4 DEF GoodLinks, SameKey
<1>6. ASSUME NEW e \in M, NEW f \in M, e.to = f.to, e.type = f.type, e # f
      PROVE  e.orig # e.to /\ f.orig # f.to /\ e.orig # f.orig
  <2>1. PICK a \in L : e = F[a] /\ SameKey(e, a)
    BY <1>4
  <2>2. PICK b \in L : f = F[b] /\ SameKey(f, b)
    BY <1>4
  <2> QED BY <1>6, <2>1, <2>2 DEF GoodLinks, SameKey
<1>7. ASSUME NEW e \in M, NEW f \in M, ~ e.obs, ~ f.obs, e.orig = f.orig, e.type = f.type
      PROVE  e = f
  <2>1. PICK a \in L : e = F[a] /\ SameKey(e, a)
    BY <1>4
  <2>2. PICK b \in L : f = F[b] /\ SameKey(f, b)
    BY <1>4
  <2> QED BY <1>7, <2>1, <2>2 DEF GoodLinks, SameKey
<1> QED BY <1>1, <1>2, <1>3, <1>5, <1>6, <1>7 DEF GoodLinks

\* A cut preserves GoodLinks.
LEMMA CutGood ==
  ASSUME NEW L, NEW I, NEW S, GoodLinks(L, I, S), NEW M \in SUBSET L
  PROVE  GoodLinks(M, I, S) /\ Cardinality(M) \in Nat /\ Cardinality(M) <= Cardinality(L)
<1>1. [e \in L |-> e] \in [L -> Link] /\ \A e \in L : SameKey([g \in L |-> g][e], e)
  BY DEF GoodLinks, SameKey
<1>2. M \in SUBSET {[g \in L |-> g][e] : e \in L}
  OBVIOUS
<1> QED BY <1>1, <1>2, MapGood

\* Drawing ids and making summaries preserve GoodLinks.
LEMMA GrowGood ==
  ASSUME NEW L, NEW I, NEW S, GoodLinks(L, I, S), NEW J, I \subseteq J,
         NEW T, S \subseteq T
  PROVE  GoodLinks(L, J, T)
BY DEF GoodLinks

-----------------------------------------------------------------------------
(***************************************************************************)
(* What each map does to one edge.                                         *)
(***************************************************************************)
\* The parameters, one by one.
LEMMA Params ==
  /\ MaxLevel \in Nat /\ MaxLevel >= 2 /\ MaxDoublings \in Nat /\ MaxDay \in Nat
  /\ Threshold \in Nat /\ DegreeLimit \in Nat /\ MaxCandidates \in Nat
  /\ MaxCalls \in Nat /\ IsFiniteSet(Ids)
BY LinkGraphAssumption

\* strengthen_edge.
LEMMA ReviewLink ==
  ASSUME NEW e \in Link, day \in Days
  PROVE  Review(e) \in Link /\ SameKey(Review(e), e) /\ Review(e).lvl >= e.lvl
<1>1. /\ e.lvl \in Levels /\ e.act \in 0..MaxDoublings
      /\ Smaller(e.lvl + 1, MaxLevel) \in Levels /\ Smaller(e.lvl + 1, MaxLevel) >= e.lvl
      /\ Smaller(e.act + 1, MaxDoublings) \in 0..MaxDoublings
  BY Params DEF Link, Levels, Smaller
<1> QED BY <1>1 DEF Review, Link, SameKey

\* hebbian_reinforce never weakens.
LEMMA ReinforceLink ==
  ASSUME NEW e \in Link, day \in Days, NEW P, IsFiniteSet(P)
  PROVE  /\ Reinforce(e, P) \in Link /\ SameKey(Reinforce(e, P), e)
         /\ Reinforce(e, P).lvl >= e.lvl
<1>1. PICK k : k = Cardinality({p \in P : e.to \in {p[1], p[2]}})
  OBVIOUS
<1>2. k \in Nat
  <2>1. {p \in P : e.to \in {p[1], p[2]}} \in SUBSET P
    OBVIOUS
  <2> QED BY <1>1, <2>1, FS_Subset, FS_CardinalityType
<1>3. e.lvl \in Levels /\ e.act \in 0..MaxDoublings /\ e.last \in Days
  BY DEF Link
<1>4. CASE k = 0
  BY <1>1, <1>3, <1>4, Params DEF Reinforce, SameKey, Levels
<1>5. CASE k # 0
  <2>1. /\ Smaller(e.lvl + k, MaxLevel) \in Levels /\ Smaller(e.lvl + k, MaxLevel) >= e.lvl
        /\ Smaller(e.act + k, MaxDoublings) \in 0..MaxDoublings
    BY <1>2, <1>3, Params DEF Levels, Smaller
  <2>2. Reinforce(e, P) = [e EXCEPT !.lvl = Smaller(e.lvl + k, MaxLevel),
                                    !.act = Smaller(e.act + k, MaxDoublings),
                                    !.last = day]
    BY <1>1, <1>5 DEF Reinforce
  <2> QED BY <2>1, <2>2, <1>3 DEF Link, SameKey
<1> QED BY <1>2, <1>4, <1>5

\* reject_weaken lowers an edge only when a rejection names one of its ends.
LEMMA WeakenLink ==
  ASSUME NEW x, NEW e \in Link, day \in Days
  PROVE  /\ Weaken(x, e) \in Link /\ SameKey(Weaken(x, e), e)
         /\ Weaken(x, e).lvl >= e.lvl \/ x \in rejected \/ e.to \in rejected
<1>1. e.lvl \in Levels /\ e.act \in 0..MaxDoublings
  BY DEF Link
<1>2. CASE e.lvl > 1 /\ (x \in rejected \/ e.to \in rejected)
  <2>1. e.lvl - 1 \in Levels /\ Larger(e.act - 1, 0) \in 0..MaxDoublings
    BY <1>1, <1>2, Params DEF Levels, Larger
  <2>2. Weaken(x, e) = [e EXCEPT !.lvl = e.lvl - 1, !.act = Larger(e.act - 1, 0),
                                 !.last = day]
    BY <1>2 DEF Weaken
  <2> QED BY <1>2, <2>1, <2>2 DEF Link, SameKey
<1>3. CASE ~ (e.lvl > 1 /\ (x \in rejected \/ e.to \in rejected))
  BY <1>1, <1>3, Params DEF Weaken, SameKey, Levels
<1> QED BY <1>2, <1>3

\* Decay leaves a protected edge alone and keeps the others above the floor.
LEMMA FadedLink ==
  ASSUME NEW e \in Link
  PROVE  /\ Faded(e) \in Link /\ SameKey(Faded(e), e)
         /\ IsProtected(e) => Faded(e) = e
<1>1. PICK h : h = Halvings(e)
  OBVIOUS
<1>2. h \in Nat
  <2>1. {k \in Levels : k * 2^(e.act) <= day - e.last} \in SUBSET Levels
    OBVIOUS
  <2>2. IsFiniteSet(Levels)
    BY Params, FS_Interval DEF Levels
  <2> QED BY <1>1, <2>1, <2>2, FS_Subset, FS_CardinalityType DEF Halvings
<1>3. Larger(e.lvl - h, 1) \in Levels
  BY <1>2, Params DEF Larger, Levels, Link
<1>4. Faded(e) = IF IsProtected(e) THEN e ELSE [e EXCEPT !.lvl = Larger(e.lvl - h, 1)]
  BY <1>1 DEF Faded
<1> QED BY <1>3, <1>4 DEF Link, SameKey

-----------------------------------------------------------------------------
(***************************************************************************)
(* What a cycle does to the links of one unit.                             *)
(***************************************************************************)
\* The co-activated pairs are finitely many pairs of drawn ids.
LEMMA PairsFacts ==
  ASSUME IndInv
  PROVE  CoPairs \in SUBSET (issued \X issued) /\ IsFiniteSet(CoPairs)
<1>1. CoPairs \in SUBSET (issued \X issued)
  BY DEF IndInv, CoPairs
<1>2. IsFiniteSet(issued)
  BY Params, FS_Subset DEF IndInv, TypeOK
<1>3. IsFiniteSet(issued \X issued)
  BY <1>2, FS_Product
<1> QED BY <1>1, <1>3, FS_Subset

\* New co-activation edges duplicate nothing and are observed.
LEMMA CoLinksGood ==
  ASSUME NEW L, GoodLinks(L, issued, summaries), NEW x, issued \subseteq Ids,
         NEW P \in SUBSET (issued \X issued), IsFiniteSet(P), day \in Days
  PROVE  /\ GoodLinks(L \cup CoLinks(x, L, P), issued, summaries)
         /\ \A c \in CoLinks(x, L, P) : c \in Link /\ c.obs
<1>1. ASSUME NEW y \in issued
      PROVE  CoLink(y) \in Link
  <2>1. Smaller(Threshold, MaxDoublings) \in 0..MaxDoublings /\ 2 \in Levels
    BY Params DEF Smaller, Levels
  <2> QED BY <1>1, <2>1 DEF CoLink, Link, Types
<1>2. \A c \in CoLinks(x, L, P) : \E y \in issued :
         c = CoLink(y) /\ ~ \E e \in L : e.to = y /\ e.type = "Causal"
  BY DEF CoLinks
<1>3. \A c \in CoLinks(x, L, P) : /\ c \in Link /\ c.obs /\ c.type = "Causal"
                                  /\ c.to = c.orig /\ c.to \in issued
                                  /\ c = CoLink(c.to)
                                  /\ \A e \in L : e.to # c.to \/ e.type # "Causal"
  BY <1>1, <1>2 DEF CoLink
<1>4. IsFiniteSet(CoLinks(x, L, P))
  <2>1. PICK Q : Q = {q \in P : /\ q[1] = x
                                /\ ~ \E e \in L : e.to = q[2] /\ e.type = "Causal"}
    OBVIOUS
  <2>2. IsFiniteSet(Q)
    BY <2>1, FS_Subset
  <2>3. [q \in Q |-> CoLink(q[2])] \in Surjection(Q, CoLinks(x, L, P))
    BY <2>1 DEF Surjection, CoLinks
  <2> QED BY <2>2, <2>3, Image
<1>5. IsFiniteSet(L \cup CoLinks(x, L, P))
  BY <1>4, FS_Union DEF GoodLinks
<1> QED BY <1>3, <1>5 DEF GoodLinks

\* A cycle keeps GoodLinks, keeps confirmed edges, adds only observed ones and
\* weakens a protected edge only for a rejection.
LEMMA RunCycleFacts ==
  ASSUME IndInv, NEW x \in Ids, NEW P, P = CoPairs
  PROVE  /\ GoodLinks(RunCycle(x, P), issued, summaries)
         /\ \A e \in links[x] : e.obs \/ \E g \in RunCycle(x, P) : SameKey(g, e)
         /\ \A g \in RunCycle(x, P) : ~ g.obs =>
               \E e \in links[x] :
                  /\ SameKey(g, e)
                  /\ IsProtected(e) =>
                        g.lvl >= e.lvl \/ x \in rejected \/ e.to \in rejected
<1>1. /\ P \in SUBSET (issued \X issued) /\ IsFiniteSet(P) /\ day \in Days
      /\ issued \subseteq Ids /\ GoodLinks(links[x], issued, summaries)
  BY PairsFacts DEF IndInv, TypeOK
<1>2. links[x] \in SUBSET Link
  BY <1>1 DEF GoodLinks
<1>3. PICK old : old = {Reinforce(e, P) : e \in links[x]}
  OBVIOUS
<1>4. GoodLinks(old, issued, summaries)
  <2>1. PICK F : F = [e \in links[x] |-> Reinforce(e, P)]
    OBVIOUS
  <2>2. F \in [links[x] -> Link] /\ \A e \in links[x] : SameKey(F[e], e)
    BY <1>1, <1>2, <2>1, ReinforceLink
  <2>3. old \in SUBSET {F[e] : e \in links[x]}
    BY <1>3, <2>1
  <2> QED BY <1>1, <2>2, <2>3, MapGood
<1>5. PICK all : all = old \cup CoLinks(x, old, P)
  OBVIOUS
<1>6. /\ GoodLinks(all, issued, summaries)
      /\ \A c \in CoLinks(x, old, P) : c \in Link /\ c.obs
  BY <1>1, <1>4, <1>5, CoLinksGood
<1>7. PICK weak : weak = {Weaken(x, e) : e \in all}
  OBVIOUS
<1>8. GoodLinks(weak, issued, summaries)
  <2>1. PICK F : F = [e \in all |-> Weaken(x, e)]
    OBVIOUS
  <2>2. F \in [all -> Link] /\ \A e \in all : SameKey(F[e], e)
    BY <1>1, <1>6, <2>1, WeakenLink DEF GoodLinks
  <2>3. weak \in SUBSET {F[e] : e \in all}
    BY <1>7, <2>1
  <2> QED BY <1>6, <2>2, <2>3, MapGood
<1>9. RunCycle(x, P) = Decay(weak)
  BY <1>3, <1>5, <1>7 DEF RunCycle
<1>10. GoodLinks(RunCycle(x, P), issued, summaries)
  <2>1. PICK F : F = [e \in weak |-> Faded(e)]
    OBVIOUS
  <2>2. F \in [weak -> Link] /\ \A e \in weak : SameKey(F[e], e)
    BY <1>8, <2>1, FadedLink DEF GoodLinks
  <2>3. Decay(weak) \in SUBSET {F[e] : e \in weak}
    BY <2>1 DEF Decay
  <2> QED BY <1>8, <1>9, <2>2, <2>3, MapGood
<1>11. ASSUME NEW e \in links[x], ~ e.obs
       PROVE  \E g \in RunCycle(x, P) : SameKey(g, e)
  <2>1. PICK a : a = Reinforce(e, P)
    OBVIOUS
  <2>2. a \in all /\ a \in Link /\ SameKey(a, e)
    BY <1>1, <1>2, <1>3, <1>5, <2>1, ReinforceLink
  <2>3. PICK b : b = Weaken(x, a)
    OBVIOUS
  <2>4. b \in weak /\ b \in Link /\ SameKey(b, a)
    BY <1>1, <1>7, <2>2, <2>3, WeakenLink
  <2>5. Faded(b) \in Decay(weak)
    BY <1>11, <2>2, <2>4 DEF Decay, SameKey
  <2>6. SameKey(Faded(b), b)
    BY <2>4, FadedLink
  <2> QED BY <1>9, <2>2, <2>4, <2>5, <2>6 DEF SameKey
<1>12. ASSUME NEW g \in RunCycle(x, P), ~ g.obs
       PROVE  \E e \in links[x] :
                  /\ SameKey(g, e)
                  /\ IsProtected(e) =>
                        g.lvl >= e.lvl \/ x \in rejected \/ e.to \in rejected
  <2>1. PICK b \in weak : g = Faded(b)
    BY <1>9 DEF Decay
  <2>2. b \in Link /\ SameKey(g, b) /\ (IsProtected(b) => g = b)
    BY <1>8, <2>1, FadedLink DEF GoodLinks
  <2>3. PICK a \in all : b = Weaken(x, a)
    BY <1>7
  <2>4. /\ a \in Link /\ SameKey(b, a)
        /\ b.lvl >= a.lvl \/ x \in rejected \/ a.to \in rejected
    BY <1>1, <1>6, <2>3, WeakenLink DEF GoodLinks
  <2>5. ~ a.obs
    BY <1>12, <2>2, <2>4 DEF SameKey
  <2>6. PICK e \in links[x] : a = Reinforce(e, P)
    BY <1>3, <1>5, <1>6, <2>5
  <2>7. e \in Link /\ SameKey(a, e) /\ a.lvl >= e.lvl
    BY <1>1, <1>2, <2>6, ReinforceLink
  <2>8. SameKey(g, e)
    BY <2>2, <2>4, <2>7 DEF SameKey
  <2>9. ASSUME IsProtected(e)
        PROVE  g.lvl >= e.lvl \/ x \in rejected \/ e.to \in rejected
    <3>1. g = b
      BY <2>2, <2>4, <2>7, <2>9 DEF IsProtected, SameKey
    <3>2. a.to = e.to /\ e.lvl \in Int /\ a.lvl \in Int /\ b.lvl \in Int
      BY <2>2, <2>4, <2>7, Params DEF SameKey, Link, Levels
    <3> QED BY <2>4, <2>7, <3>1, <3>2
  <2> QED BY <2>8, <2>9
<1> QED BY <1>10, <1>11, <1>12

\* Compaction keeps everything or exactly as many edges as the limit.
LEMMA CompactionFacts ==
  ASSUME NEW L, NEW I, NEW S, GoodLinks(L, I, S), NEW K \in Compactions(L)
  PROVE  /\ K \in SUBSET L /\ GoodLinks(K, I, S)
         /\ Cardinality(K) \in Nat /\ Cardinality(K) <= DegreeLimit
         /\ K = L \/ Cardinality(K) = DegreeLimit
<1>1. /\ K \in SUBSET L /\ Cardinality(K) <= DegreeLimit
      /\ K = L \/ Cardinality(K) = DegreeLimit
  BY Params DEF Compactions
<1> QED BY <1>1, CutGood

\* Redirection moves every edge at a source to a summary that is new, and so
\* merges no two edges.
LEMMA RedirectFacts ==
  ASSUME NEW L, NEW I, NEW S, GoodLinks(L, I, S), NEW C, C \cap S = {},
         NEW s \in Ids, s \notin I
  PROVE  /\ GoodLinks(Redirect(L, C, s), I \cup {s}, S \cup {s})
         /\ Cardinality(Redirect(L, C, s)) = Cardinality(L)
<1>1. PICK F : F = [e \in L |-> IF e.to \in C THEN [e EXCEPT !.to = s] ELSE e]
  OBVIOUS
<1>2. PICK M : M = Redirect(L, C, s)
  OBVIOUS
<1>3. L \in SUBSET Link /\ IsFiniteSet(L)
  BY DEF GoodLinks
<1>4. /\ F \in Surjection(L, M)
      /\ \A e \in L : F[e] = IF e.to \in C THEN [e EXCEPT !.to = s] ELSE e
  BY <1>1, <1>2 DEF Surjection, Redirect
<1>5. ASSUME NEW e \in L
      PROVE  /\ F[e] \in Link
             /\ F[e].orig = e.orig /\ F[e].type = e.type /\ F[e].obs = e.obs
             /\ F[e].lvl = e.lvl /\ F[e].act = e.act /\ F[e].last = e.last
             /\ e.to \in C => F[e].to = s /\ e.orig = e.to
             /\ e.to \notin C => F[e] = e /\ e.to # s
             /\ e.orig # s
  <2>1. e \in Link /\ e.to # s /\ e.orig # s /\ (e.to \in C => e.orig = e.to)
    BY <1>3 DEF GoodLinks
  <2>2. CASE e.to \in C
    <3>1. F[e] = [e EXCEPT !.to = s]
      BY <1>4, <2>2
    <3> QED BY <2>1, <2>2, <3>1 DEF Link
  <2>3. CASE e.to \notin C
    BY <1>4, <2>1, <2>3
  <2> QED BY <2>2, <2>3
<1>6. ASSUME NEW e \in L, NEW f \in L, F[e] = F[f]
      PROVE  e = f
  <2>1. e.to = f.to
    BY <1>5, <1>6
  <2>2. e.orig = f.orig /\ e.type = f.type
    BY <1>5, <1>6
  <2>3. CASE e.to \in C
    BY <1>5, <2>1, <2>2, <2>3 DEF GoodLinks
  <2>4. CASE e.to \notin C
    BY <1>5, <1>6, <2>1, <2>4
  <2> QED BY <2>3, <2>4
<1>7. IsFiniteSet(M) /\ Cardinality(M) = Cardinality(L)
  BY <1>3, <1>4, <1>6, Image
<1>8. \A m \in M : \E e \in L : m = F[e]
  BY <1>4 DEF Surjection
<1>9. M \in SUBSET Link
  BY <1>5, <1>8
<1>10. ASSUME NEW m \in M
       PROVE  /\ m.to \in I \cup {s} /\ m.orig \in I \cup {s}
              /\ m.orig # m.to => m.to \in S \cup {s}
  <2>1. PICK e \in L : m = F[e]
    BY <1>8
  <2> QED BY <1>5, <2>1 DEF GoodLinks
<1>11. ASSUME NEW m \in M, NEW n \in M, m.to = n.to, m.type = n.type, m # n
       PROVE  m.orig # m.to /\ n.orig # n.to /\ m.orig # n.orig
  <2>1. PICK e \in L : m = F[e]
    BY <1>8
  <2>2. PICK f \in L : n = F[f]
    BY <1>8
  <2>3. e # f /\ e.type = f.type
    BY <1>5, <1>11, <2>1, <2>2
  <2>4. CASE e.to \in C
    <3>1. f.to \in C
      BY <1>5, <1>11, <2>1, <2>2, <2>4
    <3>2. e.to # f.to
      BY <1>5, <2>3, <2>4 DEF GoodLinks
    <3> QED BY <1>5, <2>1, <2>2, <2>4, <3>1, <3>2
  <2>5. CASE e.to \notin C
    <3>1. f.to \notin C
      BY <1>5, <1>11, <2>1, <2>2, <2>5
    <3> QED BY <1>5, <1>11, <2>1, <2>2, <2>5, <3>1 DEF GoodLinks
  <2> QED BY <2>4, <2>5
<1>12. ASSUME NEW m \in M, NEW n \in M, ~ m.obs, ~ n.obs, m.orig = n.orig, m.type = n.type
       PROVE  m = n
  <2>1. PICK e \in L : m = F[e]
    BY <1>8
  <2>2. PICK f \in L : n = F[f]
    BY <1>8
  <2>3. e = f
    BY <1>5, <1>12, <2>1, <2>2 DEF GoodLinks
  <2> QED BY <2>1, <2>2, <2>3
<1>13. GoodLinks(M, I \cup {s}, S \cup {s})
  BY <1>7, <1>9, <1>10, <1>11, <1>12 DEF GoodLinks
<1> QED BY <1>2, <1>7, <1>13

\* Nothing is redirected when nothing is compressed.
LEMMA RedirectNothing ==
  ASSUME NEW L
  PROVE  Redirect(L, {}, None) = L
BY DEF Redirect

\* Every edge before the redirection has its image after it, and conversely.
LEMMA RedirectEdges ==
  ASSUME NEW L \in SUBSET Link, NEW C, NEW s
  PROVE  /\ \A e \in L : \E f \in Redirect(L, C, s) : SameEdge(e, f) /\ f.lvl = e.lvl
         /\ \A f \in Redirect(L, C, s) : \E e \in L : SameEdge(e, f) /\ f.lvl = e.lvl
<1> DEFINE m(e) == IF e.to \in C THEN [e EXCEPT !.to = s] ELSE e
<1>1. ASSUME NEW e \in L
      PROVE  SameEdge(e, m(e)) /\ m(e).lvl = e.lvl
  BY DEF Link, SameEdge
<1>2. Redirect(L, C, s) = {m(e) : e \in L}
  BY DEF Redirect
<1> HIDE DEF m
<1> QED BY <1>1, <1>2

-----------------------------------------------------------------------------
(***************************************************************************)
(* One step.  UnitStep is what every action does to every unit.            *)
(***************************************************************************)
Descends(x, f) ==
    \E e \in links[x] :
        /\ SameEdge(e, f)
        /\ IsProtected(e) => f.lvl >= e.lvl \/ x \in rejected \/ e.to \in rejected

UnitStep(x) ==
    /\ GoodLinks(links'[x], issued', summaries')
    /\ Cardinality(links'[x]) <= Larger(MaxCandidates, DegreeLimit)
    /\ x \notin live' => links'[x] = {}
    /\ ConfirmedKept(x)
    /\ links[x] = {} \/ \A f \in links'[x] : f.obs \/ Descends(x, f)

\* What a step does to the units is enough for the invariant and for both
\* action properties.
LEMMA Combine ==
  ASSUME IndInv, TypeOK', (Paired \subseteq issued)', \A x \in Ids : UnitStep(x)
  PROVE  IndInv' /\ \A x \in Ids : ConfirmedKept(x) /\ ProtectedKept(x)
<1>1. IndInv'
  BY DEF IndInv, UnitStep, DegreeBounded
<1>2. ASSUME NEW x \in Ids
      PROVE  ProtectedKept(x)
  <2> SUFFICES ASSUME NEW e \in links[x], NEW f \in links'[x],
                      IsProtected(e), SameEdge(e, f), f.lvl < e.lvl
               PROVE  x \in rejected \/ e.to \in rejected
    BY DEF ProtectedKept
  <2>1. GoodLinks(links[x], issued, summaries) /\ GoodLinks(links'[x], issued', summaries')
    BY <1>2 DEF IndInv, UnitStep
  <2>2. ~ f.obs
    BY DEF IsProtected, SameEdge
  <2>3. PICK d \in links[x] :
           /\ SameEdge(d, f)
           /\ IsProtected(d) => f.lvl >= d.lvl \/ x \in rejected \/ d.to \in rejected
    BY <1>2, <2>2 DEF UnitStep, Descends
  <2>4. d = e
    BY <2>1, <2>2, <2>3 DEF SameEdge, GoodLinks
  <2>5. e.lvl \in Int /\ f.lvl \in Int
    BY <2>1, Params DEF GoodLinks, Link, Levels
  <2> QED BY <2>3, <2>4, <2>5
<1>3. \A x \in Ids : ConfirmedKept(x)
  BY DEF UnitStep
<1> QED BY <1>1, <1>2, <1>3

\* A unit whose links a step leaves alone.
LEMMA Still ==
  ASSUME IndInv, NEW x \in Ids, links'[x] = links[x], issued \subseteq issued',
         summaries \subseteq summaries', live \subseteq live'
  PROVE  UnitStep(x)
<1>1. GoodLinks(links'[x], issued', summaries')
  BY GrowGood DEF IndInv
<1>2. Cardinality(links'[x]) <= Larger(MaxCandidates, DegreeLimit)
  BY DEF IndInv, DegreeBounded
<1>3. x \notin live' => links'[x] = {}
  BY DEF IndInv
<1>4. ConfirmedKept(x)
  BY DEF ConfirmedKept, SameEdge
<1>5. links[x] \in SUBSET Link
  BY DEF IndInv, GoodLinks
<1>6. \A f \in links'[x] : Descends(x, f)
  BY <1>5, Params DEF Descends, SameEdge, Link, Levels
<1> QED BY <1>1, <1>2, <1>3, <1>4, <1>6 DEF UnitStep

\* A step that leaves links, ids, summaries and entries alone.
LEMMA QuietStep ==
  ASSUME IndInv, TypeOK', UNCHANGED <<links, live, issued, summaries, entries>>
  PROVE  IndInv' /\ \A x \in Ids : ConfirmedKept(x) /\ ProtectedKept(x)
<1>1. (Paired \subseteq issued)'
  BY DEF IndInv, Paired
<1>2. \A x \in Ids : UnitStep(x)
  BY Still
<1> QED BY <1>1, <1>2, Combine

\* Any two bounds have a larger one.
LEMMA Bounds ==
  /\ Larger(MaxCandidates, DegreeLimit) \in Nat
  /\ MaxCandidates <= Larger(MaxCandidates, DegreeLimit)
  /\ DegreeLimit <= Larger(MaxCandidates, DegreeLimit)
BY Params DEF Larger

\* write builds at most one edge per candidate, all of them new.
LEMMA WriteStep ==
  ASSUME IndInv, NEW x \in Ids, Write(x)
  PROVE  IndInv' /\ \A y \in Ids : ConfirmedKept(y) /\ ProtectedKept(y)
<1>1. PICK C \in SUBSET live, at \in 0..day :
        /\ Cardinality(C) <= MaxCandidates
        /\ \E ty \in [C -> Types], sc \in [C -> 2..MaxLevel] :
             links' = [links EXCEPT ![x] =
                 {Built(y, ty[y], sc[y], at) : y \in {z \in C : ~ Blocked(z, ty[z])}}]
  BY Zenon DEF Write
<1>2. PICK ty \in [C -> Types], sc \in [C -> 2..MaxLevel] :
             links' = [links EXCEPT ![x] =
                 {Built(y, ty[y], sc[y], at) : y \in {z \in C : ~ Blocked(z, ty[z])}}]
  BY <1>1
<1>3. /\ calls < MaxCalls /\ calls' = calls + 1 /\ x \notin issued
      /\ live' = live \cup {x} /\ issued' = issued \cup {x}
      /\ UNCHANGED <<into, summaries, entries, rejected, day>>
  BY DEF Write, Call, Fresh
<1>4. PICK B : B = {z \in C : ~ Blocked(z, ty[z])}
  OBVIOUS
<1>5. PICK M : M = {Built(y, ty[y], sc[y], at) : y \in B}
  OBVIOUS
<1>6. links' = [links EXCEPT ![x] = M]
  BY <1>2, <1>4, <1>5
<1>7. links \in [Ids -> SUBSET Link] /\ C \subseteq issued /\ issued \subseteq Ids /\ day \in Days
  BY DEF IndInv, TypeOK
<1>8. ASSUME NEW y \in B
      PROVE  /\ Built(y, ty[y], sc[y], at) \in Link
             /\ Built(y, ty[y], sc[y], at).to = y /\ Built(y, ty[y], sc[y], at).orig = y
  <2>1. y \in C /\ ty[y] \in Types /\ sc[y] \in Levels /\ at \in Days
    BY <1>4, <1>7, Params DEF Levels, Days
  <2> QED BY <1>7, <2>1, Params DEF Built, Link
<1>9. \A m \in M : \E y \in B : m = Built(y, ty[y], sc[y], at) /\ m \in Link /\ m.to = y /\ m.orig = y
  BY <1>5, <1>8
<1>10. IsFiniteSet(M) /\ Cardinality(M) <= MaxCandidates
  <2>1. IsFiniteSet(C)
    BY <1>7, Params, FS_Subset
  <2>2. IsFiniteSet(B) /\ Cardinality(B) <= Cardinality(C)
    BY <1>4, <2>1, FS_Subset
  <2>3. [y \in B |-> Built(y, ty[y], sc[y], at)] \in Surjection(B, M)
    BY <1>5 DEF Surjection
  <2>4. /\ IsFiniteSet(M) /\ Cardinality(M) <= Cardinality(B)
        /\ Cardinality(M) \in Nat /\ Cardinality(B) \in Nat
    BY <2>2, <2>3, Image
  <2>5. Cardinality(C) \in Nat
    BY <2>1, FS_CardinalityType
  <2> QED BY <1>1, <2>2, <2>4, <2>5, Params
<1>11. M \in SUBSET Link
  BY <1>9
<1>12. GoodLinks(M, issued', summaries')
  BY <1>3, <1>4, <1>7, <1>9, <1>10, <1>11 DEF GoodLinks
<1>13. TypeOK'
  BY <1>3, <1>6, <1>7, <1>11, Params DEF IndInv, TypeOK
<1>14. (Paired \subseteq issued)'
  BY <1>3 DEF IndInv, Paired
<1>15. UnitStep(x)
  <2>1. links'[x] = M /\ links[x] = {}
    BY <1>3, <1>6, <1>7 DEF IndInv, TypeOK
  <2>2. Cardinality(M) <= Larger(MaxCandidates, DegreeLimit)
    <3>1. Cardinality(M) \in Nat
      BY <1>10, FS_CardinalityType
    <3> QED BY <1>10, <3>1, Params, Bounds
  <2> QED BY <1>3, <1>12, <2>1, <2>2 DEF UnitStep, ConfirmedKept
<1>16. ASSUME NEW y \in Ids, y # x
       PROVE  UnitStep(y)
  <2>1. links'[y] = links[y]
    BY <1>6, <1>7, <1>16
  <2> QED BY <1>3, <2>1, Still
<1> QED BY <1>13, <1>14, <1>15, <1>16, Combine

\* A map that keeps the identity of a unit's edges and weakens none.
LEMMA MapStep ==
  ASSUME IndInv, NEW x \in Ids, NEW F \in [links[x] -> Link],
         \A e \in links[x] : SameKey(F[e], e) /\ F[e].lvl >= e.lvl,
         links'[x] = {F[e] : e \in links[x]},
         UNCHANGED <<live, issued, summaries>>
  PROVE  UnitStep(x)
<1>1. GoodLinks(links[x], issued, summaries)
  BY DEF IndInv
<1>2. /\ GoodLinks(links'[x], issued, summaries)
      /\ Cardinality(links'[x]) \in Nat /\ Cardinality(links'[x]) <= Cardinality(links[x])
  BY <1>1, MapGood
<1>3. Cardinality(links[x]) \in Nat /\ Cardinality(links[x]) <= Larger(MaxCandidates, DegreeLimit)
  BY <1>1, FS_CardinalityType DEF GoodLinks, IndInv, DegreeBounded
<1>4. Cardinality(links'[x]) <= Larger(MaxCandidates, DegreeLimit)
  BY <1>2, <1>3, Bounds
<1>5. x \notin live' => links'[x] = {}
  BY DEF IndInv
<1>6. ConfirmedKept(x)
  BY DEF ConfirmedKept, SameEdge, SameKey
<1>7. \A f \in links'[x] : Descends(x, f)
  BY DEF Descends, SameEdge, SameKey
<1> QED BY <1>2, <1>4, <1>5, <1>6, <1>7 DEF UnitStep

\* Positive feedback reviews one edge at most.
LEMMA FeedbackPositiveStep ==
  ASSUME IndInv, NEW U \in SUBSET issued, FeedbackPositive(U)
  PROVE  IndInv' /\ \A y \in Ids : ConfirmedKept(y) /\ ProtectedKept(y)
<1>1. /\ calls < MaxCalls /\ calls' = calls + 1 /\ Cardinality(U) \in 1..MaxUsed
      /\ entries' = Recorded(U)
      /\ UNCHANGED <<live, issued, into, summaries, rejected, day>>
      /\ UNCHANGED links \/ \E p \in live \X U : links' = ReviewPath(p)
  BY DEF FeedbackPositive, Call
<1>2. /\ links \in [Ids -> SUBSET Link] /\ live \subseteq Ids /\ issued \subseteq Ids
      /\ day \in Days /\ entries \in [Ids -> [Days -> Nat]]
  BY DEF IndInv, TypeOK
<1>3. entries' \in [Ids -> [Days -> Nat]]
  <2>1. ASSUME NEW x \in Ids
        PROVE  [entries[x] EXCEPT ![day] = @ + Cardinality(U) - 1] \in [Days -> Nat]
    <3>1. entries[x] \in [Days -> Nat] /\ entries[x][day] \in Nat
      BY <1>2
    <3>2. entries[x][day] + Cardinality(U) - 1 \in Nat
      BY <1>1, <3>1, LinkGraphAssumption
    <3> QED BY <3>1, <3>2
  <2> QED BY <1>1, <1>2, <2>1 DEF Recorded
<1>4. (Paired \subseteq issued)'
  <2>1. ASSUME NEW x \in Ids, x \notin issued
        PROVE  entries'[x] = entries[x]
    BY <1>1, <2>1 DEF Recorded
  <2> QED BY <1>1, <2>1 DEF IndInv, Paired
<1>5. /\ links' \in [Ids -> SUBSET Link]
      /\ \A x \in Ids : UnitStep(x)
  <2>1. CASE UNCHANGED links
    BY <1>1, <1>2, <2>1, Still
  <2>2. CASE \E p \in live \X U : links' = ReviewPath(p)
    <3>1. PICK p \in live \X U : links' = ReviewPath(p)
      BY <2>2
    <3>2. PICK a : a = p[1]
      OBVIOUS
    <3>3. PICK F : F = [e \in links[a] |-> IF e.to = p[2] THEN Review(e) ELSE e]
      OBVIOUS
    <3>4. a \in Ids /\ links[a] \in SUBSET Link
      BY <1>2, <3>2
    <3>5. ASSUME NEW e \in links[a]
          PROVE  F[e] \in Link /\ SameKey(F[e], e) /\ F[e].lvl >= e.lvl
      <4>1. e \in Link
        BY <3>4
      <4>2. e.lvl >= e.lvl
        BY <4>1, Params DEF Link, Levels
      <4> QED BY <1>2, <3>3, <4>1, <4>2, ReviewLink DEF SameKey
    <3>6. F \in [links[a] -> Link]
      BY <3>3, <3>5
    <3>7. links' = [links EXCEPT ![a] = {F[e] : e \in links[a]}]
      BY <3>1, <3>2, <3>3 DEF ReviewPath
    <3>8. {F[e] : e \in links[a]} \in SUBSET Link
      BY <3>6
    <3>9. links' \in [Ids -> SUBSET Link]
      BY <1>2, <3>7, <3>8
    <3>10. UnitStep(a)
      BY <1>1, <1>2, <3>4, <3>5, <3>6, <3>7, MapStep
    <3>11. ASSUME NEW x \in Ids, x # a
           PROVE  UnitStep(x)
      <4>1. links'[x] = links[x]
        BY <1>2, <3>7, <3>11
      <4> QED BY <1>1, <4>1, Still
    <3> QED BY <3>9, <3>10, <3>11
  <2> QED BY <1>1, <2>1, <2>2
<1>6. TypeOK'
  BY <1>1, <1>3, <1>5, Params DEF IndInv, TypeOK
<1> QED BY <1>4, <1>5, <1>6, Combine

\* A rejection only records whom it names.
LEMMA FeedbackRejectedStep ==
  ASSUME IndInv, NEW U \in SUBSET issued, FeedbackRejected(U)
  PROVE  IndInv' /\ \A y \in Ids : ConfirmedKept(y) /\ ProtectedKept(y)
<1>1. /\ calls < MaxCalls /\ calls' = calls + 1 /\ rejected' = rejected \cup U
      /\ UNCHANGED <<links, live, issued, into, summaries, entries, day>>
  BY DEF FeedbackRejected, Call
<1>2. TypeOK'
  BY <1>1, Params DEF IndInv, TypeOK
<1> QED BY <1>1, <1>2, QuietStep

\* Time passes: no unit changes before the next cycle.
LEMMA TickStep ==
  ASSUME IndInv, Tick
  PROVE  IndInv' /\ \A y \in Ids : ConfirmedKept(y) /\ ProtectedKept(y)
<1>1. /\ day < MaxDay /\ day' = day + 1
      /\ UNCHANGED <<links, live, issued, into, summaries, entries, rejected, calls>>
  BY DEF Tick
<1>2. TypeOK'
  BY <1>1, Params DEF IndInv, TypeOK, Days
<1> QED BY <1>1, <1>2, QuietStep

\* Deletion cuts: the victim loses everything, the others their edges at it.
LEMMA DeleteStep ==
  ASSUME IndInv, NEW v \in Ids, Delete(v)
  PROVE  IndInv' /\ \A y \in Ids : ConfirmedKept(y) /\ ProtectedKept(y)
<1>1. /\ calls < MaxCalls /\ calls' = calls + 1 /\ v \in live /\ live' = live \ {v}
      /\ links' = [x \in Ids |-> IF x = v THEN {} ELSE {e \in links[x] : e.to # v}]
      /\ into' = [into EXCEPT ![v] = None]
      /\ UNCHANGED <<issued, summaries, entries, rejected, day>>
  BY DEF Delete, Call
<1>2. links \in [Ids -> SUBSET Link]
  BY DEF IndInv, TypeOK
<1>3. ASSUME NEW x \in Ids
      PROVE  links'[x] \in SUBSET links[x]
  BY <1>1, <1>3
<1>4. links' \in [Ids -> SUBSET Link]
  <2>1. \A x \in Ids : links'[x] \in SUBSET Link
    BY <1>2, <1>3
  <2> QED BY <1>1, <2>1
<1>5. TypeOK'
  BY <1>1, <1>4, Params DEF IndInv, TypeOK
<1>6. (Paired \subseteq issued)'
  BY <1>1 DEF IndInv, Paired
<1>7. ASSUME NEW x \in Ids
      PROVE  UnitStep(x)
  <2>1. GoodLinks(links[x], issued, summaries)
    BY DEF IndInv
  <2>2. /\ GoodLinks(links'[x], issued, summaries)
        /\ Cardinality(links'[x]) \in Nat /\ Cardinality(links'[x]) <= Cardinality(links[x])
    BY <1>3, <2>1, CutGood
  <2>3. Cardinality(links[x]) \in Nat /\ Cardinality(links[x]) <= Larger(MaxCandidates, DegreeLimit)
    BY <2>1, FS_CardinalityType DEF GoodLinks, IndInv, DegreeBounded
  <2>4. Cardinality(links'[x]) <= Larger(MaxCandidates, DegreeLimit)
    BY <2>2, <2>3, Bounds
  <2>5. x \notin live' => links'[x] = {}
    BY <1>1 DEF IndInv
  <2>6. ConfirmedKept(x)
    BY <1>1 DEF ConfirmedKept, SameEdge
  <2>7. \A f \in links'[x] : Descends(x, f)
    <3>1. \A f \in links'[x] : f \in links[x] /\ f.lvl >= f.lvl
      BY <1>2, <1>3, Params DEF Link, Levels
    <3> QED BY <3>1 DEF Descends, SameEdge
  <2> QED BY <1>1, <2>2, <2>4, <2>5, <2>6, <2>7 DEF UnitStep
<1> QED BY <1>5, <1>6, <1>7, Combine

\* A cycle, seen from one unit.
LEMMA CycledUnit ==
  ASSUME IndInv, NEW C, NEW s, Cycled(C, s), NEW x \in live
  PROVE  \E K \in Compactions(RunCycle(x, CoPairs)) : links'[x] = Redirect(K, C, s)
<1>1. PICK P \in {CoPairs} : \E after \in {[y \in live |-> RunCycle(y, P)]} :
        \E kept \in [live -> UNION {Compactions(after[y]) : y \in live}] :
           /\ \A y \in live : kept[y] \in Compactions(after[y])
           /\ links' = [y \in Ids |-> IF y \in live THEN Redirect(kept[y], C, s)
                                      ELSE links[y]]
  BY Zenon DEF Cycled
<1>2. PICK after \in {[y \in live |-> RunCycle(y, P)]} :
        \E kept \in [live -> UNION {Compactions(after[y]) : y \in live}] :
           /\ \A y \in live : kept[y] \in Compactions(after[y])
           /\ links' = [y \in Ids |-> IF y \in live THEN Redirect(kept[y], C, s)
                                      ELSE links[y]]
  BY <1>1
<1>3. PICK kept \in [live -> UNION {Compactions(after[y]) : y \in live}] :
           /\ \A y \in live : kept[y] \in Compactions(after[y])
           /\ links' = [y \in Ids |-> IF y \in live THEN Redirect(kept[y], C, s)
                                      ELSE links[y]]
  BY <1>2
<1>4. P = CoPairs /\ after[x] = RunCycle(x, P) /\ x \in Ids
  BY <1>2 DEF IndInv, TypeOK
<1>5. kept[x] \in Compactions(RunCycle(x, CoPairs)) /\ links'[x] = Redirect(kept[x], C, s)
  BY <1>3, <1>4
<1> QED BY <1>5

\* A cycle leaves the rest of the table alone.
LEMMA CycledRest ==
  ASSUME IndInv, NEW C, NEW s, Cycled(C, s)
  PROVE  /\ DOMAIN links' = Ids /\ links' = [x \in Ids |-> links'[x]]
         /\ \A x \in Ids \ live : links'[x] = links[x]
BY Zenon DEF Cycled

\* A unit after the redirected cut of a cycle, whatever the redirection is:
\* confirmed edges and their strength.
LEMMA CycledEdges ==
  ASSUME IndInv, NEW C, NEW s, NEW x \in Ids,
         NEW K \in Compactions(RunCycle(x, CoPairs)), links'[x] = Redirect(K, C, s),
         Cardinality(links'[x]) = Cardinality(K)
  PROVE  /\ ConfirmedKept(x)
         /\ \A f \in links'[x] : f.obs \/ Descends(x, f)
<1>1. PICK R : R = RunCycle(x, CoPairs)
  OBVIOUS
<1>2. /\ GoodLinks(R, issued, summaries)
      /\ \A e \in links[x] : e.obs \/ \E g \in R : SameKey(g, e)
      /\ \A g \in R : ~ g.obs =>
            \E e \in links[x] :
               /\ SameKey(g, e)
               /\ IsProtected(e) => g.lvl >= e.lvl \/ x \in rejected \/ e.to \in rejected
  BY <1>1, RunCycleFacts
<1>3. K \in SUBSET R /\ (K = R \/ Cardinality(K) = DegreeLimit)
  BY <1>1, <1>2, CompactionFacts
<1>4. K \in SUBSET Link
  BY <1>2, <1>3 DEF GoodLinks
<1>5. /\ \A e \in K : \E f \in links'[x] : SameEdge(e, f) /\ f.lvl = e.lvl
      /\ \A f \in links'[x] : \E e \in K : SameEdge(e, f) /\ f.lvl = e.lvl
  BY <1>4, RedirectEdges
<1>6. ConfirmedKept(x)
  <2> SUFFICES ASSUME NEW e \in links[x], ~ e.obs, Cardinality(links'[x]) # DegreeLimit
               PROVE  \E f \in links'[x] : SameEdge(e, f)
    BY DEF ConfirmedKept
  <2>1. PICK g \in R : SameKey(g, e)
    BY <1>2
  <2>2. PICK f \in links'[x] : SameEdge(g, f)
    BY <1>3, <1>5
  <2> QED BY <2>1, <2>2 DEF SameEdge, SameKey
<1>7. ASSUME NEW f \in links'[x], ~ f.obs
      PROVE  Descends(x, f)
  <2>1. PICK g \in K : SameEdge(g, f) /\ f.lvl = g.lvl
    BY <1>5
  <2>2. PICK e \in links[x] :
           /\ SameKey(g, e)
           /\ IsProtected(e) => g.lvl >= e.lvl \/ x \in rejected \/ e.to \in rejected
    BY <1>2, <1>3, <1>7, <2>1 DEF SameEdge
  <2>3. SameEdge(e, f)
    BY <2>1, <2>2 DEF SameEdge, SameKey
  <2> QED BY <2>1, <2>2, <2>3 DEF Descends
<1> QED BY <1>6, <1>7

\* A cycle that compresses nothing.
LEMMA ConsolidateStep ==
  ASSUME IndInv, Consolidate
  PROVE  IndInv' /\ \A y \in Ids : ConfirmedKept(y) /\ ProtectedKept(y)
<1>1. /\ calls < MaxCalls /\ calls' = calls + 1 /\ Cycled({}, None)
      /\ UNCHANGED <<live, issued, into, summaries, entries, rejected, day>>
  BY DEF Consolidate, Call
<1>2. ASSUME NEW x \in live
      PROVE  UnitStep(x)
  <2>1. x \in Ids
    BY DEF IndInv, TypeOK
  <2>2. PICK K \in Compactions(RunCycle(x, CoPairs)) : links'[x] = Redirect(K, {}, None)
    BY <1>1, CycledUnit
  <2>3. links'[x] = K
    BY <2>2, RedirectNothing
  <2>4. GoodLinks(RunCycle(x, CoPairs), issued, summaries)
    BY <2>1, RunCycleFacts
  <2>5. GoodLinks(K, issued, summaries) /\ Cardinality(K) \in Nat /\ Cardinality(K) <= DegreeLimit
    BY <2>4, CompactionFacts
  <2>6. ConfirmedKept(x) /\ \A f \in links'[x] : f.obs \/ Descends(x, f)
    BY <2>1, <2>2, <2>3, CycledEdges
  <2>7. Cardinality(links'[x]) <= Larger(MaxCandidates, DegreeLimit)
    BY <2>3, <2>5, Bounds, Params
  <2> QED BY <1>1, <2>3, <2>5, <2>6, <2>7 DEF UnitStep
<1>3. ASSUME NEW x \in Ids \ live
      PROVE  UnitStep(x)
  BY <1>1, CycledRest, Still
<1>4. \A x \in Ids : UnitStep(x)
  BY <1>2, <1>3
<1>5. links' \in [Ids -> SUBSET Link]
  <2>1. \A x \in Ids : links'[x] \in SUBSET Link
    BY <1>4 DEF UnitStep, GoodLinks
  <2> QED BY <1>1, <2>1, CycledRest
<1>6. TypeOK'
  BY <1>1, <1>5, Params DEF IndInv, TypeOK
<1>7. (Paired \subseteq issued)'
  BY <1>1 DEF IndInv, Paired
<1> QED BY <1>4, <1>6, <1>7, Combine

\* A cycle that compresses cluster C into the new summary s.
LEMMA CompressStep ==
  ASSUME IndInv, NEW C \in SUBSET Ids, NEW s \in Ids, ConsolidateCompress(C, s)
  PROVE  IndInv' /\ \A y \in Ids : ConfirmedKept(y) /\ ProtectedKept(y)
<1>1. /\ calls < MaxCalls /\ calls' = calls + 1 /\ Cycled(C, s)
      /\ C \subseteq Candidates /\ s \notin issued
      /\ live' = live \cup {s} /\ issued' = issued \cup {s}
      /\ summaries' = summaries \cup {s}
      /\ into' = [x \in Ids |-> IF x \in C THEN s ELSE into[x]]
      /\ UNCHANGED <<entries, rejected, day>>
  BY DEF ConsolidateCompress, Call, Fresh
<1>2. C \cap summaries = {}
  BY <1>1 DEF Candidates
<1>3. ASSUME NEW x \in live
      PROVE  UnitStep(x)
  <2>1. x \in Ids
    BY DEF IndInv, TypeOK
  <2>2. PICK K \in Compactions(RunCycle(x, CoPairs)) : links'[x] = Redirect(K, C, s)
    BY <1>1, CycledUnit
  <2>3. GoodLinks(RunCycle(x, CoPairs), issued, summaries)
    BY <2>1, RunCycleFacts
  <2>4. GoodLinks(K, issued, summaries) /\ Cardinality(K) \in Nat /\ Cardinality(K) <= DegreeLimit
    BY <2>3, CompactionFacts
  <2>5. GoodLinks(links'[x], issued', summaries') /\ Cardinality(links'[x]) = Cardinality(K)
    BY <1>1, <1>2, <2>2, <2>4, RedirectFacts
  <2>6. ConfirmedKept(x) /\ \A f \in links'[x] : f.obs \/ Descends(x, f)
    BY <2>1, <2>2, <2>5, CycledEdges
  <2>7. Cardinality(links'[x]) <= Larger(MaxCandidates, DegreeLimit)
    BY <2>4, <2>5, Bounds, Params
  <2> QED BY <1>1, <2>5, <2>6, <2>7 DEF UnitStep
<1>4. ASSUME NEW x \in Ids \ live
      PROVE  UnitStep(x)
  BY <1>1, CycledRest, Still
<1>5. \A x \in Ids : UnitStep(x)
  BY <1>3, <1>4
<1>6. links' \in [Ids -> SUBSET Link]
  <2>1. \A x \in Ids : links'[x] \in SUBSET Link
    BY <1>5 DEF UnitStep, GoodLinks
  <2> QED BY <1>1, <2>1, CycledRest
<1>7. TypeOK'
  BY <1>1, <1>6, Params DEF IndInv, TypeOK
<1>8. (Paired \subseteq issued)'
  BY <1>1 DEF IndInv, Paired
<1> QED BY <1>5, <1>7, <1>8, Combine

-----------------------------------------------------------------------------
(***************************************************************************)
(* The theorems.                                                           *)
(***************************************************************************)
\* An empty store satisfies the invariant.
LEMMA InitInv ==
  ASSUME Init
  PROVE  IndInv
<1>1. /\ links = [x \in Ids |-> {}] /\ live = {} /\ issued = {}
      /\ into = [x \in Ids |-> None] /\ summaries = {}
      /\ entries = [x \in Ids |-> [d \in Days |-> 0]] /\ rejected = {}
      /\ day = 0 /\ calls = 0
  BY DEF Init
<1>2. TypeOK
  BY <1>1, Params DEF TypeOK, Days
<1>3. \A x \in Ids : links[x] = {}
  BY <1>1
<1>4. DegreeBounded
  BY <1>3, Bounds, FS_EmptySet DEF DegreeBounded
<1>5. Paired \subseteq issued
  BY <1>1 DEF Paired
<1>6. \A x \in Ids : GoodLinks(links[x], issued, summaries)
  BY <1>3, FS_EmptySet DEF GoodLinks
<1> QED BY <1>2, <1>3, <1>4, <1>5, <1>6 DEF IndInv

\* Every step keeps the invariant, the confirmed edges and the protected ones.
LEMMA NextStep ==
  ASSUME IndInv, [Next]_vars
  PROVE  IndInv' /\ \A y \in Ids : ConfirmedKept(y) /\ ProtectedKept(y)
<1>1. CASE \E x \in Ids : Write(x)
  BY <1>1, WriteStep
<1>2. CASE \E U \in SUBSET issued : FeedbackPositive(U)
  BY <1>2, FeedbackPositiveStep
<1>3. CASE \E U \in SUBSET issued : FeedbackRejected(U)
  BY <1>3, FeedbackRejectedStep
<1>4. CASE Consolidate
  BY <1>4, ConsolidateStep
<1>5. CASE \E C \in SUBSET Ids, s \in Ids : ConsolidateCompress(C, s)
  BY <1>5, CompressStep
<1>6. CASE \E v \in Ids : Delete(v)
  BY <1>6, DeleteStep
<1>7. CASE Tick
  BY <1>7, TickStep
<1>8. CASE UNCHANGED vars
  <2>1. UNCHANGED <<links, live, issued, into, summaries, entries, rejected, day, calls>>
    BY <1>8 DEF vars
  <2>2. TypeOK'
    BY <2>1 DEF IndInv, TypeOK
  <2> QED BY <2>1, <2>2, QuietStep
<1> QED BY <1>1, <1>2, <1>3, <1>4, <1>5, <1>6, <1>7, <1>8 DEF Next

\* The inductive invariant holds in every reachable state of the link tables.
THEOREM LinkInvariance == Spec => []IndInv
<1>1. Init => IndInv
  BY InitInv
<1>2. IndInv /\ [Next]_vars => IndInv'
  BY NextStep
<1> QED BY <1>1, <1>2, PTL DEF Spec

\* Strengths stay between the floor and 1.0 and every table keeps its type,
\* through write, feedback, consolidate and delete.
THEOREM LinkTypeCorrect == Spec => []TypeOK
<1>1. IndInv => TypeOK
  BY DEF IndInv
<1> QED BY <1>1, LinkInvariance, PTL

\* Only the redirection of a compression can give a unit two edges of one
\* target and type: build_edges and build_coactivation_links never do.
THEOREM DuplicatesOnlyByRedirection == Spec => []DuplicatesAreRedirected
<1>1. IndInv => DuplicatesAreRedirected
  BY DEF IndInv, GoodLinks, DuplicatesAreRedirected
<1> QED BY <1>1, LinkInvariance, PTL

\* No unit has more links than max_candidates and degree_limit allow.
THEOREM DegreesAreBounded == Spec => []DegreeBounded
<1>1. IndInv => DegreeBounded
  BY DEF IndInv
<1> QED BY <1>1, LinkInvariance, PTL

\* A confirmed edge goes only with one of its memories or past the degree
\* limit: weakening, decay and redirection keep it.
THEOREM ConfirmedEdgesSurvive == Spec => ConfirmedSurvive
<1>1. IndInv /\ [Next]_vars => [\A x \in Ids : ConfirmedKept(x)]_vars
  BY NextStep
<1> QED BY <1>1, LinkInvariance, PTL DEF Spec, ConfirmedSurvive

\* A protected edge is weakened by reject_weaken only, never by decay.
THEOREM ProtectedEdgesHold == Spec => ProtectedHeld
<1>1. IndInv /\ [Next]_vars => [\A x \in Ids : ProtectedKept(x)]_vars
  BY NextStep
<1> QED BY <1>1, LinkInvariance, PTL DEF Spec, ProtectedHeld
=============================================================================
