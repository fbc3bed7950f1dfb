--------------------------- MODULE RetrievalProofs ---------------------------
(***************************************************************************)
(* What holds of retrieve for every store, query and interleaving with the *)
(* other threads.  RetInv is the invariant.  Its parts follow the call:    *)
(* the store the other threads change (StoreInv), the types of what the    *)
(* call holds (RetTypes), the units and edges it has loaded (CopyInv,      *)
(* StaleInv), activation hop by hop (SpreadInv), the energy merged on the  *)
(* way (MergeInv) and the answer (ResultInv).                              *)
(*                                                                         *)
(* The model folds over sequences and sets as the code loops; the loops    *)
(* are taken apart with the lemmas on loops of ReadCallsProofs.  The last  *)
(* theorem puts the invariants of all reading calls together.              *)
(***************************************************************************)
EXTENDS ReadCallsProofs

(***************************************************************************)
(* The loops of a round.                                                   *)
(***************************************************************************)
\* The loop over the edges of a node, as the values after each pass.
EdgeClosed(A, n, s) == \A r \in A : \A i \in 1..n : Arrive(r, s[i]) \in A

\* f holds the round after each edge.
EdgePasses(f, A, base, n, s) ==
    /\ f \in [0..n -> A] /\ f[0] = base /\ FoldLeft(Arrive, base, s) = f[n]
    /\ \A k \in 1..n : f[k] = Arrive(f[k - 1], s[k])

\* The fold over the edges of a node (Send) is such a loop.
LEMMA ArriveSteps ==
    ASSUME NEW A, NEW base \in A, NEW n \in Nat, NEW s, DOMAIN s = 1..n,
           EdgeClosed(A, n, s)
    PROVE  \E f : EdgePasses(f, A, base, n, s)
  <1> DEFINE Body(g, T) == IF T = {} THEN base ELSE Arrive(g[T \ {Max(T)}], s[Max(T)])
             I == CHOOSE g : g = [T \in SUBSET (1..n) |-> Body(g, T)]
  <1>1. FoldLeft(Arrive, base, s) = I[1..n]
    BY Zenon DEF FoldLeft, MapThenFoldSet
  <1>2. PICK step : step = [i \in 1..n |-> [r \in A |-> Arrive(r, s[i])]]
    OBVIOUS
  <1>3. step \in [1..n -> [A -> A]] /\ \A i \in 1..n : \A r \in A : step[i][r] = Arrive(r, s[i])
    BY <1>2 DEF EdgeClosed
  <1>4. PICK g \in [SUBSET (1..n) -> A] : \A T \in SUBSET (1..n) :
          g[T] = IF T = {} THEN base ELSE step[Max(T)][g[T \ {Max(T)}]]
    <2>1. PICK g : Unrolled(g, n, A, base, step)
      BY <1>3, LoopExists
    <2> QED BY <2>1 DEF Unrolled
  <1>5. \A T \in SUBSET (1..n) : T # {} => Max(T) \in 1..n
    BY IntervalStep
  <1>6. g = [T \in SUBSET (1..n) |-> Body(g, T)]
    <2>1. ASSUME NEW T \in SUBSET (1..n) PROVE g[T] = Body(g, T)
      <3>1. T \ {Max(T)} \in SUBSET (1..n) /\ g[T \ {Max(T)}] \in A
        OBVIOUS
      <3> QED BY <1>3, <1>4, <1>5, <3>1
    <2> HIDE DEF Body
    <2> QED BY <2>1
  <1>7. I = [T \in SUBSET (1..n) |-> Body(I, T)]
    <2> HIDE DEF Body
    <2> QED BY <1>6
  <1>8. PICK h : h = I
    OBVIOUS
  <1>9. \A T \in SUBSET (1..n) : h[T] = Body(h, T)
    <2> HIDE DEF Body, I
    <2> QED BY <1>7, <1>8
  <1> HIDE DEF I
  <1>10. Loop(h, n, A, base, step)
    BY <1>3, <1>5, <1>9 DEF Loop
  <1>11. PICK f : Passes(f, n, A, base, step) /\ f[n] = h[1..n]
    BY <1>3, <1>10, LoopPasses
  <1>12. \A k \in 1..n : f[k - 1] \in A
    BY <1>11 DEF Passes
  <1>13. EdgePasses(f, A, base, n, s)
    BY <1>1, <1>3, <1>8, <1>11, <1>12 DEF Passes, EdgePasses
  <1> QED BY <1>13

\* The loop over the frontier, as the values after each pass.
NodeClosed(A, n, s) == \A r \in A : \A i \in 1..n : Send(r, s[i]) \in A

\* f holds the round after each node.
NodePasses(f, A, base, n, s) ==
    /\ f \in [0..n -> A] /\ f[0] = base /\ FoldLeft(Send, base, s) = f[n]
    /\ \A k \in 1..n : f[k] = Send(f[k - 1], s[k])

\* The fold over the frontier (Round) is such a loop.
LEMMA SendSteps ==
    ASSUME NEW A, NEW base \in A, NEW n \in Nat, NEW s, DOMAIN s = 1..n,
           NodeClosed(A, n, s)
    PROVE  \E f : NodePasses(f, A, base, n, s)
  <1> DEFINE Body(g, T) == IF T = {} THEN base ELSE Send(g[T \ {Max(T)}], s[Max(T)])
             I == CHOOSE g : g = [T \in SUBSET (1..n) |-> Body(g, T)]
  <1>1. FoldLeft(Send, base, s) = I[1..n]
    BY Zenon DEF FoldLeft, MapThenFoldSet
  <1>2. PICK step : step = [i \in 1..n |-> [r \in A |-> Send(r, s[i])]]
    OBVIOUS
  <1>3. step \in [1..n -> [A -> A]] /\ \A i \in 1..n : \A r \in A : step[i][r] = Send(r, s[i])
    BY <1>2 DEF NodeClosed
  <1>4. PICK g \in [SUBSET (1..n) -> A] : \A T \in SUBSET (1..n) :
          g[T] = IF T = {} THEN base ELSE step[Max(T)][g[T \ {Max(T)}]]
    <2>1. PICK g : Unrolled(g, n, A, base, step)
      BY <1>3, LoopExists
    <2> QED BY <2>1 DEF Unrolled
  <1>5. \A T \in SUBSET (1..n) : T # {} => Max(T) \in 1..n
    BY IntervalStep
  <1>6. g = [T \in SUBSET (1..n) |-> Body(g, T)]
    <2>1. ASSUME NEW T \in SUBSET (1..n) PROVE g[T] = Body(g, T)
      <3>1. T \ {Max(T)} \in SUBSET (1..n) /\ g[T \ {Max(T)}] \in A
        OBVIOUS
      <3> QED BY <1>3, <1>4, <1>5, <3>1
    <2> HIDE DEF Body
    <2> QED BY <2>1
  <1>7. I = [T \in SUBSET (1..n) |-> Body(I, T)]
    <2> HIDE DEF Body
    <2> QED BY <1>6
  <1>8. PICK h : h = I
    OBVIOUS
  <1>9. \A T \in SUBSET (1..n) : h[T] = Body(h, T)
    <2> HIDE DEF Body, I
    <2> QED BY <1>7, <1>8
  <1> HIDE DEF I
  <1>10. Loop(h, n, A, base, step)
    BY <1>3, <1>5, <1>9 DEF Loop
  <1>11. PICK f : Passes(f, n, A, base, step) /\ f[n] = h[1..n]
    BY <1>3, <1>10, LoopPasses
  <1>12. \A k \in 1..n : f[k - 1] \in A
    BY <1>11 DEF Passes
  <1>13. NodePasses(f, A, base, n, s)
    BY <1>1, <1>3, <1>8, <1>11, <1>12 DEF Passes, NodePasses
  <1> QED BY <1>13

(***************************************************************************)
(* Numbers and sequences.                                                  *)
(***************************************************************************)
\* The least element of a set of naturals.
LEMMA MinOf ==
    ASSUME NEW S, S \subseteq Nat, S # {}
    PROVE  Min(S) \in S /\ \A y \in S : Min(S) <= y
  <1>1. \E x \in S : \A y \in S : x <= y
    BY LeastNatural
  <1> QED BY <1>1, Zenon DEF Min

\* A quotient of naturals.
LEMMA DivNat ==
    ASSUME NEW a \in Nat, NEW b \in Nat, b > 0
    PROVE  a \div b \in Nat
  OBVIOUS

\* A product of thousandths of naturals.
LEMMA TimesNat ==
    ASSUME NEW a \in Nat, NEW b \in Nat
    PROVE  Times(a, b) \in Nat
  <1>1. a * b \in Nat
    OBVIOUS
  <1>2. PICK p \in Nat : p = a * b
    BY <1>1
  <1> QED BY <1>2, SMT DEF Times, Scale

\* Hop decays are naturals.
LEMMA DecayType == Decay \in [Nat -> Nat]
  <1> DEFINE Body(p) == [n \in Nat |-> IF n = 0 THEN Scale ELSE Times(p[n - 1], DecayFactor)]
             D == CHOOSE p : p = Body(p)
  <1>1. Decay = D
    BY Zenon DEF Decay
  <1>2. \A v \in Nat : Times(v, DecayFactor) \in Nat
    BY TimesNat, SMT DEF DecayFactor
  <1>3. Scale \in Nat
    BY SMT DEF Scale
  <1>4. PICK step : step = [n \in Nat |-> [v \in Nat |-> Times(v, DecayFactor)]]
    OBVIOUS
  <1>5. step \in [Nat -> [Nat -> Nat]]
    BY <1>2, <1>4
  <1>6. PICK f \in [Nat -> Nat] : f[0] = Scale /\ \A n \in Nat : f[n + 1] = step[n][f[n]]
    <2>1. PICK f : Iterates(f, Nat, Scale, step)
      BY <1>3, <1>5, NatRecursion
    <2> QED BY <2>1 DEF Iterates
  <1>7. ASSUME NEW n \in Nat
        PROVE  f[n] = IF n = 0 THEN Scale ELSE Times(f[n - 1], DecayFactor)
    <2>1. CASE n = 0
      BY <1>6, <2>1
    <2>2. CASE n # 0
      <3>1. n - 1 \in Nat /\ (n - 1) + 1 = n
        BY <2>2
      <3>2. f[n] = step[n - 1][f[n - 1]]
        BY <1>6, <3>1
      <3> QED BY <1>4, <2>2, <3>1, <3>2
    <2> QED BY <2>1, <2>2
  <1>8. f = Body(f)
    BY <1>7
  <1>9. D = Body(D)
    <2> HIDE DEF Body
    <2> QED BY <1>8, Zenon
  <1>10. PICK d : d = D
    OBVIOUS
  <1> HIDE DEF D
  <1>11. d = Body(d)
    BY <1>9, <1>10
  <1> DEFINE M == {n \in Nat : d[n] \in Nat}
  <1>12. 0 \in M
    BY <1>3, <1>11
  <1>13. ASSUME NEW n \in Nat, n \in M PROVE n + 1 \in M
    <2>1. n + 1 \in Nat /\ n + 1 # 0 /\ (n + 1) - 1 = n
      OBVIOUS
    <2>2. d[n + 1] = Times(d[n], DecayFactor)
      BY <1>11, <2>1
    <2> QED BY <1>2, <1>13, <2>1, <2>2
  <1> HIDE DEF M
  <1>14. Nat \subseteq M
    BY <1>12, <1>13, NatInduct
  <1> QED BY <1>1, <1>10, <1>11, <1>14 DEF M

\* Powers of two are positive.
LEMMA PowerType == PowerOfTwo \in [Nat -> Nat \ {0}]
  <1> DEFINE Body(p) == [n \in Nat |-> IF n = 0 THEN 1 ELSE 2 * p[n - 1]]
             D == CHOOSE p : p = Body(p)
  <1>1. PowerOfTwo = D
    BY Zenon DEF PowerOfTwo
  <1>2. \A v \in Nat \ {0} : 2 * v \in Nat \ {0}
    OBVIOUS
  <1>3. PICK A, one : A = Nat \ {0} /\ one = 1
    OBVIOUS
  <1>4. PICK step : step = [n \in Nat |-> [v \in A |-> 2 * v]]
    OBVIOUS
  <1>5. step \in [Nat -> [A -> A]] /\ one \in A
    BY <1>2, <1>3, <1>4
  <1>6. PICK f \in [Nat -> A] : f[0] = one /\ \A n \in Nat : f[n + 1] = step[n][f[n]]
    <2>1. PICK f : Iterates(f, A, one, step)
      BY <1>5, NatRecursion
    <2> QED BY <2>1 DEF Iterates
  <1>7. ASSUME NEW n \in Nat
        PROVE  f[n] = IF n = 0 THEN 1 ELSE 2 * f[n - 1]
    <2>1. CASE n = 0
      BY <1>3, <1>6, <2>1
    <2>2. CASE n # 0
      <3>1. n - 1 \in Nat /\ (n - 1) + 1 = n
        BY <2>2
      <3>2. f[n] = step[n - 1][f[n - 1]]
        BY <1>6, <3>1
      <3> QED BY <1>4, <2>2, <3>1, <3>2
    <2> QED BY <2>1, <2>2
  <1>8. f = Body(f)
    BY <1>7
  <1>9. D = Body(D)
    <2> HIDE DEF Body
    <2> QED BY <1>8, Zenon
  <1>10. PICK d : d = D
    OBVIOUS
  <1> HIDE DEF D
  <1>11. d = Body(d)
    BY <1>9, <1>10
  <1> DEFINE M == {n \in Nat : d[n] \in Nat \ {0}}
  <1>12. 0 \in M
    BY <1>11
  <1>13. ASSUME NEW n \in Nat, n \in M PROVE n + 1 \in M
    <2>1. n + 1 \in Nat /\ n + 1 # 0 /\ (n + 1) - 1 = n
      OBVIOUS
    <2>2. d[n + 1] = 2 * d[n]
      BY <1>11, <2>1
    <2> QED BY <1>2, <1>13, <2>1, <2>2
  <1> HIDE DEF M
  <1>14. Nat \subseteq M
    BY <1>12, <1>13, NatInduct
  <1> QED BY <1>1, <1>10, <1>11, <1>14 DEF M

\* f lists S, each element once.
Listing(f, S) ==
    /\ f \in Seq(S) /\ Len(f) = Cardinality(S) /\ Len(f) \in Nat
    /\ \A k \in 1..Len(f) : f[k] \in S
    /\ \A i, j \in 1..Len(f) : i # j => f[i] # f[j]
    /\ \A x \in S : \E k \in 1..Len(f) : f[k] = x

\* Descending lists every element once.
LEMMA DescendingLists ==
    ASSUME NEW S, IsFiniteSet(S), S \subseteq Int, NEW w, \A x \in S : w[x] \in Int
    PROVE  Listing(Descending(S, w), S)
  <1> DEFINE E(k) == CHOOSE x \in S : Cardinality({y \in S :
                        \/ w[y] > w[x]
                        \/ w[y] = w[x] /\ y < x}) = k - 1
  <1>1. Descending(S, w) = [k \in 1..Cardinality(S) |-> E(k)]
    BY Zenon DEF Descending, Ordered
  <1>2. PICK f : f = Descending(S, w)
    OBVIOUS
  <1>3. DOMAIN f = 1..Cardinality(S) /\ \A k \in 1..Cardinality(S) : f[k] = E(k)
    <2> HIDE DEF E
    <2> QED BY <1>1, <1>2
  <1>4. f = [k \in DOMAIN f |-> f[k]]
    <2> HIDE DEF E
    <2> QED BY <1>1, <1>2
  <1>5. PICK a, b, c : a = [x \in S |-> w[x]] /\ b = [x \in S |-> 0] /\ c = [x \in S |-> x]
    OBVIOUS
  <1>6. Keyed(S, a, b, c)
    BY <1>5 DEF Keyed
  <1>7. \A x, y \in S : LexBefore(a, b, c, y, x) <=> (w[y] > w[x] \/ (w[y] = w[x] /\ y < x))
    BY <1>5 DEF LexBefore
  <1>8. \A x \in S : {y \in S : LexBefore(a, b, c, y, x)}
                       = {y \in S : \/ w[y] > w[x]
                                    \/ w[y] = w[x] /\ y < x}
    BY <1>7
  <1>9. ASSUME NEW k \in 1..Cardinality(S),
               \E x \in S : Cardinality({y \in S : LexBefore(a, b, c, y, x)}) = k - 1
        PROVE  f[k] \in S /\ Cardinality({y \in S : LexBefore(a, b, c, y, f[k])}) = k - 1
    <2>1. \E x \in S : Cardinality({y \in S : \/ w[y] > w[x]
                                              \/ w[y] = w[x] /\ y < x}) = k - 1
      BY <1>8, <1>9
    <2>2. E(k) \in S /\ Cardinality({y \in S : \/ w[y] > w[E(k)]
                                               \/ w[y] = w[E(k)] /\ y < E(k)}) = k - 1
      BY <2>1, Zenon
    <2> HIDE DEF E
    <2> QED BY <1>3, <1>8, <2>2
  <1> HIDE DEF E
  <1>10. InLexOrder(f, S, a, b, c)
    BY <1>3, <1>4, <1>9 DEF InLexOrder
  <1>11. Lists(f, S, a, b, c)
    BY <1>6, <1>10, LexSorts
  <1>12. ASSUME NEW i \in 1..Len(f), NEW j \in 1..Len(f), i # j PROVE f[i] # f[j]
    <2>1. i < j \/ j < i
      BY <1>12
    <2> QED BY <1>11, <2>1 DEF Lists
  <1> QED BY <1>2, <1>11, <1>12 DEF Lists, Listing

\* Whatever the weights, the result is a sequence.
LEMMA DescendingIsSeq ==
    ASSUME NEW S, IsFiniteSet(S), NEW w
    PROVE  \E T : Descending(S, w) \in Seq(T)
  <1> DEFINE E(k) == CHOOSE x \in S : Cardinality({y \in S :
                        \/ w[y] > w[x]
                        \/ w[y] = w[x] /\ y < x}) = k - 1
  <1>1. Descending(S, w) = [k \in 1..Cardinality(S) |-> E(k)]
    BY Zenon DEF Descending, Ordered
  <1> HIDE DEF E
  <1>2. PICK n, f : n = Cardinality(S) /\ f = Descending(S, w)
    OBVIOUS
  <1>3. n \in Nat
    BY <1>2, FS_CardinalityType
  <1>4. DOMAIN f = 1..n /\ f = [k \in DOMAIN f |-> f[k]]
    BY <1>1, <1>2
  <1>5. PICK T : T = {f[k] : k \in 1..n}
    OBVIOUS
  <1>6. f \in [1..n -> T]
    BY <1>4, <1>5
  <1>7. f \in Seq(T)
    BY <1>3, <1>6
  <1> QED BY <1>2, <1>7

(***************************************************************************)
(* Sums over a finite set.                                                 *)
(***************************************************************************)
\* The element the folds of the library take first.
Some(T) == CHOOSE x \in T : TRUE

\* h is the sum of the weights over each subset, one element after the other.
Sums(h, S, w) ==
    /\ h \in [SUBSET S -> Nat]
    /\ \A T \in SUBSET S : h[T] = IF T = {} THEN 0 ELSE w[Some(T)] + h[T \ {Some(T)}]

\* There is a function that adds the weights up.
LEMMA SumsExist ==
    ASSUME NEW S, IsFiniteSet(S), NEW w \in [S -> Nat]
    PROVE  \E h : Sums(h, S, w)
  <1>1. PICK step, pick, zero : /\ step = [x \in S |-> [v \in Nat |-> w[x] + v]]
                                /\ pick = [T \in SUBSET S |-> Some(T)] /\ zero = 0
    OBVIOUS
  <1>2. \A T \in SUBSET S : T # {} => Some(T) \in T
    BY DEF Some
  <1>3. step \in [S -> [Nat -> Nat]] /\ \A x \in S : \A v \in Nat : step[x][v] = w[x] + v
    BY <1>1
  <1>4. Recursion(S, Nat, zero, pick, step)
    BY <1>1, <1>2, <1>3 DEF Recursion
  <1>5. PICK h : Recursive(h, S, Nat, zero, pick, step)
    BY <1>4, SubsetRecursion
  <1>6. ASSUME NEW T \in SUBSET S
        PROVE  h[T] = IF T = {} THEN 0 ELSE w[Some(T)] + h[T \ {Some(T)}]
    <2>1. CASE T = {}
      BY <1>1, <1>5, <2>1 DEF Recursive
    <2>2. CASE T # {}
      <3>1. PICK x, R : x = Some(T) /\ R = T \ {x}
        OBVIOUS
      <3>2. x \in S /\ R \in SUBSET S /\ pick[T] = x
        BY <1>1, <1>2, <2>2, <3>1
      <3>3. h[R] \in Nat /\ h[T] = step[x][h[R]]
        BY <1>5, <2>2, <3>1, <3>2 DEF Recursive
      <3> QED BY <1>3, <2>2, <3>1, <3>2, <3>3
    <2> QED BY <2>1, <2>2
  <1>7. Sums(h, S, w)
    BY <1>5, <1>6 DEF Sums, Recursive
  <1> QED BY <1>7

\* The same, as the folds of the library write it.
AddsUp(h, S, w) ==
    h = [T \in SUBSET S |-> IF T = {} THEN 0 ELSE w[Some(T)] + h[T \ {Some(T)}]]

\* Only one function adds the weights up in that way.
LEMMA SumsUnique ==
    ASSUME NEW S, IsFiniteSet(S), NEW w \in [S -> Nat], NEW h, AddsUp(h, S, w),
           NEW g, Sums(g, S, w)
    PROVE  h = g
  <1>1. /\ DOMAIN h = SUBSET S /\ h = [T \in DOMAIN h |-> h[T]]
        /\ \A T \in SUBSET S : h[T] = IF T = {} THEN 0 ELSE w[Some(T)] + h[T \ {Some(T)}]
    BY DEF AddsUp
  <1>2. Sums(g, S, w)
    OBVIOUS
  <1>3. \A T \in SUBSET S : T # {} => Some(T) \in T
    BY DEF Some
  <1> DEFINE Q == {T \in SUBSET S : h[T] = g[T]}
             N == {n \in Nat : \A T \in SUBSET S : Cardinality(T) = n => T \in Q}
  <1>4. \A T \in SUBSET S : IsFiniteSet(T) /\ Cardinality(T) \in Nat
    BY FS_Subset, FS_CardinalityType
  <1>5. 0 \in N
    <2>1. \A T \in SUBSET S : Cardinality(T) = 0 => T = {}
      BY <1>4, FS_EmptySet
    <2>2. {} \in Q
      BY <1>1, <1>2 DEF Sums
    <2> QED BY <2>1, <2>2
  <1>6. ASSUME NEW n \in Nat, n \in N PROVE n + 1 \in N
    <2>0. n + 1 \in Nat
      OBVIOUS
    <2> SUFFICES ASSUME NEW T \in SUBSET S, Cardinality(T) = n + 1 PROVE T \in Q
      BY <2>0
    <2>1. T # {}
      <3>1. Cardinality(T) # 0
        OBVIOUS
      <3> QED BY <3>1, FS_EmptySet
    <2>2. PICK x \in T : x = Some(T)
      BY <1>3, <2>1
    <2>3. Cardinality(T \ {x}) = (n + 1) - 1
      BY <1>4, FS_RemoveElement
    <2>4. Cardinality(T \ {x}) = n /\ T \ {x} \in SUBSET S
      BY <2>3
    <2>5. h[T \ {x}] = g[T \ {x}]
      BY <1>6, <2>4
    <2> QED BY <1>1, <1>2, <2>1, <2>2, <2>5 DEF Sums
  <1> HIDE DEF N
  <1>7. Nat \subseteq N
    BY <1>5, <1>6, NatInduct
  <1>8. \A T \in SUBSET S : h[T] = g[T]
    BY <1>4, <1>7 DEF N
  <1> QED BY <1>1, <1>2, <1>8 DEF Sums

\* What is written in that way is a sum of naturals.
LEMMA SumsAre ==
    ASSUME NEW S, IsFiniteSet(S), NEW w \in [S -> Nat], NEW h, AddsUp(h, S, w)
    PROVE  Sums(h, S, w)
  <1>1. PICK g : Sums(g, S, w)
    BY SumsExist
  <1>2. h = g
    BY <1>1, SumsUnique
  <1> QED BY <1>1, <1>2

(***************************************************************************)
(* Recall.                                                                 *)
(***************************************************************************)
\* A posting list is a sequence of ids.
LEMMA PostingType ==
    ASSUME indexed \subseteq Ids, NEW c, NEW key
    PROVE  Posting(c, key) \in Seq(Ids)
  <1> DEFINE S == {x \in indexed : key \in Content[x].keys[c]}
  <1>1. S \in SUBSET Ids
    OBVIOUS
  <1>2. Posting(c, key) = Ascending(S)
    BY DEF Posting
  <1> HIDE DEF S
  <1>3. IsFiniteSet(S) /\ S \subseteq Int
    BY <1>1, IdsAreNats
  <1>4. Ascending(S) \in Seq(S)
    BY <1>3, AscendingClimbs DEF Climbs
  <1> QED BY <1>1, <1>2, <1>4

\* A keyed channel appends the postings of its keys: a sequence of ids.
LEMMA KeyHitsType ==
    ASSUME query \in Queries, indexed \subseteq Ids, NEW c \in KeyChannels
    PROVE  KeyHits(c) \in Seq(Ids)
  <1>1. PICK s, n, A, base : s = query.keys[c] /\ n = Len(s) /\ A = Seq(Ids) /\ base = <<>>
    OBVIOUS
  <1>2. n \in Nat /\ DOMAIN s = 1..n /\ base \in A
    <2>1. s \in Seq(ToSet(s))
      BY <1>1, RetrievalAssumption
    <2> QED BY <1>1, <2>1
  <1> DEFINE Body(g, T) == IF T = {} THEN base ELSE g[T \ {Max(T)}] \o Posting(c, s[Max(T)])
             I == CHOOSE g : g = [T \in SUBSET (DOMAIN s) |-> Body(g, T)]
  <1>3. KeyHits(c) = I[DOMAIN s]
    BY <1>1, Zenon DEF KeyHits, FoldLeft, MapThenFoldSet
  <1>4. PICK step : step = [i \in 1..n |-> [r \in A |-> r \o Posting(c, s[i])]]
    OBVIOUS
  <1>5. step \in [1..n -> [A -> A]] /\ \A i \in 1..n : \A r \in A : step[i][r] = r \o Posting(c, s[i])
    <2>1. \A r \in A : \A i \in 1..n : r \o Posting(c, s[i]) \in A
      BY <1>1, PostingType
    <2> QED BY <1>4, <2>1
  <1>6. PICK g \in [SUBSET (1..n) -> A] : \A T \in SUBSET (1..n) :
          g[T] = IF T = {} THEN base ELSE step[Max(T)][g[T \ {Max(T)}]]
    <2>1. PICK g : Unrolled(g, n, A, base, step)
      BY <1>2, <1>5, LoopExists
    <2> QED BY <2>1 DEF Unrolled
  <1>7. \A T \in SUBSET (1..n) : T # {} => Max(T) \in 1..n
    BY <1>2, IntervalStep
  <1>8. g = [T \in SUBSET (1..n) |-> Body(g, T)]
    <2>1. ASSUME NEW T \in SUBSET (1..n) PROVE g[T] = Body(g, T)
      <3>1. T \ {Max(T)} \in SUBSET (1..n) /\ g[T \ {Max(T)}] \in A
        OBVIOUS
      <3> QED BY <1>5, <1>6, <1>7, <3>1
    <2> HIDE DEF Body
    <2> QED BY <2>1
  <1>9. I = [T \in SUBSET (1..n) |-> Body(I, T)]
    <2> HIDE DEF Body
    <2> QED BY <1>2, <1>8
  <1>10. PICK h : h = I
    OBVIOUS
  <1>11. \A T \in SUBSET (1..n) : h[T] = Body(h, T)
    <2> HIDE DEF Body, I
    <2> QED BY <1>9, <1>10
  <1> HIDE DEF I
  <1>12. Loop(h, n, A, base, step)
    BY <1>5, <1>7, <1>11 DEF Loop
  <1>13. PICK f : Passes(f, n, A, base, step) /\ f[n] = h[1..n]
    <2> HIDE DEF Body
    <2>1. n \in Nat /\ base \in A /\ step \in [1..n -> [A -> A]]
      BY <1>2, <1>5
    <2> QED BY <1>12, <2>1, LoopPasses
  <1>14. f[n] \in A
    BY <1>2, <1>13 DEF Passes
  <1> QED BY <1>1, <1>2, <1>3, <1>10, <1>13, <1>14

\* Every channel returns a sequence.
LEMMA HitsAreSeq ==
    ASSUME query \in Queries, indexed \subseteq Ids, NEW c \in Channels
    PROVE  \E S : Hits(c) \in Seq(S)
  <1>1. CASE c \in SearchChannels
    <2>1. Hits(c) = query.found[c]
      BY <1>1 DEF Hits, SearchChannels, KeyChannels
    <2> QED BY <1>1, <2>1, RetrievalAssumption
  <1>2. CASE c \in KeyChannels
    <2>1. Hits(c) = KeyHits(c)
      BY <1>2 DEF Hits, SearchChannels, KeyChannels
    <2> QED BY <1>2, <2>1, KeyHitsType
  <1>3. CASE c = "EntityInverted"
    <2>1. Hits(c) = EntityHits
      BY <1>3 DEF Hits, SearchChannels, KeyChannels
    <2>2. IsFiniteSet({x \in indexed : Covered(x) > 0})
      BY IdsAreNats
    <2> QED BY <2>1, <2>2, DescendingIsSeq, ZenonT(40) DEF EntityHits
  <1>4. CASE c = "Temporal"
    <2> DEFINE S == {x \in indexed : Content[x].hour \div 24 \in query.days}
    <2>1. Hits(c) = Ascending(S)
      BY <1>4 DEF Hits, SearchChannels, KeyChannels, TemporalHits
    <2>2. S \in SUBSET Ids
      OBVIOUS
    <2> HIDE DEF S
    <2>3. IsFiniteSet(S) /\ S \subseteq Int
      BY <2>2, IdsAreNats
    <2>4. Ascending(S) \in Seq(S)
      BY <2>3, AscendingClimbs DEF Climbs
    <2> QED BY <2>1, <2>4
  <1>5. CASE c = "RecentActivation"
    <2>1. Hits(c) = RecentHits
      BY <1>5 DEF Hits, SearchChannels, KeyChannels
    <2>2. IsFiniteSet({x \in Ids : RecentScore(x) > 0})
      BY IdsAreNats
    <2> QED BY <2>1, <2>2, DescendingIsSeq DEF RecentHits
  <1>6. c \in {"Bm25", "EntityInverted", "SemanticDense", "SemanticBinary", "TopicCluster",
               "Temporal", "Goal", "Event", "Causal", "RecentActivation"}
    BY Zenon DEF Channels, RrfWeight
  <1> QED BY <1>1, <1>2, <1>3, <1>4, <1>5, <1>6 DEF SearchChannels, KeyChannels

\* Ranks of a channel begin at 1.
LEMMA ChannelSeedsDomain ==
    ASSUME query \in Queries, indexed \subseteq Ids, NEW c \in Channels
    PROVE  DOMAIN ChannelSeeds(c) \subseteq Nat \ {0}
  <1>1. PICK S : Hits(c) \in Seq(S)
    BY HitsAreSeq
  <1>2. PICK h, k : h = Hits(c) /\ k = Lesser(SeedPerChannel, Len(h))
    OBVIOUS
  <1>3. h \in Seq(S) /\ Len(h) \in Nat
    BY <1>1, <1>2
  <1>4. k \in 0..Len(h)
    BY <1>2, <1>3, RetrievalAssumption DEF Lesser
  <1>5. ChannelSeeds(c) = SubSeq(h, 1, k)
    BY <1>2 DEF ChannelSeeds
  <1>6. DOMAIN SubSeq(h, 1, k) = 1..k
    BY <1>3, <1>4
  <1> QED BY <1>4, <1>5, <1>6

\* The weights of the channels are naturals.
LEMMA WeightType == \A c \in Channels : RrfWeight[c] \in Nat
  BY SMT DEF Channels, RrfWeight

\* What a channel adds to a fused score is a natural.
LEMMA ContributionType ==
    ASSUME query \in Queries, indexed \subseteq Ids, NEW c \in Channels, NEW x
    PROVE  Contribution(c, x) \in Nat
  <1> DEFINE at == {i \in DOMAIN ChannelSeeds(c) : ChannelSeeds(c)[i] = x}
  <1>1. at \subseteq Nat \ {0}
    BY ChannelSeedsDomain
  <1>2. Contribution(c, x) = IF at = {} THEN 0 ELSE RrfWeight[c] \div (RrfK + Min(at) - 1)
    BY Zenon DEF Contribution
  <1> HIDE DEF at
  <1>3. CASE at = {}
    BY <1>2, <1>3
  <1>4. CASE at # {}
    <2>1. PICK m, w : m = Min(at) /\ w = RrfWeight[c]
      OBVIOUS
    <2>2. at \subseteq Nat
      BY <1>1
    <2>3. m \in at
      BY <1>4, <2>1, <2>2, MinOf
    <2>4. m \in Nat /\ m > 0 /\ w \in Nat
      BY <1>1, <2>1, <2>3, WeightType
    <2>5. Contribution(c, x) = w \div (RrfK + m - 1)
      BY <1>2, <1>4, <2>1
    <2>6. RrfK + m - 1 = m
      BY <2>4 DEF RrfK
    <2> QED BY <2>4, <2>5, <2>6, DivNat
  <1> QED BY <1>3, <1>4

\* There are finitely many channels.
LEMMA ChannelsFinite == IsFiniteSet(Channels)
  <1>1. Channels = {"Bm25", "EntityInverted", "SemanticDense", "SemanticBinary", "TopicCluster",
                    "Temporal", "Goal", "Event", "Causal", "RecentActivation"}
    BY Zenon DEF Channels, RrfWeight
  <1> DEFINE A == {"Bm25", "EntityInverted", "SemanticDense"}
             B == {"SemanticBinary", "TopicCluster", "Temporal"}
             C == {"Goal", "Event", "Causal", "RecentActivation"}
  <1>2. IsFiniteSet({"Bm25"} \cup {"EntityInverted"}) /\ IsFiniteSet({"SemanticDense"})
    BY FS_Singleton, FS_Union
  <1>3. IsFiniteSet({"SemanticBinary"} \cup {"TopicCluster"}) /\ IsFiniteSet({"Temporal"})
    BY FS_Singleton, FS_Union
  <1>4. IsFiniteSet({"Goal"} \cup {"Event"}) /\ IsFiniteSet({"Causal"} \cup {"RecentActivation"})
    BY FS_Singleton, FS_Union
  <1>5. /\ A = ({"Bm25"} \cup {"EntityInverted"}) \cup {"SemanticDense"}
        /\ B = ({"SemanticBinary"} \cup {"TopicCluster"}) \cup {"Temporal"}
        /\ C = ({"Goal"} \cup {"Event"}) \cup ({"Causal"} \cup {"RecentActivation"})
    OBVIOUS
  <1>6. Channels = (A \cup B) \cup C
    BY <1>1
  <1> HIDE DEF A, B, C
  <1>7. IsFiniteSet(A) /\ IsFiniteSet(B) /\ IsFiniteSet(C)
    BY <1>2, <1>3, <1>4, <1>5, FS_Union
  <1>8. IsFiniteSet(A \cup B)
    BY <1>7, FS_Union
  <1>9. IsFiniteSet((A \cup B) \cup C)
    BY <1>7, <1>8, FS_Union
  <1> QED BY <1>6, <1>9

\* Fused scores are naturals.
LEMMA RrfType ==
    ASSUME query \in Queries, indexed \subseteq Ids
    PROVE  RrfFuse \in [Ids -> Nat]
  <1> SUFFICES ASSUME NEW x \in Ids
               PROVE  MapThenSumSet(LAMBDA c : Contribution(c, x), Channels) \in Nat
    BY DEF RrfFuse
  <1> DEFINE Body(g, T) == IF T = {} THEN 0
                           ELSE Contribution(Some(T), x) + g[T \ {Some(T)}]
             I == CHOOSE g : g = [T \in SUBSET Channels |-> Body(g, T)]
  <1>1. MapThenSumSet(LAMBDA c : Contribution(c, x), Channels) = I[Channels]
    BY Zenon DEF MapThenSumSet, MapThenFoldSet, Some
  <1>2. PICK w : w = [c \in Channels |-> Contribution(c, x)]
    OBVIOUS
  <1>3. w \in [Channels -> Nat] /\ \A c \in Channels : w[c] = Contribution(c, x)
    BY <1>2, ContributionType
  <1>4. \A T \in SUBSET Channels : T # {} => Some(T) \in Channels
    BY DEF Some
  <1>5. \A g : \A T \in SUBSET Channels :
          Body(g, T) = IF T = {} THEN 0 ELSE w[Some(T)] + g[T \ {Some(T)}]
    BY <1>3, <1>4
  <1>6. PICK g : Sums(g, Channels, w)
    BY <1>3, ChannelsFinite, SumsExist
  <1>7. g = [T \in SUBSET Channels |-> Body(g, T)]
    <2> HIDE DEF Body
    <2> QED BY <1>5, <1>6 DEF Sums
  <1>8. I = [T \in SUBSET Channels |-> Body(I, T)]
    <2> HIDE DEF Body
    <2> QED BY <1>7
  <1>9. PICK h : h = I
    OBVIOUS
  <1> HIDE DEF I, Body
  <1>10. h = [T \in SUBSET Channels |-> Body(h, T)]
    BY <1>8, <1>9
  <1>11. AddsUp(h, Channels, w)
    BY <1>5, <1>10 DEF AddsUp
  <1>12. Sums(h, Channels, w)
    BY <1>3, <1>11, ChannelsFinite, SumsAre
  <1>13. h[Channels] \in Nat
    BY <1>12 DEF Sums
  <1> QED BY <1>1, <1>9, <1>13

\* The values a function takes on a finite set.
LEMMA FiniteImage ==
    ASSUME NEW S, IsFiniteSet(S), NEW f, DOMAIN f = S, f = [x \in DOMAIN f |-> f[x]]
    PROVE  /\ IsFiniteSet({f[x] : x \in S})
           /\ Cardinality({f[x] : x \in S}) <= Cardinality(S)
  <1>1. PICK T : T = {f[x] : x \in S}
    OBVIOUS
  <1>2. f \in [S -> T] /\ \A y \in T : \E x \in S : f[x] = y
    BY <1>1
  <1>3. f \in Surjection(S, T)
    BY <1>2 DEF Surjection
  <1> QED BY <1>1, <1>3, FS_Surjection

\* The fan-out of a node is a sequence of its edges.
LEMMA TopLinksType ==
    ASSUME known \in [Ids -> Seq(Link)], NEW x \in Ids
    PROVE  /\ TopLinks(x) \in Seq(Link) /\ Len(TopLinks(x)) \in Nat /\ Len(TopLinks(x)) <= FanOut
           /\ DOMAIN TopLinks(x) = 1..Len(TopLinks(x))
           /\ known[x] = <<>> => TopLinks(x) = <<>>
  <1>1. PICK s, S, w : s = known[x] /\ S = DOMAIN s /\ w = [i \in S |-> s[i].w]
    OBVIOUS
  <1>2. PICK at, n : at = Descending(S, w) /\ n = Lesser(FanOut, Len(at))
    OBVIOUS
  <1>3. TopLinks(x) = [k \in 1..n |-> s[at[k]]]
    BY <1>1, <1>2 DEF TopLinks
  <1>4. s \in Seq(Link) /\ S = 1..Len(s) /\ Len(s) \in Nat
    BY <1>1
  <1>5. IsFiniteSet(S) /\ Cardinality(S) = Len(s) /\ S \subseteq Int
    BY <1>4, CountTo
  <1>6. \A i \in S : s[i] \in Link
    BY <1>4
  <1>7. \A i \in S : w[i] \in Int
    BY <1>1, <1>6, LinkFields
  <1>8. Listing(at, S)
    BY <1>2, <1>5, <1>7, DescendingLists
  <1>9. Len(at) \in Nat /\ Len(at) = Len(s) /\ \A k \in 1..Len(at) : at[k] \in S
    BY <1>5, <1>8 DEF Listing
  <1>10. n \in Nat /\ n <= FanOut /\ n <= Len(at)
    BY <1>2, <1>9, RetrievalAssumption DEF Lesser
  <1>11. PICK t : t = TopLinks(x)
    OBVIOUS
  <1>12. t \in [1..n -> Link]
    BY <1>3, <1>6, <1>9, <1>10, <1>11
  <1>13. t \in Seq(Link) /\ Len(t) = n
    BY <1>10, <1>12
  <1>14. s = <<>> => t = <<>>
    BY <1>4, <1>9, <1>10, <1>13
  <1> QED BY <1>1, <1>10, <1>11, <1>13, <1>14

\* Energies are naturals.
LEMMA SeedEnergyType ==
    ASSUME fused \in [Ids -> Nat], NEW x \in Ids, fused[x] > 0
    PROVE  SeedEnergy(x) \in Nat
  <1>1. PICK S, m : S = {fused[y] : y \in Ids} /\ m = Max(S)
    OBVIOUS
  <1>2. IsFiniteSet(S)
    BY <1>1, IdsAreNats, FiniteImage
  <1>3. S \subseteq Int /\ S # {} /\ fused[x] \in S
    BY <1>1
  <1>4. m \in S /\ fused[x] <= m
    BY <1>1, <1>2, <1>3, MaxOf
  <1>5. m \in Nat /\ m > 0
    BY <1>1, <1>4
  <1>6. PICK norm, imp : /\ norm = (fused[x] * Scale) \div m
                         /\ imp = IF copy[x] = "none" THEN 0 ELSE Importance[x]
    OBVIOUS
  <1>7. norm \in Nat
    <2>1. PICK p : p = fused[x] * Scale
      OBVIOUS
    <2>2. p \in Nat
      BY <2>1, SMT DEF Scale
    <2> QED BY <1>5, <1>6, <2>1, <2>2, DivNat
  <1>8. imp \in Nat
    <2>1. Importance[x] \in 0..Scale
      BY ReadStoreAssumption
    <2>2. Importance[x] \in Nat
      BY <2>1, SMTT(30) DEF Scale
    <2> QED BY <1>6, <2>2
  <1>9. Times(norm, QueryMatch) \in Nat /\ Times(imp, ImportanceCoeff) \in Nat
    <2>1. QueryMatch \in Nat /\ ImportanceCoeff \in Nat
      BY SMT DEF QueryMatch, ImportanceCoeff
    <2> QED BY <1>7, <1>8, <2>1, TimesNat
  <1>10. Scale + Times(imp, ImportanceCoeff) \in Nat
    BY <1>9, SMT DEF Scale
  <1>11. PICK e : e = Times(Times(norm, QueryMatch), Scale + Times(imp, ImportanceCoeff))
    OBVIOUS
  <1>12. e \in Nat
    BY <1>9, <1>10, <1>11, TimesNat
  <1>13. SeedEnergy(x) = Lesser(SeedCap, e)
    BY <1>1, <1>6, <1>11, Zenon DEF SeedEnergy
  <1> QED BY <1>12, <1>13, SMT DEF Lesser, SeedCap

\* The type modifiers are naturals.
LEMMA ModifierType == \A t \in LinkTypes : TypeModifier[t] \in Nat
  BY SMT DEF LinkTypes, TypeModifier

\* Energy passed on over an edge is a natural.
LEMMA PropagatedType ==
    ASSUME NEW e \in Nat, NEW l \in Link, NEW h \in Nat
    PROVE  Propagated(e, l, h) \in Nat
  <1>1. l.w \in Nat /\ l.type \in LinkTypes
    BY LinkFields
  <1>2. Decay[h] \in Nat /\ TypeModifier[l.type] \in Nat
    BY <1>1, DecayType, ModifierType
  <1>3. Times(Times(e, l.w), Decay[h]) \in Nat
    BY <1>1, <1>2, TimesNat
  <1>4. PICK p, m : p = Times(Times(e, l.w), Decay[h]) /\ m = TypeModifier[l.type]
    OBVIOUS
  <1>5. PICK r : r = (p * m) \div 100
    OBVIOUS
  <1>6. p * m \in Nat
    BY <1>2, <1>3, <1>4
  <1>7. r \in Nat
    BY <1>5, <1>6, DivNat
  <1>8. Propagated(e, l, h) = Lesser(Scale, r)
    BY <1>4, <1>5, Zenon DEF Propagated
  <1> QED BY <1>7, <1>8, SMT DEF Lesser, Scale

\* Merged energies are positive and between the greater and the sum.
LEMMA MergeBounds ==
    ASSUME NEW a \in Nat, NEW b \in Nat
    PROVE  /\ Merge(a, b) \in Nat
           /\ Merge(a, b) >= a /\ Merge(a, b) >= b /\ Merge(a, b) <= a + b
  <1>1. PICK g, l : g = Greater(a, b) /\ l = Lesser(a, b)
    OBVIOUS
  <1>2. g \in Nat /\ l \in Nat /\ g >= a /\ g >= b /\ g + l = a + b
    BY <1>1 DEF Greater, Lesser
  <1>3. PICK t : t = Times(MergeWeight, l)
    OBVIOUS
  <1>4. t \in Nat /\ t <= l
    <2>1. t = (300 * l) \div 1000
      BY <1>3, SMT DEF Times, MergeWeight, Scale
    <2> QED BY <1>2, <2>1, SMT
  <1>5. Merge(a, b) = g + t
    BY <1>1, <1>3 DEF Merge
  <1> QED BY <1>2, <1>4, <1>5

(***************************************************************************)
(* One round of spreading.                                                 *)
(***************************************************************************)
\* A step of a trace: the edge taken, 0 for where it begins.
TraceStep == [from : Ids \cup {0}, to : Ids]

\* The state a round of spreading reads.
SpreadTypes ==
    /\ known \in [Ids -> Seq(Link)] /\ energy \in [Ids -> Nat]
    /\ trace \in [Ids -> Seq(TraceStep)]
    /\ frontier \in Seq(Ids) /\ hop \in Nat

\* x is reached from a node of the frontier, along the steps t.
ReachedBy(x, t) ==
    \E i \in 1..Len(frontier) :
        /\ x \in Targets(TopLinks(frontier[i]))
        /\ t = Append(trace[frontier[i]], [from |-> frontier[i], to |-> x])

\* What a round holds at any time: new nodes only, each with a trace over the
\* frontier.
Rounds ==
    {r \in [e : [Ids -> Nat], t : [Ids -> Seq(TraceStep)]] :
        \A x \in Ids : r.e[x] > 0 => energy[x] = 0 /\ ReachedBy(x, r.t[x])}

\* An edge that is not skipped.
Counted(a) == energy[a.to] = 0 /\ a.e >= MinEnergy

\* r2 is r1 after one more edge.
Merged(r1, a, r2) ==
    /\ \A y \in Ids : r2.e[y] >= r1.e[y] /\ (y # a.to => r2.e[y] = r1.e[y])
    /\ Counted(a) => r2.e[a.to] >= a.e /\ r2.e[a.to] <= r1.e[a.to] + a.e
    /\ ~ Counted(a) => r2 = r1

\* What a node sends, edge by edge.
LEMMA SentType ==
    ASSUME SpreadTypes, NEW x \in Ids
    PROVE  /\ DOMAIN Sent(x) = 1..Len(TopLinks(x)) /\ Len(TopLinks(x)) \in Nat
           /\ \A k \in 1..Len(TopLinks(x)) :
                /\ Sent(x)[k].from = x
                /\ Sent(x)[k].to = TopLinks(x)[k].to /\ Sent(x)[k].to \in Ids
                /\ Sent(x)[k].to \in Targets(TopLinks(x))
                /\ Sent(x)[k].e = Propagated(energy[x], TopLinks(x)[k], hop)
                /\ Sent(x)[k].e \in Nat
  <1>1. PICK t, n : t = TopLinks(x) /\ n = Len(t)
    OBVIOUS
  <1>2. t \in Seq(Link) /\ n \in Nat /\ DOMAIN t = 1..n
    BY <1>1, TopLinksType DEF SpreadTypes
  <1>3. Sent(x) = [k \in 1..n |-> [from |-> x, to |-> t[k].to,
                                   e |-> Propagated(energy[x], t[k], hop)]]
    BY <1>1, <1>2 DEF Sent
  <1>4. ASSUME NEW k \in 1..n
        PROVE  t[k].to \in Ids /\ t[k].to \in Targets(t) /\ Propagated(energy[x], t[k], hop) \in Nat
    <2>1. t[k] \in Link
      BY <1>2
    <2>2. t[k].to \in Ids
      BY <2>1, LinkFields
    <2>3. Propagated(energy[x], t[k], hop) \in Nat
      BY <2>1, PropagatedType DEF SpreadTypes
    <2> QED BY <1>2, <2>2, <2>3 DEF Targets
  <1> QED BY <1>1, <1>2, <1>3, <1>4

\* One arrival is skipped or merged, and leaves a legal round.
LEMMA ArriveMerges ==
    ASSUME SpreadTypes, NEW r \in Rounds, NEW i \in 1..Len(frontier),
           NEW k \in 1..Len(TopLinks(frontier[i]))
    PROVE  /\ Arrive(r, Sent(frontier[i])[k]) \in Rounds
           /\ Merged(r, Sent(frontier[i])[k], Arrive(r, Sent(frontier[i])[k]))
  <1>1. PICK x, a : x = frontier[i] /\ a = Sent(x)[k]
    OBVIOUS
  <1>2. x \in Ids
    BY <1>1 DEF SpreadTypes
  <1>3. /\ a.from = x /\ a.to \in Ids /\ a.to \in Targets(TopLinks(x)) /\ a.e \in Nat
    BY <1>1, <1>2, SentType
  <1>4. r.e \in [Ids -> Nat] /\ r.t \in [Ids -> Seq(TraceStep)]
    BY DEF Rounds
  <1>5. PICK old, new, steps :
            /\ old = r.e[a.to]
            /\ new = IF old = 0 THEN a.e ELSE Merge(old, a.e)
            /\ steps = Append(trace[x], [from |-> x, to |-> a.to])
    OBVIOUS
  <1>6. old \in Nat /\ new \in Nat /\ new >= old /\ new >= a.e /\ new <= old + a.e
    BY <1>3, <1>4, <1>5, MergeBounds
  <1>7. steps \in Seq(TraceStep)
    <2>1. [from |-> x, to |-> a.to] \in TraceStep
      BY <1>2, <1>3 DEF TraceStep
    <2>2. trace[x] \in Seq(TraceStep)
      BY <1>2 DEF SpreadTypes
    <2> QED BY <1>5, <2>1, <2>2
  <1>8. CASE ~ Counted(a)
    <2>1. energy[a.to] > 0 \/ a.e < MinEnergy
      <3>1. energy[a.to] \in Nat
        BY <1>3 DEF SpreadTypes
      <3> QED BY <1>3, <1>8, <3>1 DEF Counted, MinEnergy
    <2>2. Arrive(r, a) = r
      BY <2>1 DEF Arrive
    <2> QED BY <1>1, <1>4, <1>8, <2>2 DEF Merged
  <1>9. CASE Counted(a)
    <2>1. ~ (energy[a.to] > 0 \/ a.e < MinEnergy) /\ a.e > 0
      BY <1>3, <1>9 DEF Counted, MinEnergy
    <2>2. PICK e2, t2 : /\ e2 = [r.e EXCEPT ![a.to] = new]
                        /\ t2 = [r.t EXCEPT ![a.to] = IF old = 0 \/ new = a.e THEN steps ELSE @]
      OBVIOUS
    <2>3. Arrive(r, a) = [e |-> e2, t |-> t2]
      BY <1>3, <1>5, <2>1, <2>2 DEF Arrive
    <2>4. /\ e2 \in [Ids -> Nat] /\ e2[a.to] = new
          /\ \A y \in Ids : y # a.to => e2[y] = r.e[y]
      BY <1>3, <1>4, <1>6, <2>2
    <2>5. /\ t2 \in [Ids -> Seq(TraceStep)]
          /\ t2[a.to] = IF old = 0 \/ new = a.e THEN steps ELSE r.t[a.to]
          /\ \A y \in Ids : y # a.to => t2[y] = r.t[y]
      BY <1>3, <1>4, <1>7, <2>2
    <2>6. ASSUME NEW y \in Ids, e2[y] > 0
          PROVE  energy[y] = 0 /\ ReachedBy(y, t2[y])
      <3>1. CASE y # a.to
        BY <2>4, <2>5, <2>6, <3>1 DEF Rounds
      <3>2. CASE y = a.to /\ (old = 0 \/ new = a.e)
        <4>1. t2[y] = Append(trace[frontier[i]], [from |-> frontier[i], to |-> y])
          BY <1>1, <1>5, <2>5, <3>2
        <4>2. y \in Targets(TopLinks(frontier[i]))
          BY <1>1, <1>3, <3>2
        <4> QED BY <1>9, <3>2, <4>1, <4>2 DEF Counted, ReachedBy
      <3>3. CASE y = a.to /\ ~ (old = 0 \/ new = a.e)
        <4>1. r.e[y] > 0 /\ t2[y] = r.t[y]
          BY <1>5, <1>6, <2>5, <3>3
        <4> QED BY <4>1 DEF Rounds
      <3> QED BY <3>1, <3>2, <3>3
    <2>7. Arrive(r, a) \in Rounds
      BY <2>3, <2>4, <2>5, <2>6 DEF Rounds
    <2>8. Merged(r, a, Arrive(r, a))
      <3>1. Arrive(r, a).e = e2
        BY <2>3
      <3>2. \A y \in Ids : e2[y] >= r.e[y] /\ (y # a.to => e2[y] = r.e[y])
        BY <1>4, <1>5, <1>6, <2>4
      <3> QED BY <1>5, <1>6, <1>9, <2>4, <3>1, <3>2 DEF Merged
    <2> QED BY <1>1, <2>7, <2>8
  <1> QED BY <1>8, <1>9

\* A loop that never decreases a number.
LEMMA NeverLess ==
    ASSUME NEW n \in Nat, NEW g \in [0..n -> Nat], \A k \in 1..n : g[k] >= g[k - 1]
    PROVE  \A k \in 0..n : g[n] >= g[k]
  <1> SUFFICES ASSUME NEW k \in 0..n PROVE g[n] >= g[k]
    OBVIOUS
  <1> DEFINE M == {m \in Nat : k + m <= n => g[k + m] >= g[k]}
  <1>1. 0 \in M
    <2>1. k + 0 = k /\ g[k] \in Nat
      OBVIOUS
    <2> QED BY <2>1
  <1>2. ASSUME NEW m \in Nat, m \in M PROVE m + 1 \in M
    <2>1. m + 1 \in Nat
      OBVIOUS
    <2> SUFFICES ASSUME k + (m + 1) <= n PROVE g[k + (m + 1)] >= g[k]
      BY <2>1
    <2>2. k + m <= n /\ k + m \in 0..n /\ k + (m + 1) \in 1..n /\ (k + (m + 1)) - 1 = k + m
      OBVIOUS
    <2>3. g[k + m] >= g[k] /\ g[k + (m + 1)] >= g[k + m]
      BY <1>2, <2>2
    <2>4. g[k + m] \in Nat /\ g[k + (m + 1)] \in Nat /\ g[k] \in Nat
      BY <2>2
    <2> QED BY <2>3, <2>4
  <1> HIDE DEF M
  <1>3. Nat \subseteq M
    BY <1>1, <1>2, NatInduct
  <1>4. n - k \in Nat /\ k + (n - k) = n
    OBVIOUS
  <1>5. n - k \in M
    BY <1>3, <1>4
  <1> QED BY <1>4, <1>5 DEF M

\* f holds the round after each edge of x.
EdgeLoop(f, r, x) ==
    /\ f \in [0..Len(TopLinks(x)) -> Rounds]
    /\ f[0] = r /\ Send(r, x) = f[Len(TopLinks(x))]
    /\ \A k \in 1..Len(TopLinks(x)) : Merged(f[k - 1], Sent(x)[k], f[k])

\* Send is the loop over the edges of a node.
LEMMA SendLoop ==
    ASSUME SpreadTypes, NEW r \in Rounds, NEW i \in 1..Len(frontier)
    PROVE  \E f : EdgeLoop(f, r, frontier[i])
  <1>1. PICK x, s, n : x = frontier[i] /\ s = Sent(x) /\ n = Len(TopLinks(x))
    OBVIOUS
  <1>2. x \in Ids
    BY <1>1 DEF SpreadTypes
  <1>3. DOMAIN s = 1..n /\ n \in Nat
    BY <1>1, <1>2, SentType
  <1>4. \A q \in Rounds : \A k \in 1..n : Arrive(q, s[k]) \in Rounds /\ Merged(q, s[k], Arrive(q, s[k]))
    BY <1>1, ArriveMerges
  <1>5. PICK f : EdgePasses(f, Rounds, r, n, s)
    <2>1. EdgeClosed(Rounds, n, s)
      BY <1>4 DEF EdgeClosed
    <2> QED BY <1>3, <2>1, ArriveSteps
  <1>6. Send(r, x) = f[n]
    BY <1>1, <1>5 DEF Send, EdgePasses
  <1>7. \A k \in 1..n : Merged(f[k - 1], s[k], f[k])
    <2>1. \A k \in 1..n : k - 1 \in 0..n
      BY <1>3
    <2> QED BY <1>4, <1>5, <2>1 DEF EdgePasses
  <1>8. EdgeLoop(f, r, x)
    BY <1>1, <1>5, <1>6, <1>7 DEF EdgeLoop, EdgePasses
  <1> QED BY <1>1, <1>8

\* r2 has at least the energies of r1 and what x sends.
Grown(r1, x, r2) ==
    /\ \A y \in Ids : r2.e[y] >= r1.e[y]
    /\ \A k \in 1..Len(TopLinks(x)) :
          Counted(Sent(x)[k]) => r2.e[Sent(x)[k].to] >= Sent(x)[k].e

\* Sending loses no energy and leaves no edge out that counts.
LEMMA SendGrows ==
    ASSUME SpreadTypes, NEW r \in Rounds, NEW i \in 1..Len(frontier)
    PROVE  Send(r, frontier[i]) \in Rounds /\ Grown(r, frontier[i], Send(r, frontier[i]))
  <1>1. PICK f : EdgeLoop(f, r, frontier[i])
    BY SendLoop
  <1>2. PICK x, s, n : x = frontier[i] /\ s = Sent(x) /\ n = Len(TopLinks(x))
    OBVIOUS
  <1>3. /\ f \in [0..n -> Rounds] /\ f[0] = r /\ Send(r, x) = f[n]
        /\ \A k \in 1..n : Merged(f[k - 1], s[k], f[k])
    BY <1>1, <1>2 DEF EdgeLoop
  <1>4. x \in Ids
    BY <1>2 DEF SpreadTypes
  <1>5. n \in Nat /\ \A k \in 1..n : s[k].to \in Ids /\ s[k].e \in Nat
    BY <1>2, <1>4, SentType
  <1>6. ASSUME NEW y \in Ids PROVE \A k \in 0..n : f[n].e[y] >= f[k].e[y]
    <2>1. PICK g : g = [k \in 0..n |-> f[k].e[y]]
      OBVIOUS
    <2>2. g \in [0..n -> Nat]
      BY <1>3, <2>1 DEF Rounds
    <2>3. \A k \in 1..n : g[k] >= g[k - 1]
      <3>1. \A k \in 1..n : k - 1 \in 0..n /\ k \in 0..n
        BY <1>5
      <3> QED BY <1>3, <2>1, <3>1 DEF Merged
    <2>4. n \in 0..n
      BY <1>5
    <2> QED BY <1>5, <2>1, <2>2, <2>3, <2>4, NeverLess
  <1>7. ASSUME NEW k \in 1..n, Counted(s[k]) PROVE f[n].e[s[k].to] >= s[k].e
    <2>1. k \in 0..n /\ n \in 0..n /\ s[k].to \in Ids
      BY <1>5
    <2>2. f[k].e[s[k].to] >= s[k].e
      BY <1>3, <1>7 DEF Merged
    <2>3. f[n].e[s[k].to] >= f[k].e[s[k].to]
      BY <1>6, <2>1
    <2>4. f[n].e[s[k].to] \in Nat /\ f[k].e[s[k].to] \in Nat
      BY <1>3, <2>1 DEF Rounds
    <2> QED BY <1>5, <2>1, <2>2, <2>3, <2>4
  <1>8. 0 \in 0..n /\ n \in 0..n
    BY <1>5
  <1> QED BY <1>2, <1>3, <1>6, <1>7, <1>8 DEF Grown

\* f holds the round after each node of the frontier.
NodeLoop(f) ==
    /\ f \in [0..Len(frontier) -> Rounds]
    /\ f[0] = NoArrivals /\ Round = f[Len(frontier)]
    /\ \A i \in 1..Len(frontier) : /\ f[i] = Send(f[i - 1], frontier[i])
                                   /\ Grown(f[i - 1], frontier[i], f[i])

\* Round is the loop over the frontier.
LEMMA RoundLoop ==
    ASSUME SpreadTypes
    PROVE  \E f : NodeLoop(f)
  <1>1. PICK n, base : n = Len(frontier) /\ base = NoArrivals
    OBVIOUS
  <1>2. n \in Nat /\ DOMAIN frontier = 1..n
    BY <1>1 DEF SpreadTypes
  <1>3. base \in Rounds
    BY <1>1 DEF NoArrivals, Rounds
  <1>4. \A q \in Rounds : \A i \in 1..n :
          Send(q, frontier[i]) \in Rounds /\ Grown(q, frontier[i], Send(q, frontier[i]))
    BY <1>1, SendGrows
  <1>5. PICK f : NodePasses(f, Rounds, base, n, frontier)
    <2>1. NodeClosed(Rounds, n, frontier)
      BY <1>4 DEF NodeClosed
    <2> QED BY <1>2, <1>3, <2>1, SendSteps
  <1>6. \A i \in 1..n : i - 1 \in 0..n
    BY <1>2
  <1>7. Round = f[n]
    BY <1>1, <1>5 DEF Round, NodePasses
  <1>8. NodeLoop(f)
    BY <1>1, <1>4, <1>5, <1>6, <1>7 DEF NodeLoop, NodePasses
  <1> QED BY <1>8

\* What a round finds: new nodes only, each with a trace over the frontier, and
\* none of the edges that count is left out.
LEMMA RoundFinds ==
    ASSUME SpreadTypes
    PROVE  /\ Round \in Rounds
           /\ \A i \in 1..Len(frontier) : \A k \in 1..Len(TopLinks(frontier[i])) :
                Counted(Sent(frontier[i])[k])
                  => Round.e[Sent(frontier[i])[k].to] >= Sent(frontier[i])[k].e
  <1>1. PICK f : NodeLoop(f)
    BY RoundLoop
  <1>2. PICK n : n = Len(frontier)
    OBVIOUS
  <1>3. n \in Nat
    BY <1>2 DEF SpreadTypes
  <1>4. /\ f \in [0..n -> Rounds] /\ Round = f[n]
        /\ \A i \in 1..n : Grown(f[i - 1], frontier[i], f[i])
    BY <1>1, <1>2 DEF NodeLoop
  <1>5. ASSUME NEW y \in Ids PROVE \A i \in 0..n : f[n].e[y] >= f[i].e[y]
    <2>1. PICK g : g = [k \in 0..n |-> f[k].e[y]]
      OBVIOUS
    <2>2. g \in [0..n -> Nat]
      BY <1>4, <2>1 DEF Rounds
    <2>3. \A k \in 1..n : g[k] >= g[k - 1]
      <3>1. \A k \in 1..n : k - 1 \in 0..n /\ k \in 0..n
        BY <1>3
      <3> QED BY <1>4, <2>1, <3>1 DEF Grown
    <2>4. n \in 0..n
      BY <1>3
    <2> QED BY <1>3, <2>1, <2>2, <2>3, <2>4, NeverLess
  <1>6. ASSUME NEW i \in 1..n, NEW k \in 1..Len(TopLinks(frontier[i])), Counted(Sent(frontier[i])[k])
        PROVE  f[n].e[Sent(frontier[i])[k].to] >= Sent(frontier[i])[k].e
    <2>1. PICK a : a = Sent(frontier[i])[k]
      OBVIOUS
    <2>2. frontier[i] \in Ids
      BY <1>2 DEF SpreadTypes
    <2>3. a.to \in Ids /\ a.e \in Nat
      BY <2>1, <2>2, SentType
    <2>4. i \in 0..n /\ n \in 0..n
      BY <1>3
    <2>5. f[i].e[a.to] >= a.e
      BY <1>4, <1>6, <2>1 DEF Grown
    <2>6. f[n].e[a.to] >= f[i].e[a.to]
      BY <1>5, <2>3, <2>4
    <2>7. f[n].e[a.to] \in Nat /\ f[i].e[a.to] \in Nat
      BY <1>4, <2>3, <2>4 DEF Rounds
    <2> QED BY <2>1, <2>3, <2>5, <2>6, <2>7
  <1>7. Round \in Rounds
    BY <1>3, <1>4
  <1> QED BY <1>2, <1>4, <1>6, <1>7

(***************************************************************************)
(* Scores are naturals.                                                    *)
(***************************************************************************)
\* The kind of a question is one of six.
LEMMA QuestionType ==
    Question \in {"Correction", "Preference", "Why", "How", "What", "None"}
  <1> DEFINE priority == <<"Correction", "Preference", "Why", "How", "What">>
             present == {i \in DOMAIN priority : priority[i] \in query.signals}
  <1>1. Question = IF present = {} THEN "None" ELSE priority[Min(present)]
    BY Zenon DEF Question
  <1>2. DOMAIN priority = 1..5 /\ present \subseteq 1..5
    OBVIOUS
  <1> HIDE DEF present
  <1>3. CASE present = {}
    BY <1>1, <1>3
  <1>4. CASE present # {}
    <2>1. PICK m : m = Min(present)
      OBVIOUS
    <2>2. present \subseteq Nat
      BY <1>2
    <2>3. m \in present
      BY <1>4, <2>1, <2>2, MinOf
    <2>4. m \in 1..5
      BY <1>2, <2>3
    <2>5. priority[m] \in {"Correction", "Preference", "Why", "How", "What"}
      BY <2>4
    <2> QED BY <1>1, <1>4, <2>1, <2>5
  <1> QED BY <1>3, <1>4

\* The boosts of the table are naturals.
LEMMA TypeBoostNat ==
    ASSUME NEW q \in {"Correction", "Preference", "Why", "How", "What", "None"},
           NEW t \in DOMAIN TypeBoost[q]
    PROVE  TypeBoost[q][t] \in Nat
  BY SMT DEF TypeBoost

\* A boosted energy is a natural.
LEMMA BoostNat ==
    ASSUME NEW e \in Nat, NEW b \in Nat
    PROVE  Boost(e, b) \in Nat
  BY SMT DEF Boost, Lesser, SeedCap

\* All the boosts of a memory together.
LEMMA BoostedType ==
    ASSUME energy \in [Ids -> Nat], query \in Queries, NEW x \in Ids
    PROVE  Boosted(x) \in Nat
  <1>1. BoostOfReason(x) \in Nat
    <2>1. Content[x].explains \in Nat
      BY RetrievalAssumption
    <2> QED BY <2>1 DEF BoostOfReason, Lesser
  <1>2. BoostOfType(x) \in Nat
    BY QuestionType, TypeBoostNat DEF BoostOfType
  <1>3. BoostOfWords(x) \in Nat
    <2>1. PICK S : S = {k \in query.keywords : Mentions(x, k)}
      OBVIOUS
    <2>2. IsFiniteSet(S)
      <3>1. IsFiniteSet(query.keywords) /\ S \subseteq query.keywords
        BY <2>1, RetrievalAssumption
      <3> QED BY <3>1, FS_Subset
    <2>3. Cardinality(S) \in Nat
      BY <2>2, FS_CardinalityType
    <2>4. BoostOfWords(x) = Lesser(80, 40 * Cardinality(S))
      BY <2>1 DEF BoostOfWords
    <2> QED BY <2>3, <2>4 DEF Lesser
  <1>4. BoostOfDefinition(x) \in Nat
    BY DEF BoostOfDefinition
  <1>5. PICK e : e = energy[x] /\ e \in Nat
    OBVIOUS
  <1>6. PICK e1 : e1 = Boost(e, BoostOfReason(x)) /\ e1 \in Nat
    BY <1>1, <1>5, BoostNat
  <1>7. PICK e2 : e2 = Boost(e1, BoostOfType(x)) /\ e2 \in Nat
    BY <1>2, <1>6, BoostNat
  <1>8. PICK e3 : e3 = Boost(e2, BoostOfWords(x)) /\ e3 \in Nat
    BY <1>3, <1>7, BoostNat
  <1>9. Boosted(x) = Boost(e3, BoostOfDefinition(x))
    BY <1>5, <1>6, <1>7, <1>8 DEF Boosted
  <1> QED BY <1>4, <1>8, <1>9, BoostNat

\* An edge's strength after the time that has passed.
LEMMA EffectiveStrengthType ==
    ASSUME NEW l, {l.strength, l.reviews, l.days} \subseteq Nat
    PROVE  EffectiveStrength(l) \in Nat
  <1>1. l.strength \in Nat /\ l.reviews \in Nat /\ l.days \in Nat
    OBVIOUS
  <1>2. Lesser(l.reviews, 6) \in Nat
    BY <1>1 DEF Lesser
  <1>3. PICK h : h = PowerOfTwo[Lesser(l.reviews, 6)] /\ h \in Nat /\ h > 0
    BY <1>2, PowerType
  <1>4. l.days \div h \in Nat
    BY <1>1, <1>3, DivNat
  <1>5. PICK d : d = PowerOfTwo[l.days \div h] /\ d \in Nat /\ d > 0
    BY <1>4, PowerType
  <1>6. EffectiveStrength(l) = l.strength \div d
    BY <1>3, <1>5 DEF EffectiveStrength
  <1> QED BY <1>1, <1>5, <1>6, DivNat

\* The context of a query: finitely many links with a strength.
LEMMA ContextType ==
    ASSUME query \in Queries
    PROVE  IsFiniteSet(ContextOf) /\ \A l \in ContextOf : EffectiveStrength(l) \in Nat
  <1>1. PICK F, g : F = query.features /\ g = [f \in F |-> ContextLinks[f]]
    OBVIOUS
  <1>2. IsFiniteSet(F) /\ F \subseteq DOMAIN ContextLinks
    BY <1>1, RetrievalAssumption
  <1>3. PICK C : C = {g[f] : f \in F}
    OBVIOUS
  <1>4. IsFiniteSet(C)
    BY <1>1, <1>2, <1>3, FiniteImage
  <1>5. \A S \in C : IsFiniteSet(S)
    BY <1>1, <1>2, <1>3, RetrievalAssumption
  <1>6. ContextOf = UNION C
    BY <1>1, <1>3 DEF ContextOf
  <1>7. IsFiniteSet(UNION C)
    BY <1>4, <1>5, FS_UNION
  <1>8. ASSUME NEW l \in ContextOf PROVE EffectiveStrength(l) \in Nat
    <2>1. PICK f \in F : l \in ContextLinks[f]
      BY <1>1 DEF ContextOf
    <2>2. {l.strength, l.reviews, l.days} \subseteq Nat
      BY <1>2, <2>1, RetrievalAssumption
    <2> QED BY <2>2, EffectiveStrengthType
  <1> QED BY <1>6, <1>7, <1>8

\* What the context adds to the score of a memory.
LEMMA ContextStrengthType ==
    ASSUME query \in Queries, NEW x
    PROVE  ContextStrength(x) \in Nat
  <1>1. PICK K, g : /\ K = {k \in ContextOf : k.id = x}
                    /\ g = [l \in K |-> EffectiveStrength(l)]
    OBVIOUS
  <1>2. IsFiniteSet(K) /\ \A l \in K : EffectiveStrength(l) \in Nat
    <2>1. IsFiniteSet(ContextOf) /\ \A l \in ContextOf : EffectiveStrength(l) \in Nat
      BY ContextType
    <2>2. K \subseteq ContextOf
      BY <1>1
    <2>3. IsFiniteSet(K)
      BY <2>1, <2>2, FS_Subset
    <2> QED BY <2>1, <2>2, <2>3
  <1>3. PICK V : V = {g[l] : l \in K}
    OBVIOUS
  <1>4. IsFiniteSet(V)
    BY <1>1, <1>2, <1>3, FiniteImage
  <1>5. V \subseteq Nat
    BY <1>1, <1>2, <1>3
  <1>6. PICK W : W = {0} \cup V
    OBVIOUS
  <1>7. IsFiniteSet(W)
    <2>1. IsFiniteSet({0})
      BY FS_Singleton
    <2> QED BY <1>4, <1>6, <2>1, FS_Union
  <1>8. W \subseteq Nat /\ W \subseteq Int /\ W # {}
    BY <1>5, <1>6
  <1>9. Max(W) \in W
    BY <1>7, <1>8, MaxOf
  <1>10. ContextStrength(x) = Max(W)
    <2>1. V = {EffectiveStrength(l) : l \in K}
      BY <1>1, <1>3
    <2> QED BY <1>1, <1>6, <2>1 DEF ContextStrength
  <1> QED BY <1>8, <1>9, <1>10

\* The entities of the question a memory mentions.
LEMMA CoveredType ==
    ASSUME query \in Queries, NEW x
    PROVE  Covered(x) \in Nat /\ Cardinality(query.entities) \in Nat
  <1>1. IsFiniteSet(query.entities)
    BY RetrievalAssumption
  <1>2. PICK S : S = Content[x].entities \cap query.entities
    OBVIOUS
  <1>3. S \subseteq query.entities
    BY <1>2
  <1>4. IsFiniteSet(S)
    BY <1>1, <1>3, FS_Subset
  <1>5. Covered(x) = Cardinality(S)
    BY <1>2 DEF Covered
  <1> QED BY <1>1, <1>4, <1>5, FS_CardinalityType

\* A score is a natural, so the ranking is an order.
LEMMA ScoreType ==
    ASSUME energy \in [Ids -> Nat], query \in Queries, NEW x \in Ids
    PROVE  Score(x) \in Nat
  <1>1. PICK b, s, c, n : /\ b = Boosted(x) /\ s = ContextStrength(x) /\ c = Covered(x)
                          /\ n = Cardinality(query.entities)
    OBVIOUS
  <1>2. b \in Nat /\ s \in Nat /\ c \in Nat /\ n \in Nat
    BY <1>1, BoostedType, ContextStrengthType, CoveredType
  <1>3. PICK u : u = Scale + s \div 2
    OBVIOUS
  <1>4. u \in Nat
    BY <1>2, <1>3, SMT DEF Scale
  <1>5. PICK v : v = Times(b, u)
    OBVIOUS
  <1>6. v \in Nat
    BY <1>2, <1>4, <1>5, TimesNat
  <1>7. Score(x) = IF n < 2 THEN v ELSE Times(v, Scale + (200 * c) \div n)
    BY <1>1, <1>3, <1>5 DEF Score
  <1>8. CASE n < 2
    BY <1>6, <1>7, <1>8
  <1>9. CASE ~ (n < 2)
    <2>1. n > 0 /\ 200 * c \in Nat
      BY <1>2, <1>9
    <2>2. (200 * c) \div n \in Nat
      BY <1>2, <2>1, DivNat
    <2>3. PICK z : z = Scale + (200 * c) \div n
      OBVIOUS
    <2>4. z \in Nat
      BY <2>2, <2>3, SMT DEF Scale
    <2>5. Times(v, z) \in Nat
      BY <1>6, <2>4, TimesNat
    <2> QED BY <1>7, <1>9, <2>3, <2>5
  <1> QED BY <1>8, <1>9

(***************************************************************************)
(* The ranking.                                                            *)
(***************************************************************************)
\* The ranking lists the candidates by score, then energy, then id.
LEMMA RankedLists ==
    ASSUME energy \in [Ids -> Nat], query \in Queries, reached \in Seq(Ids)
    PROVE  \E a, b, c : /\ Lists(Ordered(Candidates, RanksBefore), Candidates, a, b, c)
                        /\ a = [x \in Candidates |-> Score(x)] /\ b \in [Candidates -> Int]
  <1> DEFINE S == Candidates
             byId == ContextOf # {} \/ Cardinality(query.entities) >= 2
             E(k) == CHOOSE x \in S : Cardinality({y \in S : RanksBefore(y, x)}) = k - 1
  <1>1. Ordered(Candidates, RanksBefore) = [k \in 1..Cardinality(S) |-> E(k)]
    BY Zenon DEF Ordered
  <1>2. PICK f : f = Ordered(Candidates, RanksBefore)
    OBVIOUS
  <1>3. DOMAIN f = 1..Cardinality(S) /\ \A k \in 1..Cardinality(S) : f[k] = E(k)
    <2> HIDE DEF E, S
    <2> QED BY <1>1, <1>2
  <1>4. f = [k \in DOMAIN f |-> f[k]]
    <2> HIDE DEF E, S
    <2> QED BY <1>1, <1>2
  <1>5. S \subseteq Ids /\ \A x \in S : \E i \in DOMAIN reached : reached[i] = x
    BY DEF Candidates, Activated
  <1>6. IsFiniteSet(S) /\ S \subseteq Int
    BY <1>5, IdsAreNats
  <1>7. \A x \in S : Position(x) \in DOMAIN reached /\ reached[Position(x)] = x
    BY <1>5, Zenon DEF Position
  <1>8. \A x \in S : Score(x) \in Int /\ energy[x] \in Int /\ Position(x) \in Int /\ x \in Int
    <2>1. DOMAIN reached \subseteq Int
      OBVIOUS
    <2>2. \A x \in S : Score(x) \in Nat
      BY <1>5, ScoreType
    <2> HIDE DEF S
    <2> QED BY <1>5, <1>6, <1>7, <2>1, <2>2
  <1>9. PICK a, b, c : /\ a = [x \in S |-> Score(x)]
                       /\ b = [x \in S |-> IF byId THEN 0 ELSE energy[x]]
                       /\ c = [x \in S |-> IF byId THEN x ELSE Position(x)]
    OBVIOUS
  <1>10. \A x, y \in S : LexBefore(a, b, c, y, x) <=> RanksBefore(y, x)
    <2> SUFFICES ASSUME NEW x \in S, NEW y \in S
                 PROVE  LexBefore(a, b, c, y, x) <=> RanksBefore(y, x)
      OBVIOUS
    <2>1. CASE byId
      <3>1. /\ a[x] = Score(x) /\ a[y] = Score(y) /\ b[x] = 0 /\ b[y] = 0
            /\ c[x] = x /\ c[y] = y
        BY <1>9, <2>1
      <3> QED BY <2>1, <3>1 DEF LexBefore, RanksBefore
    <2>2. CASE ~ byId
      <3>1. /\ a[x] = Score(x) /\ a[y] = Score(y) /\ b[x] = energy[x] /\ b[y] = energy[y]
            /\ c[x] = Position(x) /\ c[y] = Position(y)
        BY <1>9, <2>2
      <3> QED BY <2>2, <3>1 DEF LexBefore, RanksBefore
    <2> QED BY <2>1, <2>2
  <1>11. Keyed(S, a, b, c)
    <2>1. ASSUME NEW x \in S, NEW y \in S, x # y PROVE c[x] # c[y]
      BY <1>7, <1>9, <2>1
    <2>2. a \in [S -> Int] /\ b \in [S -> Int] /\ c \in [S -> Int]
      <3> HIDE DEF S, byId
      <3> QED BY <1>8, <1>9
    <2> HIDE DEF S
    <2> QED BY <1>6, <2>1, <2>2 DEF Keyed
  <1> HIDE DEF S, byId
  <1>12. \A x \in S : {y \in S : LexBefore(a, b, c, y, x)} = {y \in S : RanksBefore(y, x)}
    BY <1>10
  <1>13. ASSUME NEW k \in 1..Cardinality(S),
                \E x \in S : Cardinality({y \in S : LexBefore(a, b, c, y, x)}) = k - 1
         PROVE  f[k] \in S /\ Cardinality({y \in S : LexBefore(a, b, c, y, f[k])}) = k - 1
    <2>1. \E x \in S : Cardinality({y \in S : RanksBefore(y, x)}) = k - 1
      BY <1>12, <1>13
    <2>2. E(k) \in S /\ Cardinality({y \in S : RanksBefore(y, E(k))}) = k - 1
      BY <2>1, Zenon
    <2> HIDE DEF E
    <2> QED BY <1>3, <1>12, <2>2
  <1> HIDE DEF E
  <1>14. InLexOrder(f, S, a, b, c)
    BY <1>3, <1>4, <1>13 DEF InLexOrder
  <1>15. Lists(f, S, a, b, c)
    BY <1>11, <1>14, LexSorts
  <1>16. b \in [S -> Int]
    BY <1>11 DEF Keyed
  <1> QED BY <1>2, <1>9, <1>15, <1>16 DEF S

(***************************************************************************)
(* The types of the call's own state, and what it has not begun.           *)
(***************************************************************************)
\* The stages of a call before anything is activated.
Early == {"idle", "recall", "seeds", "links", "prefetch"}

\* Neither returned nor energised.
Dead == {"none", "compressed"}

\* The variables of the call hold what they should, stage by stage.
RetTypes ==
    /\ query \in Queries
    /\ fused \in [Ids -> Nat] /\ energy \in [Ids -> Nat]
    /\ copy \in [Ids -> Kinds] /\ known \in [Ids -> Seq(Link)] /\ pending \subseteq Ids
    /\ trace \in [Ids -> Seq(TraceStep)]
    /\ reached \in Seq(Ids) /\ frontier \in Seq(Ids) /\ hop \in Nat
    /\ rpc \in Early \cup {"spread", "extra", "rank", "done"}
    /\ rpc \in Early => reached = <<>> /\ frontier = <<>> /\ hop = 1
    /\ rpc # "done" => results = <<>> /\ paths = {}

\* They do at the start.
LEMMA RetTypesInit == Init => RetTypes
  <1> SUFFICES ASSUME Init PROVE RetTypes
    OBVIOUS
  <1>1. RetrieveInit
    BY DEF Init
  <1>2. (CHOOSE q \in Queries : TRUE) \in Queries
    BY RetrievalAssumption
  <1>3. query \in Queries /\ rpc \in {"recall", "idle"}
    BY <1>1, <1>2 DEF RetrieveInit
  <1> QED BY <1>1, <1>3 DEF RetrieveInit, RetTypes, Early, Kinds

\* Only a step of the call changes its state.
LEMMA RetTypesKeep ==
    ASSUME RetTypes, UNCHANGED retrieveVars
    PROVE  RetTypes'
  BY DEF RetTypes, retrieveVars

\* Units loaded have the kinds they have in the store.
LEMMA LoadUnitsType ==
    ASSUME StoreInv, NEW S
    PROVE  LoadUnits(S) \in [Ids -> Kinds]
  BY DEF StoreInv, KindsInv, LoadUnits, Kinds

\* The edges of one memory are loaded, of a seed or a neighbour.
LEMMA RowEffect ==
    ASSUME RetrieveLinks \/ RetrievePrefetch
    PROVE  /\ rpc \in {"links", "prefetch"} /\ rpc' = rpc
           /\ query' = query /\ fused' = fused /\ copy' = copy /\ hop' = hop
           /\ frontier' = frontier /\ energy' = energy /\ trace' = trace
           /\ reached' = reached /\ results' = results /\ paths' = paths
           /\ \E x \in pending : known' = [known EXCEPT ![x] = row[x]] /\ pending' = pending \ {x}
  BY DEF RetrieveLinks, RetrievePrefetch, LoadRow

\* The nodes of energise and of a hop, in order.
LEMMA WeighedNodes ==
    ASSUME NEW S \in SUBSET Ids, NEW w \in [Ids -> Nat]
    PROVE  Listing(Descending(S, w), S) /\ Descending(S, w) \in Seq(Ids)
  <1>1. IsFiniteSet(S) /\ S \subseteq Int /\ \A x \in S : w[x] \in Int
    BY IdsAreNats
  <1>2. Listing(Descending(S, w), S)
    BY <1>1, DescendingLists
  <1>3. Seq(S) \subseteq Seq(Ids)
    OBVIOUS
  <1> QED BY <1>2, <1>3 DEF Listing

\* The trace of a seed.
SeedTrace(x) == <<[from |-> 0, to |-> x]>>

\* It has one step.
LEMMA SeedTraceType ==
    ASSUME NEW x \in Ids
    PROVE  /\ SeedTrace(x) \in Seq(TraceStep) /\ Len(SeedTrace(x)) = 1
           /\ SeedTrace(x)[1].from = 0 /\ SeedTrace(x)[1].to = x
  <1>1. PICK e : e = [from |-> 0, to |-> x]
    OBVIOUS
  <1>2. e \in TraceStep /\ e.from = 0 /\ e.to = x
    BY <1>1 DEF TraceStep
  <1>3. SeedTrace(x) = <<e>>
    BY <1>1 DEF SeedTrace
  <1>4. <<e>> \in Seq(TraceStep) /\ Len(<<e>>) = 1 /\ <<e>>[1] = e
    BY <1>2
  <1> QED BY <1>2, <1>3, <1>4

\* The seeds with enough energy.
Started == {x \in Seeds : SeedEnergy(x) >= MinEnergy}

\* What starting the spreading changes.
LEMMA EnergiseEffect ==
    ASSUME RetTypes, RetrieveEnergise
    PROVE  /\ rpc = "prefetch" /\ rpc' = "spread" /\ pending' = pending
           /\ query' = query /\ fused' = fused /\ copy' = copy /\ known' = known /\ hop' = hop
           /\ results' = results /\ paths' = paths
           /\ energy' = [x \in Ids |-> IF x \in Started THEN SeedEnergy(x) ELSE 0]
           /\ trace' = [x \in Ids |-> IF x \in Started THEN SeedTrace(x) ELSE <<>>]
           /\ reached' = Descending(Started, fused) /\ frontier' = Descending(Started, fused)
           /\ Started \in SUBSET Ids
           /\ \A x \in Started : SeedEnergy(x) \in Nat /\ SeedEnergy(x) > 0
           /\ Listing(frontier', Started) /\ frontier' \in Seq(Ids)
  <1>1. /\ rpc = "prefetch" /\ rpc' = "spread" /\ pending' = pending
        /\ query' = query /\ fused' = fused /\ copy' = copy /\ known' = known /\ hop' = hop
        /\ results' = results /\ paths' = paths
        /\ energy' = [x \in Ids |-> IF x \in Started THEN SeedEnergy(x) ELSE 0]
        /\ trace' = [x \in Ids |-> IF x \in Started THEN SeedTrace(x) ELSE <<>>]
        /\ reached' = Descending(Started, fused) /\ frontier' = Descending(Started, fused)
    BY DEF RetrieveEnergise, Started, SeedTrace
  <1>2. Started \in SUBSET Ids /\ fused \in [Ids -> Nat]
    BY DEF Started, Seeds, RetTypes
  <1>3. \A x \in Started : SeedEnergy(x) \in Nat
    BY <1>2, SeedEnergyType DEF Started, Seeds
  <1>4. \A x \in Started : SeedEnergy(x) > 0
    BY <1>3 DEF Started, MinEnergy
  <1>5. Listing(frontier', Started) /\ frontier' \in Seq(Ids)
    BY <1>1, <1>2, WeighedNodes
  <1> QED BY <1>1, <1>2, <1>3, <1>4, <1>5

\* What a round has found.
Found == {x \in Ids : Round.e[x] > 0}

\* What a round of spreading changes.
LEMMA HopEffect ==
    ASSUME RetTypes, SpreadHop
    PROVE  /\ rpc = "spread" /\ rpc' = rpc /\ hop <= query.hops /\ hop' = hop + 1
           /\ query' = query /\ fused' = fused /\ copy' = copy /\ known' = known
           /\ pending' = pending
           /\ results' = results /\ paths' = paths
           /\ energy' = [x \in Ids |-> IF x \in Found THEN Round.e[x] ELSE energy[x]]
           /\ trace' = [x \in Ids |-> IF x \in Found THEN Round.t[x] ELSE trace[x]]
           /\ reached' = reached \o frontier'
           /\ Found \in SUBSET Ids /\ Round \in Rounds
           /\ Listing(frontier', Found) /\ frontier' \in Seq(Ids)
  <1>1. /\ rpc = "spread" /\ rpc' = rpc /\ hop <= query.hops /\ hop' = hop + 1
        /\ query' = query /\ fused' = fused /\ copy' = copy /\ known' = known
        /\ pending' = pending
        /\ results' = results /\ paths' = paths
        /\ energy' = [x \in Ids |-> IF Round.e[x] > 0 THEN Round.e[x] ELSE energy[x]]
        /\ trace' = [x \in Ids |-> IF Round.e[x] > 0 THEN Round.t[x] ELSE trace[x]]
        /\ reached' = reached \o Descending(Found, Round.e)
        /\ frontier' = Descending(Found, Round.e)
    BY DEF SpreadHop, Found
  <1>2. Round \in Rounds
    <2>1. SpreadTypes
      BY DEF SpreadTypes, RetTypes
    <2> QED BY <2>1, RoundFinds
  <1>3. Round.e \in [Ids -> Nat] /\ Found \in SUBSET Ids
    BY <1>2 DEF Rounds, Found
  <1>4. Listing(frontier', Found) /\ frontier' \in Seq(Ids)
    BY <1>1, <1>3, WeighedNodes
  <1>5. \A x \in Ids : x \in Found <=> Round.e[x] > 0
    BY DEF Found
  <1> QED BY <1>1, <1>2, <1>3, <1>4, <1>5

\* The neighbours of the seeds are ids.
LEMMA NeighboursType ==
    ASSUME RetTypes
    PROVE  Neighbours \subseteq Ids
  <1> SUFFICES ASSUME NEW x \in Seeds, NEW y \in Targets(known[x]) PROVE y \in Ids
    BY DEF Neighbours
  <1>1. x \in Ids /\ known[x] \in Seq(Link)
    BY DEF Seeds, RetTypes
  <1>2. PICK i \in DOMAIN known[x] : y = known[x][i].to
    BY DEF Targets
  <1>3. known[x][i] \in Link
    BY <1>1, <1>2
  <1> QED BY <1>2, <1>3, LinkFields

\* Every step of the call keeps the types.
LEMMA RetTypesStep ==
    ASSUME RetTypes, StoreInv, RetrieveStep
    PROVE  RetTypes'
  <1>1. CASE RetrieveRecall
    <2>1. fused' \in [Ids -> Nat]
      <3>1. RrfFuse \in [Ids -> Nat]
        BY RrfType DEF RetTypes, StoreInv
      <3>2. Fallback \in [Ids -> Nat]
        BY DEF Fallback
      <3> QED BY <1>1, <3>1, <3>2 DEF RetrieveRecall
    <2> QED BY <1>1, <2>1 DEF RetrieveRecall, RetTypes, Early
  <1>2. CASE RetrieveLoadSeeds
    <2>1. copy' \in [Ids -> Kinds] /\ fused' \in [Ids -> Nat] /\ pending' \subseteq Ids
      BY <1>2, LoadUnitsType DEF RetrieveLoadSeeds, RetTypes
    <2> QED BY <1>2, <2>1 DEF RetrieveLoadSeeds, RetTypes, Early
  <1>3. CASE RetrieveLinks \/ RetrievePrefetch
    <2>1. known' \in [Ids -> Seq(Link)] /\ pending' \subseteq Ids
      BY <1>3, RowEffect DEF StoreInv, RetTypes
    <2> QED BY <1>3, <2>1, RowEffect DEF RetTypes, Early
  <1>4. CASE RetrieveNeighbours
    <2>1. copy' \in [Ids -> Kinds] /\ pending' \subseteq Ids
      BY <1>4, LoadUnitsType, NeighboursType DEF RetrieveNeighbours, RetTypes
    <2> QED BY <1>4, <2>1 DEF RetrieveNeighbours, RetTypes, Early
  <1>5. CASE RetrieveEnergise
    <2>1. energy' \in [Ids -> Nat]
      BY <1>5, EnergiseEffect
    <2>2. trace' \in [Ids -> Seq(TraceStep)]
      <3>1. trace' = [x \in Ids |-> IF x \in Started THEN SeedTrace(x) ELSE <<>>]
        BY <1>5, EnergiseEffect
      <3>2. \A x \in Ids : SeedTrace(x) \in Seq(TraceStep)
        BY SeedTraceType
      <3>3. <<>> \in Seq(TraceStep)
        OBVIOUS
      <3> QED BY <3>1, <3>2, <3>3
    <2>3. reached' = frontier' /\ frontier' \in Seq(Ids)
      BY <1>5, EnergiseEffect
    <2> QED BY <1>5, <2>1, <2>2, <2>3, EnergiseEffect DEF RetTypes, Early
  <1>6. CASE SpreadHop
    <2>1. energy' \in [Ids -> Nat] /\ trace' \in [Ids -> Seq(TraceStep)]
      BY <1>6, HopEffect DEF RetTypes, Rounds
    <2>2. frontier' \in Seq(Ids) /\ reached' = reached \o frontier'
      BY <1>6, HopEffect
    <2>3. reached' \in Seq(Ids)
      BY <2>2 DEF RetTypes
    <2>4. hop' \in Nat
      <3>1. hop' = hop + 1
        BY <1>6, HopEffect
      <3>2. hop \in Nat
        BY DEF RetTypes
      <3> QED BY <3>1, <3>2
    <2> QED BY <1>6, <2>1, <2>2, <2>3, <2>4, HopEffect DEF RetTypes, Early
  <1>7. CASE SpreadStop
    BY <1>7 DEF SpreadStop, RetTypes, Early
  <1>8. CASE RetrieveExtra
    <2>1. copy' \in [Ids -> Kinds]
      BY <1>8, LoadUnitsType DEF RetrieveExtra, RetTypes
    <2> QED BY <1>8, <2>1 DEF RetrieveExtra, RetTypes, Early
  <1>9. CASE RetrieveRank
    BY <1>9, Zenon DEF RetrieveRank, RetTypes, Early
  <1> QED BY <1>1, <1>2, <1>3, <1>4, <1>5, <1>6, <1>7, <1>8, <1>9 DEF RetrieveStep

(***************************************************************************)
(* Spreading activation.                                                   *)
(***************************************************************************)
\* t leads from a seed over activated nodes, none of them twice, to x.
GoodTrace(x, t) ==
    /\ Len(t) \in 1..hop /\ t[Len(t)].to = x
    /\ t[1].from = 0 /\ t[1].to \in Seeds
    /\ \A i \in 2..Len(t) : t[i].from = t[i - 1].to /\ t[i].to \in Targets(TopLinks(t[i].from))
    /\ \A i \in 1..Len(t) : t[i].to \in Activated
    /\ \A i, j \in 1..Len(t) : i # j => t[i].to # t[j].to

\* What x sends has activated its target no later than one hop after x.
PassedOn(x) ==
    \A k \in 1..Len(TopLinks(x)) :
        Propagated(energy[x], TopLinks(x)[k], Len(trace[x])) >= MinEnergy
          => /\ TopLinks(x)[k].to \in Activated
             /\ Len(trace[TopLinks(x)[k].to]) <= Len(trace[x]) + 1

\* Activation, hop by hop: who is activated, along which trace, and by when.
SpreadInv ==
    /\ Activated = {x \in Ids : energy[x] > 0}
    /\ hop >= 1 /\ hop <= query.hops + 1
    /\ \A x \in Activated : GoodTrace(x, trace[x])
    /\ \A i \in 1..Len(frontier) : frontier[i] \in Activated /\ Len(trace[frontier[i]]) = hop
    /\ \A x \in Activated : Len(trace[x]) = hop => \E i \in 1..Len(frontier) : frontier[i] = x
    /\ \A i, j \in 1..Len(frontier) : i # j => frontier[i] # frontier[j]
    /\ \A x \in Activated : Len(trace[x]) < hop => PassedOn(x)
    /\ rpc \in {"extra", "rank", "done"} => hop > query.hops \/ frontier = <<>>

\* As long as nothing is activated.
LEMMA SpreadInvEarly ==
    ASSUME RetTypes', rpc' \in Early, energy' = energy, {x \in Ids : energy[x] > 0} = {}
    PROVE  SpreadInv'
  <1>1. /\ reached' = <<>> /\ frontier' = <<>> /\ hop' = 1 /\ query' \in Queries
        /\ rpc' \notin {"extra", "rank", "done"}
    BY DEF RetTypes, Early
  <1>2. Activated' = {}
    BY <1>1 DEF Activated
  <1>3. query'.hops \in Nat
    BY <1>1, RetrievalAssumption
  <1>4. hop' >= 1 /\ hop' <= query'.hops + 1
    BY <1>1, <1>3
  <1>5. Len(frontier') = 0
    BY <1>1
  <1> QED BY <1>1, <1>2, <1>4, <1>5 DEF SpreadInv

\* The other calls and the end of the call leave what was spread alone.
LEMMA SpreadInvKeep ==
    ASSUME SpreadInv,
           query' = query /\ fused' = fused /\ known' = known /\ hop' = hop
             /\ frontier' = frontier /\ energy' = energy /\ trace' = trace /\ reached' = reached,
           rpc' = rpc \/ rpc \in {"extra", "rank"} \/ (hop > query.hops \/ frontier = <<>>)
    PROVE  SpreadInv'
  <1>1. Activated' = Activated /\ Seeds' = Seeds
    BY DEF Activated, Seeds
  <1>2. \A x : TopLinks(x)' = TopLinks(x)
    BY DEF TopLinks
  <1>3. \A x, t : GoodTrace(x, t)' = GoodTrace(x, t)
    BY <1>1, <1>2 DEF GoodTrace
  <1>4. \A x : PassedOn(x)' = PassedOn(x)
    BY <1>1, <1>2 DEF PassedOn
  <1> QED BY <1>1, <1>3, <1>4 DEF SpreadInv

\* Starting establishes it.
LEMMA SpreadInvEnergise ==
    ASSUME RetTypes, RetrieveEnergise
    PROVE  SpreadInv'
  <1>1. /\ rpc' = "spread" /\ query' = query /\ fused' = fused /\ known' = known /\ hop' = hop
        /\ energy' = [x \in Ids |-> IF x \in Started THEN SeedEnergy(x) ELSE 0]
        /\ trace' = [x \in Ids |-> IF x \in Started THEN SeedTrace(x) ELSE <<>>]
        /\ reached' = frontier' /\ Started \in SUBSET Ids
        /\ \A x \in Started : SeedEnergy(x) \in Nat /\ SeedEnergy(x) > 0
        /\ Listing(frontier', Started) /\ rpc = "prefetch"
    BY EnergiseEffect
  <1>2. hop = 1 /\ query \in Queries /\ Seeds' = Seeds
    BY <1>1 DEF RetTypes, Early, Seeds
  <1>3. hop' >= 1 /\ hop' <= query'.hops + 1
    BY <1>1, <1>2, RetrievalAssumption
  <1>4. Activated' = Started
    BY <1>1 DEF Activated, Listing
  <1>5. Started = {x \in Ids : energy'[x] > 0}
    BY <1>1
  <1>6. ASSUME NEW x \in Started
        PROVE  GoodTrace(x, trace[x])' /\ Len(trace'[x]) = hop'
    <2>1. PICK t : t = SeedTrace(x)
      OBVIOUS
    <2>2. trace'[x] = t /\ x \in Ids
      BY <1>1, <2>1
    <2>3. Len(t) = 1 /\ t[1].from = 0 /\ t[1].to = x
      BY <2>1, <2>2, SeedTraceType
    <2>4. x \in Seeds
      BY DEF Started
    <2>5. 1..Len(t) = {1} /\ 2..Len(t) = {} /\ Len(t) \in 1..hop'
      BY <1>1, <1>2, <2>3
    <2>6. GoodTrace(x, t)'
      BY <1>2, <1>4, <2>1, <2>3, <2>4, <2>5 DEF GoodTrace
    <2> QED BY <1>1, <1>2, <2>2, <2>3, <2>6
  <1>7. /\ \A i \in 1..Len(frontier') : frontier'[i] \in Started
        /\ \A i, j \in 1..Len(frontier') : i # j => frontier'[i] # frontier'[j]
        /\ \A x \in Started : \E i \in 1..Len(frontier') : frontier'[i] = x
    BY <1>1 DEF Listing
  <1>8. \A x \in Started : ~ (Len(trace'[x]) < hop')
    <2>1. ~ (hop' < hop')
      BY <1>1, <1>2
    <2> QED BY <1>6, <2>1
  <1> QED BY <1>1, <1>3, <1>4, <1>5, <1>6, <1>7, <1>8 DEF SpreadInv

\* A good trace to a node of the frontier, one step longer.
LEMMA TraceGrows ==
    ASSUME NEW n \in Nat, NEW t \in Seq(TraceStep), Len(t) = n, n > 0,
           NEW f, NEW x, NEW u, u = Append(t, [from |-> f, to |-> x])
    PROVE  /\ Len(u) = n + 1 /\ u[n + 1].from = f /\ u[n + 1].to = x
           /\ \A i \in 1..n : u[i] = t[i]
  OBVIOUS

\* A round keeps it: new nodes with traces one step longer, and the frontier
\* has passed its energy on.
LEMMA SpreadInvHop ==
    ASSUME RetTypes, SpreadInv, SpreadHop
    PROVE  SpreadInv'
  <1>1. /\ rpc = "spread" /\ rpc' = rpc /\ hop <= query.hops /\ hop' = hop + 1
        /\ query' = query /\ fused' = fused /\ known' = known
        /\ energy' = [x \in Ids |-> IF x \in Found THEN Round.e[x] ELSE energy[x]]
        /\ trace' = [x \in Ids |-> IF x \in Found THEN Round.t[x] ELSE trace[x]]
        /\ reached' = reached \o frontier' /\ Found \in SUBSET Ids
        /\ Round \in Rounds /\ Listing(frontier', Found) /\ frontier' \in Seq(Ids)
    BY HopEffect
  <1>2. /\ SpreadTypes /\ hop \in Nat /\ query.hops \in Nat
        /\ reached \in Seq(Ids) /\ trace \in [Ids -> Seq(TraceStep)] /\ energy \in [Ids -> Nat]
    BY RetrievalAssumption DEF SpreadTypes, RetTypes
  <1>3. Seeds' = Seeds /\ \A x : TopLinks(x)' = TopLinks(x)
    BY <1>1 DEF Seeds, TopLinks
  <1>4. \A x \in Found : Round.e[x] > 0 /\ Round.e[x] \in Nat /\ energy[x] = 0 /\ ReachedBy(x, Round.t[x])
    BY <1>1 DEF Rounds, Found
  <1>5. Activated = {x \in Ids : energy[x] > 0} /\ Activated \cap Found = {}
    BY <1>2, <1>4 DEF SpreadInv
  <1>6. Activated' = Activated \cup Found
    <2>1. Activated' = ToSet(reached \o frontier') /\ Activated = ToSet(reached)
      BY <1>1 DEF Activated, ToSet
    <2>2. Found = ToSet(frontier')
      BY <1>1, SMTT(30) DEF Listing, ToSet
    <2> QED BY <1>1, <1>2, <2>1, <2>2, JoinedSet
  <1>7. Activated' = {x \in Ids : energy'[x] > 0}
    BY <1>1, <1>4, <1>5, <1>6
  <1>8. \A x \in Activated : x \in Ids /\ trace'[x] = trace[x] /\ energy'[x] = energy[x]
    BY <1>1, <1>5
  <1>9. \A x \in Activated : Len(trace[x]) \in 1..hop
    BY DEF SpreadInv, GoodTrace
  <1>10. ASSUME NEW x \in Activated PROVE GoodTrace(x, trace[x])'
    <2>1. PICK t : t = trace[x] /\ t = trace'[x]
      BY <1>8
    <2>2. GoodTrace(x, t)
      BY <2>1 DEF SpreadInv
    <2>3. Len(t) \in 1..hop'
      BY <1>1, <1>2, <2>2 DEF GoodTrace
    <2>4. GoodTrace(x, t)'
      BY <1>3, <1>6, <2>1, <2>2, <2>3 DEF GoodTrace
    <2> QED BY <2>1, <2>4
  <1>11. ASSUME NEW x \in Found PROVE GoodTrace(x, trace[x])' /\ Len(trace'[x]) = hop'
    <2>1. PICK u : u = trace'[x] /\ u = Round.t[x]
      BY <1>1
    <2>2. PICK i \in 1..Len(frontier) :
            /\ x \in Targets(TopLinks(frontier[i]))
            /\ u = Append(trace[frontier[i]], [from |-> frontier[i], to |-> x])
      BY <1>4, <2>1 DEF ReachedBy
    <2>3. PICK f, t : f = frontier[i] /\ t = trace[f]
      OBVIOUS
    <2>4. f \in Activated /\ Len(t) = hop /\ GoodTrace(f, t)
      BY <2>3 DEF SpreadInv
    <2>5. t \in Seq(TraceStep) /\ hop > 0
      BY <1>2, <1>8, <2>3, <2>4 DEF SpreadInv
    <2>6. /\ Len(u) = hop + 1 /\ u[hop + 1].from = f /\ u[hop + 1].to = x
          /\ \A j \in 1..hop : u[j] = t[j]
      BY <1>2, <2>2, <2>3, <2>4, <2>5, TraceGrows
    <2>7. 1 \in 1..hop /\ hop \in 1..hop /\ u[1] = t[1] /\ u[hop] = t[hop]
      <3>1. 1 \in 1..hop /\ hop \in 1..hop
        BY <1>2, <2>5
      <3> QED BY <2>6, <3>1
    <2>8. u[1].from = 0 /\ u[1].to \in Seeds /\ u[hop].to = f
      BY <2>4, <2>7 DEF GoodTrace
    <2>9. ASSUME NEW j \in 2..(hop + 1)
          PROVE  u[j].from = u[j - 1].to /\ u[j].to \in Targets(TopLinks(u[j].from))
      <3>1. CASE j = hop + 1
        <4>1. j - 1 = hop
          BY <1>2, <3>1
        <4> QED BY <2>2, <2>3, <2>6, <2>8, <3>1, <4>1
      <3>2. CASE j # hop + 1
        <4>1. j \in 2..hop /\ j \in 1..hop /\ j - 1 \in 1..hop
          BY <1>2, <3>2
        <4>2. u[j] = t[j] /\ u[j - 1] = t[j - 1]
          BY <2>6, <4>1
        <4> QED BY <2>4, <4>1, <4>2 DEF GoodTrace
      <3> QED BY <3>1, <3>2
    <2>10. \A j \in 1..hop : u[j].to \in Activated /\ u[j].to # x
      BY <1>5, <2>4, <2>6 DEF GoodTrace
    <2>11. \A j \in 1..(hop + 1) : j \in 1..hop \/ j = hop + 1
      BY <1>2
    <2>12. \A j \in 1..(hop + 1) : u[j].to \in Activated'
      BY <1>6, <2>6, <2>10, <2>11
    <2>13. \A j, k \in 1..(hop + 1) : j # k => u[j].to # u[k].to
      <3>1. \A j, k \in 1..hop : j # k => u[j].to # u[k].to
        BY <2>4, <2>6 DEF GoodTrace
      <3> QED BY <2>6, <2>10, <2>11, <3>1
    <2>14. Len(u) = hop' /\ Len(u) \in 1..hop' /\ hop + 1 = hop'
      BY <1>1, <1>2, <2>6
    <2>15. GoodTrace(x, u)'
      BY <1>3, <2>1, <2>6, <2>8, <2>9, <2>12, <2>13, <2>14 DEF GoodTrace
    <2> QED BY <2>1, <2>14, <2>15
  <1>12. ASSUME NEW x \in Activated PROVE PassedOn(x)'
    <2>1. PICK e, n : e = energy[x] /\ n = Len(trace[x]) /\ e = energy'[x] /\ n = Len(trace'[x])
      BY <1>8
    <2>2. n \in 1..hop
      BY <1>9, <2>1
    <2> SUFFICES ASSUME NEW k \in 1..Len(TopLinks(x)),
                        Propagated(e, TopLinks(x)[k], n) >= MinEnergy
                 PROVE  /\ TopLinks(x)[k].to \in Activated'
                        /\ Len(trace'[TopLinks(x)[k].to]) <= n + 1
      BY <1>3, <2>1 DEF PassedOn
    <2>3. PICK y : y = TopLinks(x)[k].to
      OBVIOUS
    <2>4. CASE n < hop
      <3>1. PassedOn(x)
        BY <2>1, <2>4 DEF SpreadInv
      <3>2. y \in Activated /\ Len(trace[y]) <= n + 1
        BY <2>1, <2>3, <3>1 DEF PassedOn
      <3> QED BY <1>6, <1>8, <2>3, <3>2
    <2>5. CASE n = hop
      <3>1. PICK i \in 1..Len(frontier) : frontier[i] = x
        BY <2>1, <2>5 DEF SpreadInv
      <3>2. /\ Sent(x)[k].to = y /\ y \in Ids /\ Sent(x)[k].e = Propagated(e, TopLinks(x)[k], hop)
            /\ Sent(x)[k].e \in Nat
        BY <1>2, <1>8, <2>1, <2>3, SentType
      <3>3. CASE energy[y] > 0
        <4>1. y \in Activated
          BY <1>5, <3>2, <3>3
        <4>2. Len(trace'[y]) \in 1..hop
          BY <1>8, <1>9, <4>1
        <4>3. Len(trace'[y]) <= n + 1
          BY <1>2, <2>5, <4>2
        <4> QED BY <1>6, <2>3, <4>1, <4>3
      <3>4. CASE ~ (energy[y] > 0)
        <4>1. energy[y] = 0
          BY <1>2, <3>2, <3>4
        <4>2. Counted(Sent(x)[k])
          BY <2>5, <3>2, <4>1 DEF Counted
        <4>3. Round.e[y] >= Sent(x)[k].e
          BY <1>2, <3>1, <3>2, <4>2, RoundFinds
        <4>4. Round.e[y] > 0
          <5>1. Round.e[y] \in Nat
            BY <1>1, <3>2 DEF Rounds
          <5> QED BY <2>5, <3>2, <4>3, <5>1 DEF MinEnergy
        <4>5. y \in Found
          BY <3>2, <4>4 DEF Found
        <4>6. Len(trace'[y]) = hop + 1
          BY <1>1, <1>11, <4>5
        <4> QED BY <1>2, <1>6, <2>3, <2>5, <4>5, <4>6
      <3> QED BY <3>3, <3>4
    <2> QED BY <1>2, <2>2, <2>4, <2>5
  <1>13. /\ \A i \in 1..Len(frontier') : frontier'[i] \in Activated' /\ Len(trace'[frontier'[i]]) = hop'
         /\ \A i, j \in 1..Len(frontier') : i # j => frontier'[i] # frontier'[j]
    BY <1>1, <1>6, <1>11 DEF Listing
  <1>14. \A x \in Activated : Len(trace'[x]) < hop' /\ Len(trace'[x]) # hop'
    <2>1. \A n \in 1..hop : n < hop' /\ n # hop'
      BY <1>1, <1>2
    <2> QED BY <1>8, <1>9, <2>1
  <1>15. \A x \in Activated' : Len(trace'[x]) = hop' => \E i \in 1..Len(frontier') : frontier'[i] = x
    BY <1>1, <1>6, <1>14 DEF Listing
  <1>16. \A x \in Activated' : Len(trace'[x]) < hop' => PassedOn(x)'
    <2>1. \A x \in Found : ~ (Len(trace'[x]) < hop')
      <3>1. ~ (hop' < hop')
        BY <1>1, <1>2
      <3> QED BY <1>11, <3>1
    <2> QED BY <1>6, <1>12, <2>1
  <1>17. hop' >= 1 /\ hop' <= query'.hops + 1
    BY <1>1, <1>2
  <1>18. \A x \in Activated' : GoodTrace(x, trace[x])'
    BY <1>6, <1>10, <1>11
  <1> QED BY <1>1, <1>7, <1>13, <1>15, <1>16, <1>17, <1>18 DEF SpreadInv

(***************************************************************************)
(* Merging.                                                                *)
(***************************************************************************)
\* In a sum any element may be added last.
LEMMA SumsAdd ==
    ASSUME NEW S, IsFiniteSet(S), NEW w \in [S -> Nat], NEW h, Sums(h, S, w)
    PROVE  \A U \in SUBSET S : \A y \in U : h[U] = w[y] + h[U \ {y}]
  <1> DEFINE N == {n \in Nat : \A U \in SUBSET S : Cardinality(U) = n =>
                                  \A y \in U : h[U] = w[y] + h[U \ {y}]}
  <1>1. \A U \in SUBSET S : IsFiniteSet(U) /\ Cardinality(U) \in Nat /\ h[U] \in Nat
    BY FS_Subset, FS_CardinalityType DEF Sums
  <1>2. 0 \in N
    <2>1. \A U \in SUBSET S : Cardinality(U) = 0 => U = {}
      BY <1>1, FS_EmptySet
    <2> QED BY <2>1
  <1>3. ASSUME NEW n \in Nat, n \in N PROVE n + 1 \in N
    <2>0. n + 1 \in Nat
      OBVIOUS
    <2> SUFFICES ASSUME NEW U \in SUBSET S, Cardinality(U) = n + 1, NEW y \in U
                 PROVE  h[U] = w[y] + h[U \ {y}]
      BY <2>0
    <2>1. PICK z \in U : z = Some(U)
      BY DEF Some
    <2>2. h[U] = w[z] + h[U \ {z}]
      BY <2>1 DEF Sums
    <2>3. CASE y = z
      BY <2>2, <2>3
    <2>4. CASE y # z
      <3>1. PICK A, B, C : A = U \ {z} /\ B = U \ {y} /\ C = (U \ {z}) \ {y}
        OBVIOUS
      <3>2. A \in SUBSET S /\ B \in SUBSET S /\ C \in SUBSET S
            /\ y \in A /\ z \in B /\ C = A \ {y} /\ C = B \ {z}
        BY <2>4, <3>1
      <3>3. Cardinality(A) = (n + 1) - 1
        BY <1>1, <3>1, FS_RemoveElement
      <3>4. Cardinality(B) = (n + 1) - 1
        BY <1>1, <3>1, FS_RemoveElement
      <3>5. Cardinality(A) = n /\ Cardinality(B) = n
        BY <3>3, <3>4
      <3>6. h[A] = w[y] + h[C]
        BY <1>3, <3>2, <3>5
      <3>7. h[B] = w[z] + h[C]
        BY <1>3, <3>2, <3>5
      <3>8. h[U] \in Nat /\ h[A] \in Nat /\ h[B] \in Nat /\ h[C] \in Nat /\ w[y] \in Nat /\ w[z] \in Nat
        BY <1>1, <3>2
      <3> QED BY <2>2, <3>1, <3>6, <3>7, <3>8
    <2> QED BY <2>3, <2>4
  <1> HIDE DEF N
  <1>4. Nat \subseteq N
    BY <1>2, <1>3, NatInduct
  <1> QED BY <1>1, <1>4 DEF N

\* The edges of the frontier that carry energy to x, and how much.
Inlets(x) ==
    {p \in ToSet(frontier) \X (1..FanOut) :
        /\ p[2] \in 1..Len(TopLinks(p[1])) /\ TopLinks(p[1])[p[2]].to = x
        /\ Propagated(energy[p[1]], TopLinks(p[1])[p[2]], hop) >= MinEnergy}

\* The energy each of them carries.
Flow(x) == [p \in Inlets(x) |-> Propagated(energy[p[1]], TopLinks(p[1])[p[2]], hop)]

\* Those that come before edge k + 1 of the i-th node.
Before(x, i, k) ==
    {p \in Inlets(x) : \E j \in 1..Len(frontier) :
        p[1] = frontier[j] /\ (j < i \/ (j = i /\ p[2] <= k))}

\* No node is in the frontier twice.
FrontierOnce == \A i, j \in 1..Len(frontier) : i # j => frontier[i] # frontier[j]

\* These are finitely many naturals.
LEMMA FlowType ==
    ASSUME SpreadTypes, NEW x \in Ids
    PROVE  IsFiniteSet(Inlets(x)) /\ Flow(x) \in [Inlets(x) -> Nat]
  <1>1. ToSet(frontier) \subseteq Ids
    BY DEF ToSet, SpreadTypes
  <1>2. IsFiniteSet(ToSet(frontier)) /\ IsFiniteSet(1..FanOut)
    BY <1>1, IdsAreNats, CountTo, RetrievalAssumption
  <1>3. IsFiniteSet(ToSet(frontier) \X (1..FanOut))
    BY <1>2, FS_Product
  <1>4. IsFiniteSet(Inlets(x))
    <2>1. Inlets(x) \subseteq ToSet(frontier) \X (1..FanOut)
      BY DEF Inlets
    <2> QED BY <1>3, <2>1, FS_Subset
  <1>5. ASSUME NEW p \in Inlets(x)
        PROVE  Propagated(energy[p[1]], TopLinks(p[1])[p[2]], hop) \in Nat
    <2>1. PICK y, k : y = p[1] /\ k = p[2]
      OBVIOUS
    <2>2. y \in Ids /\ k \in 1..Len(TopLinks(y))
      BY <1>1, <2>1 DEF Inlets
    <2>3. TopLinks(y) \in Seq(Link)
      BY <2>2, TopLinksType DEF SpreadTypes
    <2>4. TopLinks(y)[k] \in Link
      BY <2>2, <2>3
    <2>5. energy[y] \in Nat /\ hop \in Nat
      BY <2>2 DEF SpreadTypes
    <2> QED BY <2>1, <2>4, <2>5, PropagatedType
  <1>6. Flow(x) \in [Inlets(x) -> Nat]
    BY <1>5 DEF Flow
  <1> QED BY <1>4, <1>6

\* One node adds no more than its own edges carry.
LEMMA SendBounded ==
    ASSUME SpreadTypes, FrontierOnce, NEW x \in Ids, NEW h, Sums(h, Inlets(x), Flow(x)),
           NEW i \in 1..Len(frontier), NEW r \in Rounds, r.e[x] <= h[Before(x, i, 0)]
    PROVE  Send(r, frontier[i]).e[x] <= h[Before(x, i + 1, 0)]
  <1>1. PICK f : EdgeLoop(f, r, frontier[i])
    BY SendLoop
  <1>2. PICK y, s, n : y = frontier[i] /\ s = Sent(y) /\ n = Len(TopLinks(y))
    OBVIOUS
  <1>3. /\ f \in [0..n -> Rounds] /\ f[0] = r /\ Send(r, y) = f[n]
        /\ \A k \in 1..n : Merged(f[k - 1], s[k], f[k])
    BY <1>1, <1>2 DEF EdgeLoop
  <1>4. y \in Ids /\ y \in ToSet(frontier) /\ i \in Nat
    BY <1>2, SMTT(30) DEF SpreadTypes, ToSet
  <1>5. /\ n \in Nat /\ n <= FanOut
        /\ \A k \in 1..n : /\ s[k].to = TopLinks(y)[k].to /\ s[k].e \in Nat
                           /\ s[k].e = Propagated(energy[y], TopLinks(y)[k], hop)
    <2>1. known \in [Ids -> Seq(Link)]
      BY DEF SpreadTypes
    <2>2. n \in Nat /\ n <= FanOut
      BY <1>2, <1>4, <2>1, TopLinksType
    <2>3. \A k \in 1..n : /\ s[k].to = TopLinks(y)[k].to /\ s[k].e \in Nat
                           /\ s[k].e = Propagated(energy[y], TopLinks(y)[k], hop)
      BY <1>2, <1>4, SentType
    <2> QED BY <2>2, <2>3
  <1>6. \A k : Before(x, i, k) \in SUBSET Inlets(x)
    BY DEF Before
  <1>7. \A U \in SUBSET Inlets(x) : h[U] \in Nat
    BY DEF Sums
  <1>8. \A k \in 0..n : f[k].e[x] \in Nat
    BY <1>3 DEF Rounds
  <1> DEFINE M == {k \in Nat : k <= n => f[k].e[x] <= h[Before(x, i, k)]}
  <1>9. 0 \in M
    BY <1>3
  <1>10. ASSUME NEW k \in Nat, k \in M PROVE k + 1 \in M
    <2>0. k + 1 \in Nat
      OBVIOUS
    <2> SUFFICES ASSUME k + 1 <= n PROVE f[k + 1].e[x] <= h[Before(x, i, k + 1)]
      BY <2>0
    <2>1. k \in 0..n /\ k + 1 \in 0..n /\ k + 1 \in 1..n /\ (k + 1) - 1 = k /\ k <= n
      BY <1>5
    <2>2. f[k].e[x] <= h[Before(x, i, k)]
      BY <1>10, <2>1
    <2>3. PICK a, p : a = s[k + 1] /\ p = <<y, k + 1>>
      OBVIOUS
    <2>4. Merged(f[k], a, f[k + 1])
      BY <1>3, <2>1, <2>3
    <2>5. p[1] = y /\ p[2] = k + 1 /\ p \in ToSet(frontier) \X (1..FanOut)
      <3>1. k + 1 \in 1..FanOut
        BY <1>5, <2>1, RetrievalAssumption
      <3> QED BY <1>4, <2>3, <3>1
    <2>6. p \in Inlets(x) <=> a.to = x /\ a.e >= MinEnergy
      BY <1>2, <1>5, <2>1, <2>3, <2>5 DEF Inlets
    <2>7. ASSUME NEW q \in Inlets(x)
          PROVE  q \in Before(x, i, k + 1) <=> (q \in Before(x, i, k) \/ q = p)
      <3>1. q = <<q[1], q[2]>> /\ q[2] \in Nat
        BY DEF Inlets
      <3>2. q[2] <= k + 1 <=> (q[2] <= k \/ q[2] = k + 1)
        BY <3>1
      <3>3. q = p <=> (q[1] = frontier[i] /\ q[2] = k + 1)
        BY <1>2, <2>3, <2>5, <3>1
      <3> QED BY <3>2, <3>3 DEF Before
    <2>8. p \notin Before(x, i, k)
      <3> SUFFICES ASSUME p \in Before(x, i, k) PROVE FALSE
        OBVIOUS
      <3>1. PICK j \in 1..Len(frontier) : p[1] = frontier[j] /\ (j < i \/ (j = i /\ p[2] <= k))
        BY DEF Before
      <3>2. j = i
        BY <1>2, <2>5, <3>1 DEF FrontierOnce
      <3>3. ~ (j < i)
        BY <1>4, <3>2
      <3>4. ~ (k + 1 <= k)
        OBVIOUS
      <3> QED BY <2>5, <3>1, <3>3, <3>4
    <2>9. PICK U, V : U = Before(x, i, k) /\ V = Before(x, i, k + 1)
      OBVIOUS
    <2>10. U \in SUBSET Inlets(x) /\ V \in SUBSET Inlets(x) /\ h[U] \in Nat /\ h[V] \in Nat
      BY <1>6, <1>7, <2>9
    <2>11. CASE p \in Inlets(x)
      <3>1. p \in V /\ V \ {p} = U
        BY <2>7, <2>8, <2>9, <2>10, <2>11
      <3>2. h[V] = Flow(x)[p] + h[U]
        BY <2>10, <3>1, FlowType, SumsAdd
      <3>3. Flow(x)[p] = a.e
        BY <1>5, <2>1, <2>3, <2>5, <2>11 DEF Flow
      <3>4. a.to = x /\ f[k + 1].e[x] <= f[k].e[x] + a.e
        <4>1. a.to = x /\ a.e \in Nat
          BY <1>5, <2>1, <2>3, <2>6, <2>11
        <4>2. CASE Counted(a)
          BY <2>4, <4>1, <4>2 DEF Merged
        <4>3. CASE ~ Counted(a)
          <5>1. f[k + 1] = f[k]
            BY <2>4, <4>3 DEF Merged
          <5> QED BY <1>8, <2>1, <4>1, <5>1
        <4> QED BY <4>2, <4>3
      <3>5. a.e \in Nat /\ f[k].e[x] \in Nat /\ f[k + 1].e[x] \in Nat
        BY <1>5, <1>8, <2>1, <2>3
      <3> QED BY <2>2, <2>9, <2>10, <3>2, <3>3, <3>4, <3>5
    <2>12. CASE p \notin Inlets(x)
      <3>1. V = U
        BY <2>7, <2>9, <2>10, <2>12
      <3>2. f[k + 1].e[x] = f[k].e[x]
        <4>1. CASE a.to # x
          BY <2>4, <4>1 DEF Merged
        <4>2. CASE a.to = x
          <5>1. ~ Counted(a)
            BY <2>6, <2>12, <4>2 DEF Counted
          <5> QED BY <2>4, <5>1 DEF Merged
        <4> QED BY <4>1, <4>2
      <3> QED BY <2>2, <2>9, <3>1, <3>2
    <2> QED BY <2>11, <2>12
  <1> HIDE DEF M
  <1>11. Nat \subseteq M
    BY <1>9, <1>10, NatInduct
  <1>12. f[n].e[x] <= h[Before(x, i, n)]
    <2>1. n <= n
      BY <1>5
    <2> QED BY <1>5, <1>11, <2>1 DEF M
  <1>13. Before(x, i, n) = Before(x, i + 1, 0)
    <2> SUFFICES ASSUME NEW q \in Inlets(x), NEW j \in 1..Len(frontier), q[1] = frontier[j]
                 PROVE  (j < i \/ (j = i /\ q[2] <= n)) <=> (j < i + 1 \/ (j = i + 1 /\ q[2] <= 0))
      BY DEF Before
    <2>1. q[2] \in Nat /\ q[2] > 0 /\ j \in Nat
      BY DEF Inlets
    <2>2. j = i => q[2] <= n
      BY <1>2 DEF Inlets
    <2> QED BY <1>4, <2>1, <2>2
  <1> QED BY <1>2, <1>3, <1>12, <1>13

\* A round gives a node at most the sum of what arrives.
LEMMA RoundBounded ==
    ASSUME SpreadTypes, FrontierOnce, NEW x \in Ids, NEW h, Sums(h, Inlets(x), Flow(x))
    PROVE  Round.e[x] <= h[Inlets(x)]
  <1>1. PICK f : NodeLoop(f)
    BY RoundLoop
  <1>2. PICK n : n = Len(frontier)
    OBVIOUS
  <1>3. n \in Nat
    BY <1>2 DEF SpreadTypes
  <1>4. /\ f \in [0..n -> Rounds] /\ f[0] = NoArrivals /\ Round = f[n]
        /\ \A i \in 1..n : f[i] = Send(f[i - 1], frontier[i])
    BY <1>1, <1>2 DEF NodeLoop
  <1> DEFINE M == {i \in Nat : i <= n => f[i].e[x] <= h[Before(x, i + 1, 0)]}
  <1>5. 0 \in M
    <2>1. f[0].e[x] = 0
      BY <1>4 DEF NoArrivals
    <2>2. h[Before(x, 0 + 1, 0)] \in Nat
      <3>1. Before(x, 0 + 1, 0) \in SUBSET Inlets(x)
        BY DEF Before
      <3> QED BY <3>1 DEF Sums
    <2> QED BY <2>1, <2>2
  <1>6. ASSUME NEW i \in Nat, i \in M PROVE i + 1 \in M
    <2>0. i + 1 \in Nat
      OBVIOUS
    <2> SUFFICES ASSUME i + 1 <= n PROVE f[i + 1].e[x] <= h[Before(x, (i + 1) + 1, 0)]
      BY <2>0
    <2>1. i + 1 \in 1..n /\ (i + 1) - 1 = i /\ i \in 0..n /\ i <= n
      BY <1>3
    <2>2. f[i] \in Rounds /\ f[i].e[x] <= h[Before(x, i + 1, 0)]
      BY <1>4, <1>6, <2>1
    <2>3. f[i + 1] = Send(f[i], frontier[i + 1])
      BY <1>4, <2>1
    <2>4. i + 1 \in 1..Len(frontier)
      BY <1>2, <2>1
    <2> QED BY <2>2, <2>3, <2>4, SendBounded
  <1> HIDE DEF M
  <1>7. Nat \subseteq M
    BY <1>5, <1>6, NatInduct
  <1>8. f[n].e[x] <= h[Before(x, n + 1, 0)]
    <2>1. n <= n
      BY <1>3
    <2> QED BY <1>3, <1>7, <2>1 DEF M
  <1>9. Before(x, n + 1, 0) = Inlets(x)
    <2> SUFFICES ASSUME NEW p \in Inlets(x)
                 PROVE  \E j \in 1..Len(frontier) : p[1] = frontier[j] /\ j < n + 1
      BY DEF Before
    <2>1. p[1] \in ToSet(frontier)
      BY DEF Inlets
    <2>2. PICK j \in DOMAIN frontier : p[1] = frontier[j]
      BY <2>1 DEF ToSet
    <2>3. j \in 1..Len(frontier)
      BY <2>2 DEF SpreadTypes
    <2>4. j < n + 1
      BY <1>2, <1>3, <2>3
    <2> QED BY <2>2, <2>3, <2>4
  <1> QED BY <1>4, <1>8, <1>9

\* What the edges that reached x in its round carried.
Amounts(x) ==
    [c \in Inflow(x) |-> Propagated(energy[c[1]], TopLinks(c[1])[c[2]], HopOf(x))]

\* x holds at least the most and at most the sum of it.
Bounded(x) ==
    /\ Inflow(x) # {}
    /\ \A c \in Inflow(x) : energy[x] >= Amounts(x)[c]
    /\ \E h : Sums(h, Inflow(x), Amounts(x)) /\ energy[x] <= h[Inflow(x)]

\* All nodes that spreading has found are so.
MergeInv == \A x \in Activated : Len(trace[x]) > 1 => Bounded(x)

\* The other calls and the end of the call leave it alone.
LEMMA MergeInvKeep ==
    ASSUME MergeInv,
           known' = known /\ energy' = energy /\ trace' = trace /\ reached' = reached
    PROVE  MergeInv'
  <1>1. Activated' = Activated
    BY DEF Activated
  <1>2. \A x : TopLinks(x)' = TopLinks(x) /\ HopOf(x)' = HopOf(x)
    BY DEF TopLinks, HopOf
  <1>3. \A x : Inflow(x)' = Inflow(x)
    BY <1>1, <1>2 DEF Inflow
  <1>4. \A x : Amounts(x)' = Amounts(x)
    BY <1>2, <1>3 DEF Amounts
  <1>5. \A x : Bounded(x)' = Bounded(x)
    BY <1>3, <1>4 DEF Bounded
  <1> QED BY <1>1, <1>5 DEF MergeInv

\* As long as nothing is activated.
LEMMA MergeInvEarly ==
    ASSUME RetTypes', rpc' \in Early
    PROVE  MergeInv'
  <1>1. reached' = <<>>
    BY DEF RetTypes
  <1>2. Activated' = {}
    BY <1>1 DEF Activated
  <1> QED BY <1>2 DEF MergeInv

\* Seeds are not reached by an edge.
LEMMA MergeInvEnergise ==
    ASSUME RetTypes, RetrieveEnergise
    PROVE  MergeInv'
  <1>1. /\ trace' = [x \in Ids |-> IF x \in Started THEN SeedTrace(x) ELSE <<>>]
        /\ reached' = frontier' /\ Started \in SUBSET Ids /\ Listing(frontier', Started)
    BY EnergiseEffect
  <1>2. Activated' = Started
    BY <1>1 DEF Activated, Listing
  <1>3. \A x \in Started : Len(trace'[x]) = 1
    BY <1>1, SeedTraceType
  <1>4. \A x \in Started : ~ (Len(trace'[x]) > 1)
    <2>1. ~ (1 > 1)
      OBVIOUS
    <2>2. SUFFICES ASSUME NEW x \in Started PROVE ~ (Len(trace'[x]) > 1)
      OBVIOUS
    <2>3. PICK n : n = Len(trace'[x])
      OBVIOUS
    <2> QED BY <1>3, <2>1, <2>3
  <1> QED BY <1>2, <1>4 DEF MergeInv

\* A round of spreading adds the nodes it found and leaves the others alone.
HopAdds ==
    /\ hop \in Nat /\ hop' = hop + 1
    /\ Activated \subseteq Ids /\ Found \subseteq Ids /\ Activated \cap Found = {}
    /\ Activated' = Activated \cup Found
    /\ \A x : TopLinks(x)' = TopLinks(x)
    /\ \A x \in Activated : /\ energy'[x] = energy[x] /\ trace'[x] = trace[x]
                            /\ Len(trace[x]) \in 1..hop
    /\ \A x \in Found : /\ energy[x] = 0 /\ energy'[x] = Round.e[x]
                        /\ Round.e[x] \in Nat /\ Round.e[x] > 0
                        /\ Len(trace'[x]) = hop + 1

\* That is what a round does.
LEMMA HopAddsFound ==
    ASSUME RetTypes, SpreadInv, SpreadHop, SpreadInv'
    PROVE  HopAdds
  <1>1. /\ hop' = hop + 1 /\ known' = known
        /\ energy' = [y \in Ids |-> IF y \in Found THEN Round.e[y] ELSE energy[y]]
        /\ trace' = [y \in Ids |-> IF y \in Found THEN Round.t[y] ELSE trace[y]]
        /\ reached' = reached \o frontier' /\ Found \in SUBSET Ids
        /\ Round \in Rounds /\ Listing(frontier', Found) /\ frontier' \in Seq(Ids)
    BY HopEffect
  <1>2. hop \in Nat /\ reached \in Seq(Ids) /\ energy \in [Ids -> Nat]
    BY DEF RetTypes
  <1>3. Activated = {x \in Ids : energy[x] > 0}
    BY DEF SpreadInv
  <1>4. \A x \in Found : energy[x] = 0 /\ Round.e[x] \in Nat /\ Round.e[x] > 0
    BY <1>1 DEF Rounds, Found
  <1>5. Activated \cap Found = {}
    BY <1>3, <1>4
  <1>6. Activated' = Activated \cup Found
    <2>1. Activated' = ToSet(reached \o frontier') /\ Activated = ToSet(reached)
      BY <1>1 DEF Activated, ToSet
    <2>2. Found = ToSet(frontier')
      <3>1. Listing(frontier', Found)
        BY <1>1
      <3>2. PICK f : f = frontier'
        OBVIOUS
      <3>3. DOMAIN f = 1..Len(f) /\ (\A k \in 1..Len(f) : f[k] \in Found)
            /\ \A x \in Found : \E k \in 1..Len(f) : f[k] = x
        BY <3>1, <3>2 DEF Listing
      <3>4. Found = ToSet(f)
        BY <3>3 DEF ToSet
      <3> QED BY <3>2, <3>4
    <2> QED BY <1>1, <1>2, <2>1, <2>2, JoinedSet
  <1>7. \A x : TopLinks(x)' = TopLinks(x)
    BY <1>1 DEF TopLinks
  <1>8. \A x \in Activated : energy'[x] = energy[x] /\ trace'[x] = trace[x]
    BY <1>1, <1>3, <1>5
  <1>9. \A x \in Activated : Len(trace[x]) \in 1..hop
    BY DEF SpreadInv, GoodTrace
  <1>10. \A x \in Found : energy'[x] = Round.e[x]
    BY <1>1
  <1>11. \A x \in Found : Len(trace'[x]) = hop + 1
    <2>1. \A i \in 1..Len(frontier') : Len(trace'[frontier'[i]]) = hop'
      BY DEF SpreadInv
    <2>2. \A x \in Found : \E i \in 1..Len(frontier') : frontier'[i] = x
      BY <1>1 DEF Listing
    <2> QED BY <1>1, <2>1, <2>2
  <1> QED BY <1>1, <1>2, <1>3, <1>4, <1>5, <1>6, <1>7, <1>8, <1>9, <1>10, <1>11 DEF HopAdds

\* What x got in an earlier round is not changed by this one.
LEMMA InflowStays ==
    ASSUME HopAdds, NEW x \in Activated
    PROVE  Inflow(x)' = Inflow(x) /\ Amounts(x)' = Amounts(x)
  <1>1. PICK n : n = Len(trace[x])
    OBVIOUS
  <1>2. n \in 1..hop /\ HopOf(x) = n - 1 /\ HopOf(x)' = n - 1
    BY <1>1 DEF HopAdds, HopOf
  <1>3. ASSUME NEW y \in Activated PROVE HopOf(y)' = HopOf(y) /\ energy'[y] = energy[y]
    BY DEF HopAdds, HopOf
  <1>4. ASSUME NEW y \in Found PROVE HopOf(y)' # HopOf(x)' - 1
    <2>1. HopOf(y)' = (hop + 1) - 1
      BY DEF HopAdds, HopOf
    <2>2. (hop + 1) - 1 # (n - 1) - 1
      BY <1>2 DEF HopAdds
    <2> QED BY <1>2, <2>1, <2>2
  <1>5. Activated' = Activated \cup Found /\ \A y : TopLinks(y)' = TopLinks(y)
    BY DEF HopAdds
  <1>6. HopOf(x)' = HopOf(x)
    BY <1>2
  <1>7. ASSUME NEW p \in Inflow(x)' PROVE p \in Inflow(x)
    <2>1. /\ p \in Activated' \X (1..FanOut) /\ HopOf(p[1])' = HopOf(x)' - 1
          /\ p[2] \in DOMAIN TopLinks(p[1])' /\ TopLinks(p[1])'[p[2]].to = x
          /\ Propagated(energy'[p[1]], TopLinks(p[1])'[p[2]], HopOf(x)') >= MinEnergy
      BY DEF Inflow
    <2>2. p[1] \in Activated
      BY <1>4, <1>5, <2>1
    <2>3. p \in Activated \X (1..FanOut)
      BY <2>1, <2>2
    <2> QED BY <1>3, <1>5, <1>6, <2>1, <2>2, <2>3 DEF Inflow
  <1>8. ASSUME NEW p \in Inflow(x) PROVE p \in Inflow(x)'
    <2>1. p \in Activated \X (1..FanOut) /\ p[1] \in Activated
      BY DEF Inflow
    <2>2. p \in Activated' \X (1..FanOut)
      BY <1>5, <2>1
    <2> QED BY <1>3, <1>5, <1>6, <2>1, <2>2 DEF Inflow
  <1>9. Inflow(x)' = Inflow(x)
    BY <1>7, <1>8
  <1>10. \A p \in Inflow(x) : p[1] \in Activated
    BY DEF Inflow
  <1>11. \A p \in Inflow(x) : Propagated(energy'[p[1]], TopLinks(p[1])'[p[2]], HopOf(x)')
                                = Propagated(energy[p[1]], TopLinks(p[1])[p[2]], HopOf(x))
    BY <1>3, <1>5, <1>6, <1>10
  <1>12. Amounts(x)' = Amounts(x)
    BY <1>9, <1>11 DEF Amounts
  <1> QED BY <1>9, <1>12

\* What a found node got are the edges of the frontier.
LEMMA InflowArrives ==
    ASSUME HopAdds, RetTypes, SpreadInv, NEW x \in Found
    PROVE  Inflow(x)' = Inlets(x) /\ Amounts(x)' = Flow(x)
  <1>1. hop \in Nat /\ HopOf(x)' = hop
    <2>1. Len(trace'[x]) = hop + 1 /\ hop \in Nat
      BY DEF HopAdds
    <2> QED BY <2>1 DEF HopOf
  <1>2. Activated' = Activated \cup Found /\ \A y : TopLinks(y)' = TopLinks(y)
    BY DEF HopAdds
  <1>3. ASSUME NEW y
        PROVE  y \in ToSet(frontier) <=> (y \in Activated' /\ HopOf(y)' = hop - 1)
    <2>1. y \in ToSet(frontier) <=> (\E i \in 1..Len(frontier) : frontier[i] = y)
      <3>1. DOMAIN frontier = 1..Len(frontier)
        BY DEF RetTypes
      <3> QED BY <3>1 DEF ToSet
    <2>2. y \in ToSet(frontier) <=> (y \in Activated /\ Len(trace[y]) = hop)
      BY <2>1 DEF SpreadInv
    <2>3. ASSUME y \in Activated PROVE HopOf(y)' = hop - 1 <=> Len(trace[y]) = hop
      <3>1. Len(trace[y]) \in 1..hop /\ trace'[y] = trace[y]
        BY <2>3 DEF HopAdds
      <3> QED BY <1>1, <3>1 DEF HopOf
    <2>4. ASSUME y \in Found PROVE HopOf(y)' # hop - 1 /\ y \notin Activated
      <3>1. Len(trace'[y]) = hop + 1 /\ y \notin Activated
        BY <2>4 DEF HopAdds
      <3> QED BY <1>1, <3>1 DEF HopOf
    <2> QED BY <1>2, <2>2, <2>3, <2>4
  <1>4. ASSUME NEW y \in ToSet(frontier)
        PROVE  energy'[y] = energy[y] /\ DOMAIN TopLinks(y) = 1..Len(TopLinks(y))
    <2>1. y \in Activated
      <3>1. DOMAIN frontier = 1..Len(frontier)
        BY DEF RetTypes
      <3> QED BY <3>1 DEF ToSet, SpreadInv
    <2>2. y \in Ids /\ known \in [Ids -> Seq(Link)]
      BY <2>1 DEF HopAdds, RetTypes
    <2> QED BY <2>1, <2>2, TopLinksType DEF HopAdds
  <1>5. Inflow(x)' = {p \in Activated' \X (1..FanOut) :
            /\ HopOf(p[1])' = HopOf(x)' - 1
            /\ p[2] \in DOMAIN TopLinks(p[1])' /\ TopLinks(p[1])'[p[2]].to = x
            /\ Propagated(energy'[p[1]], TopLinks(p[1])'[p[2]], HopOf(x)') >= MinEnergy}
    BY DEF Inflow
  <1>6. ASSUME NEW p \in Inflow(x)' PROVE p \in Inlets(x)
    <2>1. /\ p \in Activated' \X (1..FanOut) /\ HopOf(p[1])' = hop - 1
          /\ p[2] \in DOMAIN TopLinks(p[1]) /\ TopLinks(p[1])[p[2]].to = x
          /\ Propagated(energy'[p[1]], TopLinks(p[1])[p[2]], hop) >= MinEnergy
      BY <1>1, <1>2, <1>5
    <2>2. p[1] \in ToSet(frontier)
      BY <1>3, <2>1
    <2>3. p \in ToSet(frontier) \X (1..FanOut)
      BY <2>1, <2>2
    <2> QED BY <1>4, <2>1, <2>2, <2>3 DEF Inlets
  <1>7. ASSUME NEW p \in Inlets(x) PROVE p \in Inflow(x)'
    <2>1. /\ p \in ToSet(frontier) \X (1..FanOut) /\ p[1] \in ToSet(frontier)
          /\ p[2] \in 1..Len(TopLinks(p[1])) /\ TopLinks(p[1])[p[2]].to = x
          /\ Propagated(energy[p[1]], TopLinks(p[1])[p[2]], hop) >= MinEnergy
      BY DEF Inlets
    <2>2. p[1] \in Activated' /\ HopOf(p[1])' = hop - 1
      BY <1>3, <2>1
    <2>3. p \in Activated' \X (1..FanOut)
      BY <2>1, <2>2
    <2> QED BY <1>1, <1>2, <1>4, <1>5, <2>1, <2>2, <2>3
  <1>8. Inflow(x)' = Inlets(x)
    BY <1>6, <1>7
  <1>9. \A p \in Inlets(x) : p[1] \in ToSet(frontier)
    BY DEF Inlets
  <1>10. Amounts(x)' = [p \in Inflow(x)' |->
                           Propagated(energy'[p[1]], TopLinks(p[1])'[p[2]], HopOf(x)')]
    BY DEF Amounts
  <1>11. Amounts(x)' = Flow(x)
    BY <1>1, <1>2, <1>4, <1>8, <1>9, <1>10 DEF Flow
  <1> QED BY <1>8, <1>11

\* A round keeps the bounds of the old nodes and gives the new ones theirs.
LEMMA MergeInvHop ==
    ASSUME RetTypes, SpreadInv, MergeInv, SpreadHop, SpreadInv'
    PROVE  MergeInv'
  <1>1. HopAdds
    BY HopAddsFound
  <1>2. SpreadTypes /\ FrontierOnce
    BY DEF SpreadTypes, RetTypes, SpreadInv, FrontierOnce
  <1>3. ASSUME NEW x \in Activated, Len(trace'[x]) > 1 PROVE Bounded(x)'
    <2>1. Bounded(x) /\ energy'[x] = energy[x]
      BY <1>1, <1>3 DEF HopAdds, MergeInv
    <2>2. Inflow(x)' = Inflow(x) /\ Amounts(x)' = Amounts(x)
      BY <1>1, InflowStays
    <2> QED BY <2>1, <2>2 DEF Bounded
  <1>4. ASSUME NEW x \in Found PROVE Bounded(x)'
    <2>1. PICK e : e = Round.e[x] /\ energy'[x] = e
      BY <1>1 DEF HopAdds
    <2>2. e \in Nat /\ e > 0 /\ energy[x] = 0 /\ x \in Ids
      BY <1>1, <2>1 DEF HopAdds
    <2>3. Inflow(x)' = Inlets(x) /\ Amounts(x)' = Flow(x)
      BY <1>1, InflowArrives
    <2>4. IsFiniteSet(Inlets(x)) /\ Flow(x) \in [Inlets(x) -> Nat]
      BY <1>2, <2>2, FlowType
    <2>5. PICK h : Sums(h, Inlets(x), Flow(x))
      BY <2>4, SumsExist
    <2>6. e <= h[Inlets(x)]
      BY <1>2, <2>1, <2>2, <2>5, RoundBounded
    <2>7. Inlets(x) # {}
      <3> SUFFICES ASSUME Inlets(x) = {} PROVE FALSE
        OBVIOUS
      <3>1. h[Inlets(x)] = 0
        BY <2>5 DEF Sums
      <3> QED BY <2>2, <2>6, <3>1
    <2>8. ASSUME NEW c \in Inlets(x) PROVE e >= Flow(x)[c]
      <3>1. PICK y, k : y = c[1] /\ k = c[2]
        OBVIOUS
      <3>2. /\ y \in ToSet(frontier) /\ k \in 1..Len(TopLinks(y)) /\ TopLinks(y)[k].to = x
            /\ Propagated(energy[y], TopLinks(y)[k], hop) >= MinEnergy
        BY <3>1 DEF Inlets
      <3>3. PICK i \in 1..Len(frontier) : frontier[i] = y
        <4>1. DOMAIN frontier = 1..Len(frontier)
          BY DEF RetTypes
        <4> QED BY <3>2, <4>1 DEF ToSet
      <3>4. y \in Ids
        BY <3>3 DEF RetTypes
      <3>5. Sent(y)[k].to = x /\ Sent(y)[k].e = Propagated(energy[y], TopLinks(y)[k], hop)
        BY <1>2, <3>2, <3>4, SentType
      <3>6. Counted(Sent(y)[k])
        BY <2>2, <3>2, <3>5 DEF Counted
      <3>7. e >= Sent(y)[k].e
        BY <1>2, <2>1, <3>2, <3>3, <3>5, <3>6, RoundFinds
      <3>8. Flow(x)[c] = Propagated(energy[y], TopLinks(y)[k], hop)
        BY <3>1 DEF Flow
      <3> QED BY <3>5, <3>7, <3>8
    <2> QED BY <2>1, <2>3, <2>5, <2>6, <2>7, <2>8 DEF Bounded
  <1>5. Activated' = Activated \cup Found
    BY <1>1 DEF HopAdds
  <1> QED BY <1>3, <1>4, <1>5 DEF MergeInv

\* Every step of the call keeps them.
LEMMA MergeInvStep ==
    ASSUME RetTypes, SpreadInv, MergeInv, RetrieveStep, RetTypes', SpreadInv'
    PROVE  MergeInv'
  <1>1. CASE RetrieveRecall \/ RetrieveLoadSeeds \/ RetrieveLinks \/ RetrieveNeighbours \/ RetrievePrefetch
    <2>1. rpc' \in Early
      BY <1>1 DEF RetrieveRecall, RetrieveLoadSeeds, RetrieveLinks, RetrieveNeighbours,
                  RetrievePrefetch, LoadRow, Early
    <2> QED BY <2>1, MergeInvEarly
  <1>2. CASE RetrieveEnergise
    BY <1>2, MergeInvEnergise
  <1>3. CASE SpreadHop
    BY <1>3, MergeInvHop
  <1>4. CASE SpreadStop \/ RetrieveExtra
    BY <1>4, MergeInvKeep DEF SpreadStop, RetrieveExtra
  <1>5. CASE RetrieveRank
    <2>1. known' = known /\ energy' = energy /\ trace' = trace /\ reached' = reached
      BY <1>5, Zenon DEF RetrieveRank
    <2> QED BY <2>1, MergeInvKeep
  <1> QED BY <1>1, <1>2, <1>3, <1>4, <1>5 DEF RetrieveStep

(***************************************************************************)
(* Units and edges the call has loaded, while other threads go on.         *)
(***************************************************************************)
\* What was not found when units were loaded has no unit, or got it during the call.
Missing(x) == copy[x] = "none" => kind[x] = "none" \/ x \in appeared

\* An edge list is loaded only for memories that are not known to be excluded.
CopyInv ==
    /\ \A x \in Ids : known[x] # <<>> => Missing(x) /\ (SeedExcluded(copy[x]) => x \in appeared)
    /\ rpc \in {"idle", "recall", "seeds"} => \A x \in Ids : known[x] = <<>>
    /\ rpc \in {"links", "prefetch"} => \A x \in pending : Missing(x) /\ ~ SeedExcluded(copy[x])

\* Nothing is loaded at the start.
LEMMA CopyInvInit == Init => CopyInv
  BY DEF Init, RetrieveInit, CopyInv

\* A unit that other threads put where there was none has appeared.
LEMMA CopyInvStore ==
    ASSUME CopyInv, RetTypes, StoreInv, StoreStep, UNCHANGED retrieveVars
    PROVE  CopyInv'
  <1>1. UnitsAppear
    BY StoreInvStore DEF StoreMoves
  <1>2. rpc' = rpc /\ copy' = copy /\ known' = known /\ pending' = pending
    BY DEF retrieveVars
  <1>3. \A x \in Ids : Missing(x) => Missing(x)'
    BY <1>1, <1>2 DEF UnitsAppear, Missing
  <1>4. appeared \subseteq appeared' /\ pending \subseteq Ids
    BY <1>1 DEF UnitsAppear, RetTypes
  <1> QED BY <1>2, <1>3, <1>4 DEF CopyInv

\* Steps of the call that load neither units nor edges.
LEMMA CopyInvKeep ==
    ASSUME CopyInv, copy' = copy, known' = known, UNCHANGED storeVars,
           rpc' \notin {"links", "prefetch"},
           rpc' \in {"idle", "recall", "seeds"} => rpc' = rpc \/ rpc = "recall"
    PROVE  CopyInv'
  <1>1. kind' = kind /\ appeared' = appeared
    BY DEF storeVars
  <1> QED BY <1>1 DEF CopyInv, Missing

\* Loading units that were missing.
LEMMA CopyInvLoad ==
    ASSUME CopyInv, UNCHANGED storeVars, known' = known, rpc' \notin {"idle", "recall", "seeds"},
           NEW S, copy' = [x \in Ids |-> IF copy[x] = "none" THEN LoadUnits(S)[x] ELSE copy[x]],
           rpc' \in {"links", "prefetch"} =>
              \A x \in pending' : x \in S /\ x \in Ids /\ ~ SeedExcluded(copy'[x])
    PROVE  CopyInv'
  <1>1. kind' = kind /\ appeared' = appeared
    BY DEF storeVars
  <1>2. ASSUME NEW x \in Ids, known[x] # <<>>
        PROVE  Missing(x)' /\ (SeedExcluded(copy'[x]) => x \in appeared)
    <2>1. Missing(x) /\ (SeedExcluded(copy[x]) => x \in appeared)
      BY <1>2 DEF CopyInv
    <2>2. copy'[x] = IF copy[x] = "none" /\ x \in S THEN kind[x] ELSE copy[x]
      BY DEF LoadUnits
    <2> QED BY <1>1, <2>1, <2>2 DEF Missing, SeedExcluded
  <1>3. ASSUME NEW x \in Ids, x \in S PROVE Missing(x)'
    BY <1>1, <1>3 DEF Missing, LoadUnits
  <1> QED BY <1>1, <1>2, <1>3 DEF CopyInv

\* The call loads units before the edges of the same memories.
LEMMA CopyInvStep ==
    ASSUME CopyInv, RetTypes, StoreInv, RetrieveStep, UNCHANGED storeVars
    PROVE  CopyInv'
  <1>0. kind' = kind /\ appeared' = appeared
    BY DEF storeVars
  <1>1. CASE RetrieveRecall
    BY <1>1, CopyInvKeep DEF RetrieveRecall
  <1>2. CASE RetrieveLoadSeeds
    <2>1. /\ rpc = "seeds" /\ rpc' = "links" /\ known' = known /\ copy' = LoadUnits(Seeds)
          /\ fused' = [x \in Ids |-> IF SeedExcluded(copy'[x]) THEN 0 ELSE fused[x]]
          /\ pending' = {x \in Ids : fused'[x] > 0}
      BY <1>2 DEF RetrieveLoadSeeds
    <2>2. \A x \in Ids : known'[x] = <<>>
      BY <2>1 DEF CopyInv
    <2>3. ASSUME NEW x \in pending'
          PROVE  Missing(x)' /\ ~ SeedExcluded(copy'[x])
      <3>1. x \in Ids /\ fused'[x] > 0
        BY <2>1
      <3>2. ~ SeedExcluded(copy'[x]) /\ fused[x] > 0
        BY <2>1, <3>1
      <3>3. copy'[x] = kind[x]
        BY <2>1, <3>1, <3>2 DEF Seeds, LoadUnits
      <3> QED BY <1>0, <3>2, <3>3 DEF Missing
    <2> QED BY <2>1, <2>2, <2>3 DEF CopyInv
  <1>3. CASE RetrieveLinks \/ RetrievePrefetch
    <2>1. rpc \in {"links", "prefetch"} /\ rpc' = rpc /\ copy' = copy
      BY <1>3, RowEffect
    <2>2. PICK x \in pending : known' = [known EXCEPT ![x] = row[x]] /\ pending' = pending \ {x}
      BY <1>3, RowEffect
    <2>3. \A y \in Ids : Missing(y)' = Missing(y)
      BY <1>0, <2>1 DEF Missing
    <2>4. \A y \in Ids : y # x => known'[y] = known[y]
      BY <2>2 DEF RetTypes
    <2>5. pending \subseteq Ids /\ Missing(x) /\ ~ SeedExcluded(copy[x])
      BY <2>1 DEF RetTypes, CopyInv
    <2> QED BY <1>0, <2>1, <2>2, <2>3, <2>4, <2>5 DEF CopyInv
  <1>4. CASE RetrieveNeighbours
    <2>1. /\ rpc' = "prefetch" /\ known' = known
          /\ copy' = [x \in Ids |-> IF copy[x] = "none" THEN LoadUnits(Neighbours)[x] ELSE copy[x]]
          /\ pending' = {x \in Neighbours : ~ SeedExcluded(copy'[x])}
      BY <1>4 DEF RetrieveNeighbours
    <2> QED BY <2>1, NeighboursType, CopyInvLoad
  <1>5. CASE RetrieveEnergise
    BY <1>5, EnergiseEffect, CopyInvKeep
  <1>6. CASE SpreadHop
    <2>1. rpc' = "spread" /\ copy' = copy /\ known' = known
      BY <1>6, HopEffect
    <2> QED BY <2>1, CopyInvKeep
  <1>7. CASE SpreadStop
    BY <1>7, CopyInvKeep DEF SpreadStop
  <1>8. CASE RetrieveExtra
    <2>1. /\ rpc' = "rank" /\ known' = known
          /\ copy' = [x \in Ids |-> IF copy[x] = "none" THEN LoadUnits(Activated)[x] ELSE copy[x]]
      BY <1>8 DEF RetrieveExtra
    <2> QED BY <2>1, CopyInvLoad
  <1>9. CASE RetrieveRank
    <2>1. rpc' = "done" /\ copy' = copy /\ known' = known
      BY <1>9, Zenon DEF RetrieveRank
    <2> QED BY <2>1, CopyInvKeep
  <1> QED BY <1>1, <1>2, <1>3, <1>4, <1>5, <1>6, <1>7, <1>8, <1>9 DEF RetrieveStep

(***************************************************************************)
(* The memories that died after the call loaded them.                      *)
(***************************************************************************)
\* Loaded as live, and dead by now.
Stale == {x \in Ids : copy[x] \in {"active", "summary"} /\ kind[x] \in Dead}

\* Each of them died in a change of its own while the call ran.
StaleInv == Cardinality(Stale) <= changes

\* Fewer of them, with no change.
LEMMA StaleShrinks ==
    ASSUME StaleInv, changes \in Nat, changes' = changes, Stale' \subseteq Stale
    PROVE  StaleInv'
  <1>1. Stale \in SUBSET Ids
    BY DEF Stale
  <1>2. IsFiniteSet(Stale)
    BY <1>1, IdsAreNats
  <1>3. IsFiniteSet(Stale') /\ Cardinality(Stale') <= Cardinality(Stale)
    BY <1>2, FS_Subset
  <1>4. Cardinality(Stale) \in Nat /\ Cardinality(Stale') \in Nat
    BY <1>2, <1>3, FS_CardinalityType
  <1> QED BY <1>3, <1>4 DEF StaleInv

\* A change kills one memory at most.
LEMMA StaleInvStore ==
    ASSUME StaleInv, StoreInv, StoreStep, UNCHANGED retrieveVars
    PROVE  StaleInv'
  <1>1. StoreMoves /\ changes \in Nat
    BY StoreInvStore DEF StoreInv
  <1>2. copy' = copy
    BY DEF retrieveVars
  <1>3. CASE changes' = changes /\ kind' = kind
    BY <1>1, <1>2, <1>3, StaleShrinks DEF Stale
  <1>4. CASE changes' = changes + 1 /\ \E y \in Ids : \A x \in Ids \ {y} : kind'[x] = kind[x]
    <2>1. PICK y \in Ids : \A x \in Ids \ {y} : kind'[x] = kind[x]
      BY <1>4
    <2>2. PICK T : T = Stale \cup {y}
      OBVIOUS
    <2>3. Stale' \subseteq T
      BY <1>2, <2>1, <2>2 DEF Stale
    <2>4. Stale \in SUBSET Ids
      BY DEF Stale
    <2>5. IsFiniteSet(Stale)
      BY <2>4, IdsAreNats
    <2>6. IsFiniteSet(T) /\ Cardinality(T) = IF y \in Stale THEN Cardinality(Stale) ELSE Cardinality(Stale) + 1
      BY <2>2, <2>5, FS_AddElement
    <2>7. IsFiniteSet(Stale') /\ Cardinality(Stale') <= Cardinality(T)
      BY <2>3, <2>6, FS_Subset
    <2>8. Cardinality(Stale) \in Nat /\ Cardinality(Stale') \in Nat
      BY <2>5, <2>7, FS_CardinalityType
    <2> QED BY <1>1, <1>4, <2>6, <2>7, <2>8 DEF StaleInv
  <1> QED BY <1>1, <1>3, <1>4 DEF StoreMoves

\* Loading a unit again makes it no more stale.
LEMMA StaleInvStep ==
    ASSUME StaleInv, RetTypes, StoreInv, RetrieveStep, UNCHANGED storeVars
    PROVE  StaleInv'
  <1>0. kind' = kind /\ changes' = changes /\ changes \in Nat
    BY DEF storeVars, StoreInv
  <1>1. ASSUME NEW S, copy' = LoadUnits(S) PROVE StaleInv'
    <2>1. Stale' \subseteq Stale
      BY <1>0, <1>1 DEF Stale, LoadUnits, Dead
    <2> QED BY <1>0, <2>1, StaleShrinks
  <1>2. ASSUME NEW S, copy' = [x \in Ids |-> IF copy[x] = "none" THEN LoadUnits(S)[x] ELSE copy[x]]
        PROVE  StaleInv'
    <2>1. Stale' \subseteq Stale
      BY <1>0, <1>2 DEF Stale, LoadUnits, Dead
    <2> QED BY <1>0, <2>1, StaleShrinks
  <1>3. CASE copy' = copy
    BY <1>0, <1>3, StaleShrinks DEF Stale
  <1>4. CASE RetrieveLoadSeeds
    BY <1>1, <1>4 DEF RetrieveLoadSeeds
  <1>5. CASE RetrieveNeighbours
    BY <1>2, <1>5 DEF RetrieveNeighbours
  <1>6. CASE RetrieveExtra
    BY <1>2, <1>6 DEF RetrieveExtra
  <1>7. CASE RetrieveRank
    <2>1. copy' = copy
      BY <1>7, Zenon DEF RetrieveRank
    <2> QED BY <1>3, <2>1
  <1>8. CASE RetrieveRecall \/ RetrieveLinks \/ RetrievePrefetch \/ SpreadStop
    <2>1. copy' = copy
      BY <1>8 DEF RetrieveRecall, RetrieveLinks, RetrievePrefetch, LoadRow, SpreadStop
    <2> QED BY <1>3, <2>1
  <1>9. CASE RetrieveEnergise \/ SpreadHop
    <2>1. copy' = copy
      BY <1>9, EnergiseEffect, HopEffect
    <2> QED BY <1>3, <2>1
  <1> QED BY <1>4, <1>5, <1>6, <1>7, <1>8, <1>9 DEF RetrieveStep

(***************************************************************************)
(* The answer.                                                             *)
(***************************************************************************)
\* A score reads nothing but the energies and the query.
LEMMA ScoreSame ==
    ASSUME energy' = energy, query' = query
    PROVE  \A x : Score(x)' = Score(x)
  <1>1. Question' = Question
    BY Zenon DEF Question
  <1>2. \A x : BoostOfReason(x)' = BoostOfReason(x)
    BY <1>1 DEF BoostOfReason
  <1>3. \A x : BoostOfType(x)' = BoostOfType(x)
    BY <1>1 DEF BoostOfType, Mentions
  <1>4. \A x : BoostOfWords(x)' = BoostOfWords(x)
    BY DEF BoostOfWords, Mentions
  <1>5. \A x : BoostOfDefinition(x)' = BoostOfDefinition(x)
    BY <1>1 DEF BoostOfDefinition
  <1>6. \A x : Boosted(x)' = Boosted(x)
    BY <1>2, <1>3, <1>4, <1>5 DEF Boosted, Boost
  <1>7. ContextOf' = ContextOf
    BY DEF ContextOf
  <1>8. \A x : ContextStrength(x)' = ContextStrength(x)
    BY <1>7 DEF ContextStrength
  <1>9. \A x : Covered(x)' = Covered(x)
    BY DEF Covered
  <1> QED BY <1>6, <1>8, <1>9 DEF Score

\* The answer: candidates, each once, ranked and cut, and the edges taken.
Answered ==
    /\ results \in Seq([id : Ids, score : Nat]) /\ Len(results) \in Nat
    /\ \A k \in 1..Len(results) : results[k].id \in Candidates
    /\ \A i, j \in 1..Len(results) : i # j => results[i].id # results[j].id
    /\ ResultsRanked
    /\ paths = {trace[x][2] : x \in {y \in Activated : Len(trace[y]) > 1}}

\* A call that is done has answered so.
ResultInv == rpc = "done" => Answered

\* Other calls leave the answer alone.
LEMMA ResultInvKeep ==
    ASSUME ResultInv, UNCHANGED retrieveVars
    PROVE  ResultInv'
  <1>1. /\ rpc' = rpc /\ results' = results /\ paths' = paths /\ trace' = trace
        /\ energy' = energy /\ query' = query /\ copy' = copy /\ reached' = reached
    BY DEF retrieveVars
  <1>2. Activated' = Activated /\ Candidates' = Candidates
    BY <1>1 DEF Activated, Candidates
  <1>3. \A x : Score(x)' = Score(x)
    BY <1>1, ScoreSame
  <1>4. ResultsRanked' = ResultsRanked
    BY <1>1, <1>2, <1>3 DEF ResultsRanked
  <1> QED BY <1>1, <1>2, <1>4 DEF ResultInv, Answered

\* No more candidates than ids that were reached.
LEMMA CandidatesReached ==
    ASSUME RetTypes
    PROVE  /\ Candidates \subseteq Ids /\ IsFiniteSet(Candidates)
           /\ Cardinality(Candidates) \in Nat /\ Cardinality(Candidates) <= Len(reached)
  <1>1. Candidates \subseteq Activated /\ Activated \subseteq Ids
    BY DEF Candidates, Activated, RetTypes
  <1>2. PICK n : n = Len(reached) /\ n \in Nat /\ DOMAIN reached = 1..n
    <2>1. Len(reached) \in Nat /\ DOMAIN reached = 1..Len(reached)
      BY DEF RetTypes
    <2> QED BY <2>1
  <1>3. IsFiniteSet(1..n) /\ Cardinality(1..n) = n
    BY <1>2, CountTo
  <1>4. reached = [i \in DOMAIN reached |-> reached[i]]
    BY DEF RetTypes
  <1>5. Activated = {reached[i] : i \in 1..n}
    BY <1>2 DEF Activated
  <1>6. IsFiniteSet(Activated) /\ Cardinality(Activated) <= n
    BY <1>2, <1>3, <1>4, <1>5, FiniteImage
  <1>7. IsFiniteSet(Candidates) /\ Cardinality(Candidates) <= Cardinality(Activated)
    BY <1>1, <1>6, FS_Subset
  <1>8. Cardinality(Candidates) \in Nat /\ Cardinality(Activated) \in Nat
    BY <1>6, <1>7, FS_CardinalityType
  <1> QED BY <1>1, <1>2, <1>6, <1>7, <1>8

\* The last step of the call answers so.
LEMMA ResultInvRank ==
    ASSUME RetTypes, RetrieveRank
    PROVE  ResultInv'
  <1>1. PICK f, n, m : /\ f = Ordered(Candidates, RanksBefore) /\ n = Len(f)
                       /\ m = Lesser(Lesser(TopK, Len(reached)), n)
    OBVIOUS
  <1>2. /\ results' = [k \in 1..m |-> [id |-> f[k], score |-> Score(f[k])]]
        /\ paths' = {trace[x][2] : x \in {y \in Activated : Len(trace[y]) > 1}}
    <2>1. results' = [k \in 1..Lesser(Lesser(TopK, Len(reached)), Len(Ordered(Candidates, RanksBefore))) |->
                        [id |-> Ordered(Candidates, RanksBefore)[k],
                         score |-> Score(Ordered(Candidates, RanksBefore)[k])]]
      BY Zenon DEF RetrieveRank
    <2>2. paths' = {trace[x][2] : x \in {y \in Activated : Len(trace[y]) > 1}}
      BY Zenon DEF RetrieveRank
    <2> QED BY <1>1, <2>1, <2>2
  <1>3. /\ rpc' = "done" /\ query' = query /\ copy' = copy /\ energy' = energy
        /\ trace' = trace /\ reached' = reached
    BY Zenon DEF RetrieveRank
  <1>4. PICK a, b, c : /\ Lists(f, Candidates, a, b, c)
                       /\ a = [x \in Candidates |-> Score(x)] /\ b \in [Candidates -> Int]
    BY <1>1, RankedLists DEF RetTypes
  <1>5. /\ n = Cardinality(Candidates) /\ n \in Nat
        /\ \A k \in 1..n : f[k] \in Candidates
        /\ \A i, j \in 1..n : i < j => f[i] # f[j] /\ LexBefore(a, b, c, f[i], f[j])
        /\ \A x \in Candidates : \E k \in 1..n : f[k] = x
    BY <1>1, <1>4 DEF Lists
  <1>6. \A x \in Candidates : x \in Ids /\ Score(x) \in Nat /\ a[x] = Score(x)
    BY <1>4, CandidatesReached, ScoreType DEF RetTypes
  <1>7. \A i, j \in 1..n : i < j => Score(f[i]) >= Score(f[j])
    <2> SUFFICES ASSUME NEW i \in 1..n, NEW j \in 1..n, i < j PROVE Score(f[i]) >= Score(f[j])
      OBVIOUS
    <2>1. a[f[i]] > a[f[j]] \/ a[f[i]] = a[f[j]]
      BY <1>5 DEF LexBefore
    <2> QED BY <1>5, <1>6, <2>1
  <1>8. Len(reached) \in Nat /\ n <= Len(reached) /\ TopK \in Nat
    BY <1>5, CandidatesReached, RetrievalAssumption DEF RetTypes
  <1>9. m \in Nat /\ m <= n /\ m <= TopK /\ (m < n => m = TopK)
    BY <1>1, <1>5, <1>8 DEF Lesser
  <1>10. PICK r : r = results'
    OBVIOUS
  <1>11. /\ r = [k \in 1..m |-> [id |-> f[k], score |-> Score(f[k])]]
         /\ \A k \in 1..m : k \in 1..n /\ r[k].id = f[k] /\ r[k].score = Score(f[k])
    <2>1. r = [k \in 1..m |-> [id |-> f[k], score |-> Score(f[k])]]
      BY <1>2, <1>10
    <2>2. \A k \in 1..m : k \in 1..n
      BY <1>5, <1>9
    <2> QED BY <2>1, <2>2
  <1>12. r \in [1..m -> [id : Ids, score : Nat]]
    <2>1. \A k \in 1..m : f[k] \in Ids /\ Score(f[k]) \in Nat
      BY <1>5, <1>6, <1>11
    <2> QED BY <1>11, <2>1
  <1>13. r \in Seq([id : Ids, score : Nat]) /\ Len(r) = m /\ DOMAIN r = 1..m
    <2>1. PICK R : R = [id : Ids, score : Nat]
      OBVIOUS
    <2>2. r \in [1..m -> R]
      BY <1>12, <2>1
    <2>3. r \in Seq(R) /\ Len(r) = m /\ DOMAIN r = 1..m
      BY <1>9, <2>2
    <2> QED BY <2>1, <2>3
  <1>14. \A i, j \in 1..m : i # j => r[i].id # r[j].id
    <2> SUFFICES ASSUME NEW i \in 1..m, NEW j \in 1..m, i # j PROVE f[i] # f[j]
      BY <1>11
    <2>1. i < j \/ j < i
      BY <1>9
    <2> QED BY <1>5, <1>11, <2>1
  <1>15. Candidates' = Candidates /\ Activated' = Activated
    BY <1>3 DEF Candidates, Activated
  <1>16. \A x : Score(x)' = Score(x)
    BY <1>3, ScoreSame
  <1>17. Cardinality({r[k].id : k \in 1..m}) = m
    <2>1. PICK g, T : g = [k \in 1..m |-> r[k].id] /\ T = {r[k].id : k \in 1..m}
      OBVIOUS
    <2>2. g \in [1..m -> T] /\ \A y \in T : \E k \in 1..m : g[k] = y
      BY <2>1
    <2>3. g \in Surjection(1..m, T)
      BY <2>2 DEF Surjection
    <2>4. g \in Injection(1..m, T)
      BY <1>14, <2>1, <2>2 DEF Injection, IsInjective
    <2>5. IsFiniteSet(1..m) /\ Cardinality(1..m) = m
      BY <1>9, CountTo
    <2> QED BY <2>1, <2>3, <2>4, <2>5, FS_Surjection
  <1>18. \A k \in 2..m : r[k - 1].score >= r[k].score
    <2> SUFFICES ASSUME NEW k \in 2..m PROVE r[k - 1].score >= r[k].score
      OBVIOUS
    <2>1. k - 1 \in 1..m /\ k \in 1..m /\ k - 1 < k
      BY <1>9
    <2> QED BY <1>7, <1>11, <2>1
  <1>19. ASSUME NEW x \in Candidates, \A k \in 1..m : r[k].id # x
         PROVE  m = TopK /\ \A k \in 1..m : r[k].score >= Score(x)
    <2>1. PICK j \in 1..n : f[j] = x
      BY <1>5
    <2>2. j \notin 1..m
      BY <1>11, <1>19, <2>1
    <2>3. m < j /\ m < n
      BY <1>5, <1>9, <2>2
    <2>4. \A k \in 1..m : k < j
      BY <1>9, <2>3
    <2> QED BY <1>7, <1>9, <1>11, <2>1, <2>3, <2>4
  <1>20. ResultsRanked'
    <2>1. {r[k].id : k \in DOMAIN r} = {r[k].id : k \in 1..m}
      BY <1>13
    <2>2. PICK ids : ids = {r[k].id : k \in DOMAIN r}
      OBVIOUS
    <2>3. Cardinality(ids) = m /\ \A x : x \notin ids => \A k \in 1..m : r[k].id # x
      BY <1>17, <2>1, <2>2
    <2> QED BY <1>9, <1>10, <1>13, <1>15, <1>16, <1>18, <1>19, <2>2, <2>3, ZenonT(40)
       DEF ResultsRanked
  <1>21. \A k \in 1..m : r[k].id \in Candidates
    BY <1>5, <1>11
  <1>22. paths' = {trace'[x][2] : x \in {y \in Activated' : Len(trace'[y]) > 1}}
    BY <1>2, <1>3, <1>15
  <1> QED BY <1>9, <1>10, <1>13, <1>14, <1>15, <1>20, <1>21, <1>22 DEF ResultInv, Answered

(***************************************************************************)
(* The invariant of a retrieval, and what it establishes.                  *)
(***************************************************************************)
\* The parts rest on each other: scores and traces on the types, the bounds and
\* the answer on what was spread, the staleness on the store.
RetInv ==
    StoreInv /\ RetTypes /\ SpreadInv /\ MergeInv /\ CopyInv /\ StaleInv /\ ResultInv

\* It holds at the start.
LEMMA RetInvInit == Init => RetInv
  <1> SUFFICES ASSUME Init PROVE RetInv
    OBVIOUS
  <1>1. StoreInv /\ RetTypes /\ CopyInv
    BY StoreInvInit, RetTypesInit, CopyInvInit
  <1>2. /\ rpc \in {"idle", "recall"} /\ energy = [x \in Ids |-> 0]
        /\ reached = <<>> /\ frontier = <<>> /\ hop = 1 /\ query \in Queries
        /\ copy = [x \in Ids |-> "none"] /\ changes = 0
    BY <1>1 DEF Init, RetrieveInit, RetTypes
  <1>3. SpreadInv
    <2>1. Activated = {} /\ {x \in Ids : energy[x] > 0} = {}
      BY <1>2 DEF Activated
    <2>2. hop >= 1 /\ hop <= query.hops + 1 /\ Len(frontier) = 0
      BY <1>2, RetrievalAssumption
    <2> QED BY <1>2, <2>1, <2>2 DEF SpreadInv
  <1>4. StaleInv
    <2>1. Stale = {}
      BY <1>2 DEF Stale
    <2>2. Cardinality(Stale) = 0
      BY <2>1, FS_EmptySet
    <2> QED BY <1>2, <2>2 DEF StaleInv
  <1>5. ResultInv
    BY <1>2 DEF ResultInv
  <1>6. MergeInv
    <2>1. Activated = {}
      BY <1>2 DEF Activated
    <2> QED BY <2>1 DEF MergeInv
  <1> QED BY <1>1, <1>3, <1>4, <1>5, <1>6 DEF RetInv

\* Every step of the call keeps what was spread.
LEMMA SpreadInvStep ==
    ASSUME SpreadInv, RetTypes, RetTypes', RetrieveStep
    PROVE  SpreadInv'
  <1>1. CASE RetrieveRecall \/ RetrieveLoadSeeds \/ RetrieveLinks \/ RetrieveNeighbours \/ RetrievePrefetch
    <2>1. rpc \in Early /\ rpc' \in Early /\ energy' = energy
      BY <1>1 DEF RetrieveRecall, RetrieveLoadSeeds, RetrieveLinks, RetrieveNeighbours,
                  RetrievePrefetch, LoadRow, Early
    <2>2. Activated = {}
      BY <2>1 DEF RetTypes, Activated
    <2>3. {x \in Ids : energy[x] > 0} = {}
      BY <2>2 DEF SpreadInv
    <2> QED BY <2>1, <2>3, SpreadInvEarly
  <1>2. CASE RetrieveEnergise
    BY <1>2, SpreadInvEnergise
  <1>3. CASE SpreadHop
    BY <1>3, SpreadInvHop
  <1>4. CASE SpreadStop \/ RetrieveExtra
    BY <1>4, SpreadInvKeep DEF SpreadStop, RetrieveExtra
  <1>5. CASE RetrieveRank
    <2>1. /\ rpc = "rank" /\ query' = query /\ fused' = fused /\ known' = known /\ hop' = hop
          /\ frontier' = frontier /\ energy' = energy /\ trace' = trace /\ reached' = reached
      BY <1>5, Zenon DEF RetrieveRank
    <2> QED BY <2>1, SpreadInvKeep
  <1> QED BY <1>1, <1>2, <1>3, <1>4, <1>5 DEF RetrieveStep

\* Only the last step answers.
LEMMA ResultInvStep ==
    ASSUME RetTypes, RetrieveStep
    PROVE  ResultInv'
  <1>1. CASE RetrieveRank
    BY <1>1, ResultInvRank
  <1>2. CASE ~ RetrieveRank
    <2>1. rpc' # "done"
      BY <1>2, EnergiseEffect, HopEffect
         DEF RetrieveStep, RetrieveRecall, RetrieveLoadSeeds, RetrieveLinks, RetrieveNeighbours,
             RetrievePrefetch, LoadRow, SpreadStop, RetrieveExtra
    <2> QED BY <2>1 DEF ResultInv
  <1> QED BY <1>1, <1>2

\* Every step of every thread keeps it.
LEMMA RetInvNext == RetInv /\ [Next]_readVars => RetInv'
  <1> SUFFICES ASSUME RetInv, [Next]_readVars PROVE RetInv'
    OBVIOUS
  <1>0. StoreInv /\ RetTypes /\ SpreadInv /\ MergeInv /\ CopyInv /\ StaleInv /\ ResultInv /\ StoreInv'
    BY StoreInvNext DEF RetInv
  <1>1. CASE Retrieve
    <2>1. RetrieveStep /\ UNCHANGED storeVars
      BY <1>1 DEF Retrieve
    <2>2. RetTypes'
      BY <1>0, <2>1, RetTypesStep
    <2>3. SpreadInv'
      BY <1>0, <2>1, <2>2, SpreadInvStep
    <2>4. CopyInv' /\ StaleInv' /\ ResultInv'
      BY <1>0, <2>1, CopyInvStep, StaleInvStep, ResultInvStep
    <2>5. MergeInv'
      BY <1>0, <2>1, <2>2, <2>3, MergeInvStep
    <2> QED BY <1>0, <2>2, <2>3, <2>4, <2>5 DEF RetInv
  <1>2. ASSUME UNCHANGED retrieveVars PROVE RetTypes' /\ SpreadInv' /\ MergeInv' /\ ResultInv'
    <2>1. /\ query' = query /\ fused' = fused /\ known' = known /\ hop' = hop /\ rpc' = rpc
          /\ frontier' = frontier /\ energy' = energy /\ trace' = trace /\ reached' = reached
      BY <1>2 DEF retrieveVars
    <2> QED BY <1>0, <1>2, <2>1, RetTypesKeep, SpreadInvKeep, MergeInvKeep, ResultInvKeep
  <1>3. CASE Others
    <2>1. StoreStep /\ UNCHANGED retrieveVars
      BY <1>3 DEF Others
    <2>2. CopyInv' /\ StaleInv'
      BY <1>0, <2>1, CopyInvStore, StaleInvStore
    <2> QED BY <1>0, <1>2, <2>1, <2>2 DEF RetInv
  <1>4. CASE List \/ Traverse \/ ParseTime \/ Associate \/ UNCHANGED readVars
    <2>1. UNCHANGED storeVars /\ UNCHANGED retrieveVars
      BY <1>4 DEF List, Traverse, ParseTime, Associate, readVars
    <2>2. kind' = kind /\ appeared' = appeared /\ changes' = changes
      BY <2>1 DEF storeVars
    <2>3. rpc' = rpc /\ copy' = copy /\ known' = known /\ pending' = pending
      BY <2>1 DEF retrieveVars
    <2>4. CopyInv' = CopyInv
      BY <2>2, <2>3 DEF CopyInv, Missing
    <2>5. StaleInv' = StaleInv
      BY <2>2, <2>3 DEF StaleInv, Stale
    <2> QED BY <1>0, <1>2, <2>1, <2>4, <2>5 DEF RetInv
  <1> QED BY <1>1, <1>3, <1>4 DEF Next

\* So it holds throughout.
LEMMA RetInvAlways == Spec => []RetInv
  BY RetInvInit, RetInvNext, PTL DEF Spec

(***************************************************************************)
(* The theorems.                                                           *)
(***************************************************************************)
\* Every activation trace is a simple path from a seed along edges within the
\* fan-out, whatever the store, the query and the parameters
\* (spread_multi_hop_fused).
THEOREM TracesArePathsAlways == Spec => []TracesArePaths
  <1>1. RetInv => TracesArePaths
    <2> SUFFICES ASSUME RetInv, NEW x \in Activated
                 PROVE  LET t == trace[x] IN
                        /\ t # <<>> /\ Last(t).to = x /\ HopOf(x) <= query.hops
                        /\ t[1].from = 0 /\ t[1].to \in Seeds
                        /\ \A i \in 2..Len(t) : /\ t[i].from = t[i - 1].to
                                                /\ t[i].to \in Targets(TopLinks(t[i].from))
                        /\ \A i, j \in DOMAIN t : i # j => t[i].to # t[j].to
      BY DEF TracesArePaths
    <2>1. GoodTrace(x, trace[x]) /\ hop <= query.hops + 1 /\ x \in Ids
      BY DEF RetInv, SpreadInv
    <2>2. PICK t : t = trace[x]
      OBVIOUS
    <2>3. t \in Seq(TraceStep) /\ hop \in Nat /\ query.hops \in Nat
      BY <2>1, <2>2, RetrievalAssumption DEF RetInv, RetTypes
    <2>4. Len(t) \in 1..hop /\ DOMAIN t = 1..Len(t)
      BY <2>1, <2>2, <2>3 DEF GoodTrace
    <2>5. t # <<>> /\ HopOf(x) <= query.hops
      BY <2>1, <2>2, <2>3, <2>4 DEF HopOf
    <2>6. Last(t) = t[Len(t)]
      BY DEF Last
    <2> QED BY <2>1, <2>2, <2>4, <2>5, <2>6 DEF GoodTrace
  <1> QED BY <1>1, RetInvAlways, PTL

\* Compressed memories and summaries never pass energy on, whatever other threads
\* write, compress, delete or put back between the reads of the call, unless they
\* came into the store while it ran.
THEOREM NoEnergyThroughExcludedAlways == Spec => []NoEnergyThroughExcluded
  <1>1. RetInv => NoEnergyThroughExcluded
    <2> SUFFICES ASSUME RetInv, NEW x \in Activated, NEW i \in 1..HopOf(x)
                 PROVE  SeedExcluded(copy[trace[x][i].to]) => trace[x][i].to \in appeared
      BY DEF NoEnergyThroughExcluded
    <2>1. PICK t, n : t = trace[x] /\ n = Len(t)
      OBVIOUS
    <2>2. GoodTrace(x, t) /\ n \in Nat
      <3>1. GoodTrace(x, t)
        BY <2>1 DEF RetInv, SpreadInv
      <3>2. n \in 1..hop
        BY <2>1, <3>1 DEF GoodTrace
      <3> QED BY <3>1, <3>2
    <2>3. i \in 1..n /\ i + 1 \in 2..n /\ (i + 1) - 1 = i
      BY <2>1, <2>2 DEF HopOf
    <2>4. PICK y : y = t[i].to /\ y \in Activated
      BY <2>1, <2>2, <2>3 DEF GoodTrace
    <2>5. t[i + 1].to \in Targets(TopLinks(y))
      BY <2>1, <2>2, <2>3, <2>4 DEF GoodTrace
    <2>6. TopLinks(y) # <<>>
      BY <2>5 DEF Targets
    <2>7. y \in Ids /\ known \in [Ids -> Seq(Link)]
      BY <2>4 DEF RetInv, SpreadInv, RetTypes
    <2>8. known[y] # <<>>
      BY <2>6, <2>7, TopLinksType
    <2> QED BY <2>1, <2>4, <2>7, <2>8 DEF RetInv, CopyInv
  <1> QED BY <1>1, RetInvAlways, PTL

\* Spreading leaves no edge out that is within the fan-out, above the threshold
\* and within max_hops.
THEOREM SpreadClosedAlways == Spec => []SpreadClosed
  <1>1. RetInv => SpreadClosed
    <2> SUFFICES ASSUME RetInv, Spread, NEW x \in Activated, NEW k \in DOMAIN TopLinks(x),
                        HopOf(x) < query.hops,
                        Propagated(energy[x], TopLinks(x)[k], HopOf(x) + 1) >= MinEnergy
                 PROVE  /\ TopLinks(x)[k].to \in Activated
                        /\ HopOf(TopLinks(x)[k].to) <= HopOf(x) + 1
      BY DEF SpreadClosed
    <2>1. PICK n, y : n = Len(trace[x]) /\ y = TopLinks(x)[k].to
      OBVIOUS
    <2>2. x \in Ids /\ known \in [Ids -> Seq(Link)] /\ hop \in Nat /\ query.hops \in Nat
      BY RetrievalAssumption DEF RetInv, SpreadInv, RetTypes
    <2>3. k \in 1..Len(TopLinks(x))
      BY <2>2, TopLinksType
    <2>4. \A z \in Activated : Len(trace[z]) \in 1..hop
      BY DEF RetInv, SpreadInv, GoodTrace
    <2>5. n \in 1..hop /\ HopOf(x) = n - 1 /\ HopOf(x) + 1 = n /\ n <= query.hops
      BY <2>1, <2>2, <2>4 DEF HopOf
    <2>6. n # hop
      <3> SUFFICES ASSUME n = hop PROVE FALSE
        OBVIOUS
      <3>1. \E i \in 1..Len(frontier) : frontier[i] = x
        BY <2>1 DEF RetInv, SpreadInv
      <3>2. frontier # <<>>
        <4>1. Len(frontier) # 0
          BY <3>1
        <4> QED BY <4>1
      <3>3. hop > query.hops
        BY <3>2 DEF RetInv, SpreadInv, Spread
      <3> QED BY <2>2, <2>5, <3>3
    <2>7. n < hop
      BY <2>2, <2>5, <2>6
    <2>8. PassedOn(x)
      BY <2>1, <2>7 DEF RetInv, SpreadInv
    <2>9. y \in Activated /\ Len(trace[y]) <= n + 1
      BY <2>1, <2>3, <2>5, <2>8 DEF PassedOn
    <2>10. Len(trace[y]) \in Nat
      BY <2>4, <2>9
    <2> QED BY <2>1, <2>5, <2>9, <2>10 DEF HopOf
  <1> QED BY <1>1, RetInvAlways, PTL

\* The answer is the top_k best of the activated memories that are neither gone
\* nor compressed, best first, none twice.
THEOREM ResultsRankedAlways == Spec => []ResultsRanked
  <1>1. RetInv => ResultsRanked
    BY DEF RetInv, ResultInv, Answered, ResultsRanked
  <1> QED BY <1>1, RetInvAlways, PTL

\* A call returns no more dead memories than memories died while it ran.
THEOREM StaleOnlyByRaceAlways == Spec => []StaleOnlyByRace
  <1>1. RetInv => StaleOnlyByRace
    <2> SUFFICES ASSUME RetInv, rpc = "done"
                 PROVE  Cardinality({k \in DOMAIN results : kind[results[k].id] \in Dead}) <= changes
      BY DEF StaleOnlyByRace, Dead
    <2>1. Answered /\ Cardinality(Stale) <= changes /\ changes \in Nat
      BY DEF RetInv, ResultInv, StaleInv, StoreInv
    <2>2. PICK S, f : /\ S = {k \in DOMAIN results : kind[results[k].id] \in Dead}
                      /\ f = [k \in S |-> results[k].id]
      OBVIOUS
    <2>3. S \subseteq 1..Len(results) /\ Len(results) \in Nat
      BY <2>1, <2>2 DEF Answered
    <2>4. \A k \in S : results[k].id \in Stale
      <3>1. \A k \in S : results[k].id \in Candidates
        BY <2>1, <2>3 DEF Answered
      <3>2. Candidates \subseteq Ids
        BY CandidatesReached DEF RetInv
      <3> QED BY <2>2, <3>1, <3>2 DEF Stale, Candidates
    <2>5. f \in Injection(S, Stale)
      <3>1. f \in [S -> Stale]
        BY <2>2, <2>4
      <3>2. \A i, j \in S : f[i] = f[j] => i = j
        BY <2>1, <2>2, <2>3 DEF Answered
      <3> QED BY <3>1, <3>2 DEF Injection, IsInjective
    <2>6. Stale \in SUBSET Ids
      BY DEF Stale
    <2>7. IsFiniteSet(Stale)
      BY <2>6, IdsAreNats
    <2>8. IsFiniteSet(S) /\ Cardinality(S) <= Cardinality(Stale)
      BY <2>5, <2>7, FS_Injection
    <2>9. Cardinality(S) \in Nat /\ Cardinality(Stale) \in Nat
      BY <2>7, <2>8, FS_CardinalityType
    <2> QED BY <2>1, <2>2, <2>8, <2>9
  <1> QED BY <1>1, RetInvAlways, PTL

\* What feedback will strengthen are edges that carried energy, and the guide of
\* every answer one hop from a seed is among them.
THEOREM PathsAreTraversedAlways == Spec => []PathsAreTraversed
  <1>1. RetInv => PathsAreTraversed
    <2> SUFFICES ASSUME RetInv, rpc = "done"
                 PROVE  /\ \A p \in paths : p.from \in Activated /\ p.to \in Targets(TopLinks(p.from))
                        /\ \A k \in DOMAIN results :
                              HopOf(results[k].id) = 1 => \E p \in paths : p.to = results[k].id
      BY DEF PathsAreTraversed
    <2>1. Answered
      BY DEF RetInv, ResultInv
    <2>2. paths = {trace[x][2] : x \in {y \in Activated : Len(trace[y]) > 1}}
      BY <2>1 DEF Answered
    <2>3. \A x \in Activated : GoodTrace(x, trace[x]) /\ Len(trace[x]) \in Nat
      BY DEF RetInv, SpreadInv, GoodTrace
    <2>4. ASSUME NEW p \in paths PROVE p.from \in Activated /\ p.to \in Targets(TopLinks(p.from))
      <3>1. PICK x \in Activated : Len(trace[x]) > 1 /\ p = trace[x][2]
        BY <2>2
      <3>2. PICK t : t = trace[x]
        OBVIOUS
      <3>3. 1 \in 1..Len(t) /\ 2 \in 2..Len(t) /\ 2 - 1 = 1
        BY <2>3, <3>1, <3>2
      <3>4. GoodTrace(x, t)
        BY <2>3, <3>2
      <3>5. t[2].from = t[1].to /\ t[2].to \in Targets(TopLinks(t[2].from)) /\ t[1].to \in Activated
        BY <3>3, <3>4 DEF GoodTrace
      <3> QED BY <3>1, <3>2, <3>5
    <2>5. ASSUME NEW k \in DOMAIN results, HopOf(results[k].id) = 1
          PROVE  \E p \in paths : p.to = results[k].id
      <3>1. PICK x : x = results[k].id
        OBVIOUS
      <3>2. k \in 1..Len(results)
        BY <2>1 DEF Answered
      <3>3. x \in Activated
        BY <2>1, <3>1, <3>2 DEF Answered, Candidates
      <3>4. Len(trace[x]) = 2
        BY <2>3, <2>5, <3>1, <3>3 DEF HopOf
      <3>5. trace[x][2].to = x /\ trace[x][2] \in paths
        BY <2>2, <2>3, <3>3, <3>4 DEF GoodTrace
      <3> QED BY <3>1, <3>5
    <2> QED BY <2>4, <2>5
  <1> QED BY <1>1, RetInvAlways, PTL

\* The edges that carried energy to a node are finitely many.
LEMMA InflowType ==
    ASSUME RetInv, NEW x \in Ids, HopOf(x) > 0, Len(trace[x]) \in Nat
    PROVE  IsFiniteSet(Inflow(x)) /\ Amounts(x) \in [Inflow(x) -> Nat]
  <1>1. Activated \in SUBSET Ids /\ known \in [Ids -> Seq(Link)] /\ energy \in [Ids -> Nat]
    BY DEF RetInv, SpreadInv, RetTypes
  <1>2. IsFiniteSet(Activated) /\ IsFiniteSet(1..FanOut)
    BY <1>1, IdsAreNats, CountTo, RetrievalAssumption
  <1>3. IsFiniteSet(Activated \X (1..FanOut))
    BY <1>2, FS_Product
  <1>4. IsFiniteSet(Inflow(x))
    <2>1. Inflow(x) \subseteq Activated \X (1..FanOut)
      BY DEF Inflow
    <2> QED BY <1>3, <2>1, FS_Subset
  <1>5. HopOf(x) \in Nat
    BY DEF HopOf
  <1>6. ASSUME NEW p \in Inflow(x)
        PROVE  Propagated(energy[p[1]], TopLinks(p[1])[p[2]], HopOf(x)) \in Nat
    <2>1. PICK y, k : y = p[1] /\ k = p[2]
      OBVIOUS
    <2>2. y \in Ids /\ k \in DOMAIN TopLinks(y)
      BY <1>1, <2>1 DEF Inflow
    <2>3. TopLinks(y) \in Seq(Link)
      BY <1>1, <2>2, TopLinksType
    <2>4. TopLinks(y)[k] \in Link
      BY <2>2, <2>3
    <2>5. energy[y] \in Nat
      BY <1>1, <2>2
    <2> QED BY <1>5, <2>1, <2>4, <2>5, PropagatedType
  <1>7. Amounts(x) \in [Inflow(x) -> Nat]
    BY <1>6 DEF Amounts
  <1> QED BY <1>4, <1>7

\* What a node that spreading found holds is at least the best path's energy and
\* at most the sum over all of them, in whatever order they arrive.
THEOREM MergedWithinBoundsAlways == Spec => []MergedWithinBounds
  <1>1. ASSUME RetInv, NEW x \in Activated, HopOf(x) > 0
        PROVE  LET amount(c) == Propagated(energy[c[1]], TopLinks(c[1])[c[2]], HopOf(x))
               IN  /\ Inflow(x) # {}
                   /\ energy[x] >= Max({amount(c) : c \in Inflow(x)})
                   /\ energy[x] <= MapThenSumSet(amount, Inflow(x))
    <2>1. x \in Ids /\ Len(trace[x]) \in Nat /\ energy[x] \in Nat
      BY <1>1 DEF RetInv, SpreadInv, GoodTrace, RetTypes
    <2>2. Bounded(x)
      BY <1>1, <2>1 DEF HopOf, RetInv, MergeInv
    <2>3. PICK S, w : S = Inflow(x) /\ w = Amounts(x)
      OBVIOUS
    <2>4. IsFiniteSet(S) /\ w \in [S -> Nat]
      BY <1>1, <2>1, <2>3, InflowType
    <2>5. \A c \in S : w[c] = Propagated(energy[c[1]], TopLinks(c[1])[c[2]], HopOf(x))
      BY <2>3 DEF Amounts
    <2>6. energy[x] >= Max({Propagated(energy[c[1]], TopLinks(c[1])[c[2]], HopOf(x)) : c \in S})
      <3>1. PICK T : T = {w[c] : c \in S}
        OBVIOUS
      <3>2. IsFiniteSet(T)
        BY <2>4, <3>1, FiniteImage
      <3>3. T \subseteq Int /\ T # {} /\ \A v \in T : energy[x] >= v
        BY <2>2, <2>3, <2>4, <3>1 DEF Bounded
      <3>4. Max(T) \in T
        BY <3>2, <3>3, MaxOf
      <3>5. T = {Propagated(energy[c[1]], TopLinks(c[1])[c[2]], HopOf(x)) : c \in S}
        BY <2>5, <3>1
      <3> QED BY <3>3, <3>4, <3>5
    <2>7. PICK g : Sums(g, S, w) /\ energy[x] <= g[S]
      BY <2>2, <2>3 DEF Bounded
    <2> DEFINE amount(c) == Propagated(energy[c[1]], TopLinks(c[1])[c[2]], HopOf(x))
               Body(f, T) == IF T = {} THEN 0 ELSE amount(Some(T)) + f[T \ {Some(T)}]
               I == CHOOSE f : f = [T \in SUBSET S |-> Body(f, T)]
    <2>8. MapThenSumSet(amount, S) = I[S]
      BY Zenon DEF MapThenSumSet, MapThenFoldSet, Some
    <2>9. \A T \in SUBSET S : T # {} => Some(T) \in S
      BY DEF Some
    <2>10. \A f : \A T \in SUBSET S :
             Body(f, T) = IF T = {} THEN 0 ELSE w[Some(T)] + f[T \ {Some(T)}]
      BY <2>5, <2>9
    <2>11. g = [T \in SUBSET S |-> Body(g, T)]
      <3> HIDE DEF Body
      <3> QED BY <2>7, <2>10 DEF Sums
    <2>12. I = [T \in SUBSET S |-> Body(I, T)]
      <3> HIDE DEF Body
      <3> QED BY <2>11
    <2>13. PICK h : h = I
      OBVIOUS
    <2>14. h = [T \in SUBSET S |-> Body(h, T)]
      <3> HIDE DEF I, Body
      <3> QED BY <2>12, <2>13
    <2>15. AddsUp(h, S, w)
      <3> HIDE DEF I, Body
      <3> QED BY <2>10, <2>14 DEF AddsUp
    <2>16. h = g
      BY <2>4, <2>7, <2>15, SumsUnique
    <2>17. energy[x] <= MapThenSumSet(amount, S)
      <3> HIDE DEF I, amount
      <3> QED BY <2>7, <2>8, <2>13, <2>16
    <2>18. Inflow(x) # {}
      BY <2>2 DEF Bounded
    <2> QED BY <2>3, <2>6, <2>17, <2>18, Zenon
  <1>2. RetInv => MergedWithinBounds
    BY <1>1, Zenon DEF MergedWithinBounds
  <1> QED BY <1>2, RetInvAlways, PTL

(***************************************************************************)
(* Types of all reading calls.                                             *)
(***************************************************************************)
\* The score of a candidate found through a key, in thousandths.
LEMMA CandidateScore ==
    ASSUME fresh \in Fresh, NEW x \in Ids, Grounded(x), NEW total
    PROVE  /\ AssociateScore(CandidateResult(x), total) \in Int
           /\ AssociateScore(CandidateResult(x), total) <= Scale
           /\ MatchedDimensions(x) \subseteq Dimensions
  <1>1. PICK c : c = CandidateResult(x)
    OBVIOUS
  <1>2. MatchedDimensions(x) \subseteq Dimensions /\ MatchedDimensions(x) # {"Semantic"}
    <2>1. MatchedDimensions(x) \subseteq Dimensions
      BY DEF MatchedDimensions, Dimensions
    <2>2. PICK d \in {"Entity", "Topic", "Temporal"} : Shared(x)[d] # {}
      BY DEF Grounded
    <2>3. d \in MatchedDimensions(x) /\ d # "Semantic"
      BY <2>2 DEF MatchedDimensions, KeyDimensions
    <2> QED BY <2>1, <2>3
  <1>3. Cardinality(MatchedDimensions(x)) \in Nat
    <2>1. Dimensions = (({"Entity"} \cup {"Topic"}) \cup ({"Temporal"} \cup {"Goal"}))
                         \cup (({"Event"} \cup {"Causal"}) \cup ({"Emotion"} \cup {"Semantic"}))
      BY DEF Dimensions, KeyDimensions
    <2>2. \A a, b : IsFiniteSet({a} \cup {b})
      BY FS_Singleton, FS_Union
    <2>3. \A a, b, y, z : IsFiniteSet(({a} \cup {b}) \cup ({y} \cup {z}))
      BY <2>2, FS_Union
    <2>4. IsFiniteSet(Dimensions)
      BY <2>1, <2>3, FS_Union
    <2>5. IsFiniteSet(MatchedDimensions(x))
      BY <1>2, <2>4, FS_Subset
    <2> QED BY <2>5, FS_CardinalityType
  <1>4. PICK n \in Nat : n = Cardinality(MatchedDimensions(x))
    BY <1>3
  <1>5. /\ c.dims = MatchedDimensions(x)
        /\ c.Entity = Jaccard(x, "Entity") /\ c.Topic = Jaccard(x, "Topic")
        /\ c.Goal = Jaccard(x, "Goal") /\ c.Event = Jaccard(x, "Event")
        /\ c.Temporal = OverlapRatio(Cardinality(Shared(x)["Temporal"]), n)
        /\ c.Causal = OverlapRatio(Cardinality(Shared(x)["Causal"]), n)
        /\ c.Emotion = OverlapRatio(Cardinality(Shared(x)["Emotion"]), n)
        /\ c.importance = Importance[x]
        /\ c.context = ContextSharedRatio(fresh.context, Contexts[x])
        /\ c.lexical = fresh.lexical[x] /\ c.binary = fresh.binary[x]
    BY <1>1, <1>4 DEF CandidateResult
  <1>6. /\ c.importance \in Int /\ c.importance <= Scale
        /\ c.lexical \in Int /\ c.lexical <= Scale
        /\ c.binary \in Int /\ c.binary <= Scale
    <2>1. /\ Importance \in [Ids -> 0..Scale]
          /\ fresh.lexical \in [Ids -> 0..Scale] /\ fresh.binary \in [Ids -> 0..Scale]
      BY ReadStoreAssumption, AssociationAssumption
    <2>2. Importance[x] \in 0..Scale /\ fresh.lexical[x] \in 0..Scale /\ fresh.binary[x] \in 0..Scale
      BY <2>1
    <2>3. \A v : v \in 0..Scale => v \in Int /\ v <= Scale
      BY DEF Scale
    <2>4. c.importance \in 0..Scale /\ c.lexical \in 0..Scale /\ c.binary \in 0..Scale
      BY <1>5, <2>2, Zenon
    <2> QED  BY <2>3, <2>4, Zenon
  <1>7. c.context \in Int /\ c.context <= Scale
    BY <1>5, ContextBound
  <1>8. {"Entity", "Topic", "Goal", "Event", "Temporal", "Causal", "Emotion"} \subseteq KeyDimensions
    BY DEF KeyDimensions
  <1>9. /\ c.Entity \in Int /\ c.Entity <= Scale /\ c.Topic \in Int /\ c.Topic <= Scale
        /\ c.Goal \in Int /\ c.Goal <= Scale /\ c.Event \in Int /\ c.Event <= Scale
    BY <1>5, <1>8, JaccardBound
  <1>10. /\ c.Temporal \in Int /\ c.Temporal <= Scale /\ c.Causal \in Int /\ c.Causal <= Scale
         /\ c.Emotion \in Int /\ c.Emotion <= Scale
    BY <1>5, <1>8, SharedCount, OverlapBound
  <1>11. /\ Times(200, c.Entity) \in Int /\ Times(100, c.Topic) \in Int
         /\ Times(120, c.Goal) \in Int /\ Times(100, c.Event) \in Int
         /\ Times(100, c.Temporal) \in Int /\ Times(100, c.Causal) \in Int
         /\ Times(50, c.Emotion) \in Int /\ Times(20, c.importance) \in Int
         /\ Times(30, c.context) \in Int
    BY <1>6, <1>7, <1>9, <1>10, TimesBound
  <1>12. Times(180, c.lexical) \in Int /\ Times(100, c.binary) \in Int
    BY <1>6, TimesBound
  <1>13. WeightedSum(c) \in Int
    BY <1>11 DEF WeightedSum
  <1>14. TextScore(c) \in Int /\ Bonus(c) \in Int
    BY <1>12 DEF TextScore, Bonus, MultiDimBonus
  <1>15. AssociateScore(c, total) = Lesser(Scale, WeightedSum(c) + TextScore(c) + Bonus(c))
    BY <1>2, <1>5 DEF AssociateScore
  <1>16. AssociateScore(c, total) \in Int /\ AssociateScore(c, total) <= Scale
    BY <1>13, <1>14, <1>15 DEF Lesser, Scale
  <1> QED BY <1>1, <1>2, <1>16

\* What the invariants of the listing and of the write do not say: the stages, the
\* cursor and the edges built.
CallTypes ==
    /\ lpc \in {"idle", "pages", "done"} /\ cursor \in Ids \cup {0}
    /\ apc \in {"idle", "discover", "load", "done"}
    /\ \A e \in built : e.strength \in EdgeBuildMinScore..Scale /\ e.dims \subseteq Dimensions

\* They hold at the start,
LEMMA CallTypesInit == Init => CallTypes
  BY DEF Init, BrowseInit, AssociateInit, CallTypes

\* where nothing of the two calls changes,
LEMMA CallTypesKeep ==
    ASSUME CallTypes, UNCHANGED <<lpc, cursor, apc, built>>
    PROVE  CallTypes'
  BY DEF CallTypes

\* after a page,
LEMMA CallTypesPage ==
    ASSUME CallTypes, PageInv', ListPage, UNCHANGED associateVars
    PROVE  CallTypes'
  <1>1. apc' = apc /\ built' = built
    BY DEF associateVars
  <1>2. lpc = "pages" /\ (lpc' = lpc \/ (cursor' = 0 /\ lpc' = "done"))
    BY Zenon DEF ListPage
  <1>3. CASE lpc' = lpc
    <2>1. listed' \in Seq(Ids)
      BY DEF PageInv
    <2>2. cursor' = IF Len(listed') = 0 THEN 0 ELSE listed'[Len(listed')]
      BY <1>2, <1>3 DEF PageInv
    <2>3. Len(listed') # 0 => listed'[Len(listed')] \in Ids
      BY <2>1
    <2> QED BY <1>1, <1>3, <2>2, <2>3 DEF CallTypes
  <1>4. CASE cursor' = 0 /\ lpc' = "done"
    BY <1>1, <1>4 DEF CallTypes
  <1> QED BY <1>2, <1>3, <1>4

\* after a step of the write,
LEMMA CallTypesAssociate ==
    ASSUME CallTypes, AssociateInv, AssociateStep, UNCHANGED listVars
    PROVE  CallTypes'
  <1>0. lpc' = lpc /\ cursor' = cursor
    BY DEF listVars
  <1>1. CASE AssociateDiscover
    BY <1>0, <1>1 DEF AssociateDiscover, CallTypes
  <1>2. CASE AssociateLoad
    BY <1>0, <1>2 DEF AssociateLoad, CallTypes
  <1>3. CASE AssociateBuild
    <2>1. PICK K \in SUBSET existing :
              built' = UNION {BuildEdges(u, Cardinality(existing) + 1) : u \in K}
      BY <1>3 DEF AssociateBuild
    <2>2. ASSUME NEW u \in K, NEW total, NEW e \in BuildEdges(u, total)
          PROVE  e.strength \in EdgeBuildMinScore..Scale /\ e.dims \subseteq Dimensions
      <3>1. u.id \in Ids /\ Grounded(u.id) /\ fresh \in Fresh
        BY DEF AssociateInv
      <3>2. PICK score : score = AssociateScore(CandidateResult(u.id), total)
        OBVIOUS
      <3>3. e.dims = CandidateResult(u.id).dims /\ e.strength = score /\ score >= EdgeBuildMinScore
        BY <2>2, <3>2 DEF BuildEdges
      <3>4. score \in Int /\ score <= Scale /\ MatchedDimensions(u.id) \subseteq Dimensions
        BY <3>1, <3>2, CandidateScore
      <3>5. e.dims = MatchedDimensions(u.id)
        BY <3>3 DEF CandidateResult
      <3>6. score \in EdgeBuildMinScore..Scale
        BY <3>3, <3>4 DEF EdgeBuildMinScore, Scale
      <3> QED BY <3>3, <3>4, <3>5, <3>6
    <2>3. \A e \in built' : e.strength \in EdgeBuildMinScore..Scale /\ e.dims \subseteq Dimensions
      BY <2>1, <2>2
    <2>4. apc' = "done"
      BY <1>3 DEF AssociateBuild
    <2> QED BY <1>0, <2>3, <2>4 DEF CallTypes
  <1> QED BY <1>1, <1>2, <1>3 DEF AssociateStep

\* and after any step.
LEMMA CallTypesNext ==
    CallTypes /\ AssociateInv /\ PageInv /\ [Next]_readVars => CallTypes'
  <1> SUFFICES ASSUME CallTypes, AssociateInv, PageInv, [Next]_readVars PROVE CallTypes'
    OBVIOUS
  <1>1. CASE List
    BY <1>1, PageInvNext, CallTypesPage DEF List
  <1>2. CASE Associate
    BY <1>2, CallTypesAssociate DEF Associate
  <1>3. CASE Retrieve \/ Traverse \/ ParseTime \/ Others \/ UNCHANGED readVars
    <2>1. UNCHANGED listVars /\ UNCHANGED associateVars
      BY <1>3 DEF Retrieve, Traverse, ParseTime, Others, readVars
    <2>2. UNCHANGED <<lpc, cursor, apc, built>>
      BY <2>1 DEF listVars, associateVars
    <2> QED BY <2>2, CallTypesKeep
  <1> QED BY <1>1, <1>2, <1>3 DEF Next

\* A retrieval holds what its type says.
LEMMA RetrieveTypes ==
    ASSUME RetInv
    PROVE  RetrieveTypeOK
  <1>1. RetTypes
    BY DEF RetInv
  <1>2. results \in Seq([id : Ids, score : Nat]) /\ paths \subseteq [from : Ids, to : Ids]
    <2>1. CASE rpc # "done"
      BY <1>1, <2>1 DEF RetTypes
    <2>2. CASE rpc = "done"
      <3>1. Answered
        BY <2>2 DEF RetInv, ResultInv
      <3>2. paths = {trace[x][2] : x \in {y \in Activated : Len(trace[y]) > 1}}
        BY <3>1 DEF Answered
      <3>3. ASSUME NEW x \in Activated, Len(trace[x]) > 1
            PROVE  trace[x][2] \in [from : Ids, to : Ids]
        <4>1. PICK t : t = trace[x]
          OBVIOUS
        <4>2. x \in Ids /\ GoodTrace(x, t)
          BY <4>1 DEF RetInv, SpreadInv
        <4>3. t \in Seq(TraceStep)
          BY <1>1, <4>1, <4>2 DEF RetTypes
        <4>4. 2 \in 1..Len(t) /\ 1 \in 1..Len(t) /\ 2 \in 2..Len(t) /\ 2 - 1 = 1
          BY <3>3, <4>1, <4>3
        <4>5. t[2] \in TraceStep /\ t[1] \in TraceStep
          BY <4>3, <4>4
        <4>6. t[2].from = t[1].to
          BY <4>2, <4>4 DEF GoodTrace
        <4>7. t[2].from \in Ids /\ t[2].to \in Ids /\ t[2] = [from |-> t[2].from, to |-> t[2].to]
          BY <4>5, <4>6 DEF TraceStep
        <4> QED BY <4>1, <4>7
      <3> QED BY <3>1, <3>2, <3>3 DEF Answered
    <2> QED BY <2>1, <2>2
  <1> QED BY <1>1, <1>2 DEF RetTypes, RetrieveTypeOK, TraceStep

\* A listing and a traversal do,
LEMMA BrowseTypes ==
    ASSUME StoreInv, TravInv, PageInv, CallTypes
    PROVE  BrowseTypeOK
  <1>1. visited \subseteq Ids /\ queue \in Seq(Entry) /\ nodes \in Seq(Report)
    <2>1. CASE tpc \in {"idle", "start", "NotFound"}
      <3>1. queue = <<>> /\ visited = {} /\ nodes = <<>>
        BY <2>1 DEF TravInv
      <3> QED BY <3>1
    <2>2. CASE tpc \in {"bfs", "done"}
      <3>1. traversal \in TraverseCalls
        BY DEF TravInv
      <3>2. PICK w : Reads(w)
        BY <3>1, ReadsBall
      <3>3. Graph(w) /\ Visits(w, queue, visited, nodes)
        BY <2>2, <3>2 DEF TravInv, Reads
      <3>4. w.depth \in Nat /\ w.ball \in [Nat -> SUBSET Ids]
        BY <3>3 DEF Graph
      <3>5. visited \subseteq w.ball[w.depth] /\ QueueOK(w, queue, visited) /\ NodesOK(w, nodes, visited)
        BY <3>3 DEF Visits
      <3> QED BY <3>4, <3>5 DEF QueueOK, NodesOK
    <2> QED BY <2>1, <2>2 DEF TravInv
  <1>2. listed \in Seq(Ids) /\ tpc \in {"idle", "start", "bfs", "done", "NotFound"}
    BY DEF PageInv, TravInv
  <1> QED BY <1>1, <1>2 DEF CallTypes, BrowseTypeOK, Entry, Report

\* and so does the parser.
LEMMA TimeTypes ==
    ASSUME TimeInv
    PROVE  TimeTypeOK
  <1>1. spec.kind \in {"none", "day", "range"}
    BY ParseIsSpec DEF TimeInv, IsSpec
  <1>2. today \in Int
    <2>1. PICK y, m, d : y = date.y /\ m = date.m /\ d = date.d
      OBVIOUS
    <2>2. ValidDate(y, m, d) /\ today = DaysFromCivil(y, m, d)
      BY <2>1 DEF TimeInv, OnDate
    <2>3. y \in Nat /\ y > 1 /\ m \in 1..12
      BY <2>2, SMT DEF ValidDate
    <2>4. MonthDays(y, m) \in 28..31
      BY <2>3, LastDayIsInt
    <2>5. d \in Int
      BY <2>2, <2>4 DEF ValidDate
    <2> QED BY <2>2, <2>3, <2>5, DayIsInt
  <1> QED BY <1>1, <1>2 DEF TimeTypeOK

\* Every variable of every reading call keeps its type, whatever the stores, the
\* inputs and the other threads: what a retrieval loads, activates and returns,
\* the pages of a listing, the queue of a traversal, the parsed time and the edges
\* of a write with their strengths and dimensions.
THEOREM ReadCallsTypeCorrect == Spec => []TypeOK
  <1> DEFINE Inv == TravInv /\ PageInv /\ AssociateInv /\ CallTypes
  <1>1. Init => Inv
    BY TravInvInit, PageInvInit, AssociateInvInit, CallTypesInit
  <1>2. RetInv /\ Inv /\ [Next]_readVars => Inv'
    BY TravInvNext, PageInvNext, AssociateInvNext, CallTypesNext DEF RetInv
  <1>3. RetInv /\ Inv /\ TimeInv => TypeOK
    <2> SUFFICES ASSUME RetInv, Inv, TimeInv PROVE TypeOK
      OBVIOUS
    <2>1. StoreInv
      BY DEF RetInv
    <2>2. StoreTypeOK
      <3>1. MaxChanges[call] \in Nat
        BY <2>1, ReadStoreAssumption DEF StoreInv
      <3> QED BY <2>1, <3>1 DEF StoreInv, KindsInv, StoreTypeOK
    <2>3. RetrieveTypeOK /\ BrowseTypeOK /\ TimeTypeOK
      BY <2>1, RetrieveTypes, BrowseTypes, TimeTypes
    <2>4. AssociateTypeOK
      BY DEF AssociateInv, CallTypes, AssociateTypeOK
    <2> QED BY <2>2, <2>3, <2>4 DEF TypeOK
  <1> HIDE DEF Inv
  <1> QED BY <1>1, <1>2, <1>3, RetInvAlways, TimeInvariance, PTL DEF Spec
=============================================================================
