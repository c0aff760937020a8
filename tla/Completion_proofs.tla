-------------------------- MODULE Completion_proofs --------------------------
(***************************************************************************)
(* Completion, for every number of PEs: its type invariant, rounds that do *)
(* not overlap, and no completion that is false.  All three come from one  *)
(* inductive invariant, Safe.                                              *)
(***************************************************************************)
EXTENDS Completion, FiniteSetTheorems, TLAPS

(***************************************************************************)
(* Facts about SumFunctionOnSet(f, S), the sum of f[x] for x in S.  The    *)
(* sum is a fold, that is, a recursive function on SUBSET S that TLA+      *)
(* defines by CHOOSE: the first lemmas show that there is such a function, *)
(* the others what its value says about f.  Each is shown for the smallest *)
(* subset of S that could be an exception.                                 *)
(***************************************************************************)

(* The element that the fold takes first. *)
First(s) == CHOOSE x \in s : TRUE

(* g is the recursive function that sums f on the subsets of A. *)
Sums(g, f, A) ==
  g = [s \in SUBSET A |-> IF s = {} THEN 0 ELSE f[First(s)] + g[s \ {First(s)}]]

LEMMA FirstIn == \A s : s # {} => First(s) \in s
  BY DEF First

LEMMA SumIsChosen ==
  \A f, S : SumFunctionOnSet(f, S) = (CHOOSE g : Sums(g, f, S))[S]
  BY DEF SumFunctionOnSet, FoldFunctionOnSet, MapThenFoldSet, Sums, First

(* A set of subsets of a finite set has a smallest member. *)
LEMMA SmallestSubset ==
  ASSUME NEW S, IsFiniteSet(S), NEW T \in SUBSET SUBSET S, T # {}
  PROVE  \E A \in T : \A B \in T : B \subseteq A => B = A
  <1>1. IsWellFoundedOn(StrictSubsetOrdering(S), SUBSET S)
    BY FS_StrictSubsetOrderingWellFounded, FS_FiniteSubsetsOfFinite
  <1>2. PICK A \in T : \A B \in T : ~(<<B, A>> \in StrictSubsetOrdering(S))
    BY <1>1, WFMin
  <1>3. \A B \in T : B \subseteq A => B = A
    BY <1>2 DEF StrictSubsetOrdering
  <1>4. QED
    BY <1>3

(* Two such functions agree where both are defined. *)
LEMMA SumsAgree ==
  ASSUME NEW S, IsFiniteSet(S), NEW f, NEW A \in SUBSET S, NEW B \in SUBSET S,
         NEW g, NEW h, Sums(g, f, A), Sums(h, f, B)
  PROVE  \A s \in SUBSET (A \cap B) : g[s] = h[s]
  <1> DEFINE Bad == {s \in SUBSET (A \cap B) : g[s] # h[s]}
  <1>1. SUFFICES ASSUME Bad # {} PROVE FALSE
    OBVIOUS
  <1>2. Bad \in SUBSET SUBSET S
    OBVIOUS
  <1> HIDE DEF Bad
  <1>3. PICK s \in Bad : \A t \in Bad : t \subseteq s => t = s
    BY <1>1, <1>2, SmallestSubset
  <1> USE DEF Bad
  <1>4. s \in SUBSET A /\ s \in SUBSET B /\ g[s] # h[s]
    OBVIOUS
  <1>5. g[s] = IF s = {} THEN 0 ELSE f[First(s)] + g[s \ {First(s)}]
    BY <1>4 DEF Sums
  <1>6. h[s] = IF s = {} THEN 0 ELSE f[First(s)] + h[s \ {First(s)}]
    BY <1>4 DEF Sums
  <1>7. s # {}
    BY <1>4, <1>5, <1>6
  <1>8. First(s) \in s
    BY <1>7, FirstIn
  <1>9. s \ {First(s)} \in SUBSET (A \cap B) /\ s \ {First(s)} # s
    BY <1>4, <1>8
  <1>10. g[s \ {First(s)}] = h[s \ {First(s)}]
    BY <1>3, <1>9
  <1>11. QED
    BY <1>4, <1>5, <1>6, <1>10

LEMMA SumsExists ==
  ASSUME NEW S, IsFiniteSet(S), NEW f
  PROVE  \E g : Sums(g, f, S)
  <1> DEFINE Bad == {A \in SUBSET S : ~ \E g : Sums(g, f, A)}
  <1>1. SUFFICES ASSUME Bad # {} PROVE FALSE
    OBVIOUS
  <1>2. Bad \in SUBSET SUBSET S
    OBVIOUS
  <1> HIDE DEF Bad
  <1>3. PICK A \in Bad : \A B \in Bad : B \subseteq A => B = A
    BY <1>1, <1>2, SmallestSubset
  <1> USE DEF Bad
  <1>4. A \in SUBSET S /\ ~ \E g : Sums(g, f, A)
    OBVIOUS
  <1>5. \A B \in SUBSET A : B # A => \E g : Sums(g, f, B)
    BY <1>3, <1>4
  <1> DEFINE Of(B) == CHOOSE g : Sums(g, f, B)
             Rest(s) == s \ {First(s)}
             G == [s \in SUBSET A |-> IF s = {} THEN 0 ELSE f[First(s)] + Of(Rest(s))[Rest(s)]]
  <1>6. \A B \in SUBSET A : B # A => Sums(Of(B), f, B)
    BY <1>5
  <1> HIDE DEF Of
  <1>7. ASSUME NEW s \in SUBSET A, s # {}
        PROVE  G[Rest(s)] = Of(Rest(s))[Rest(s)]
    <2>1. First(s) \in s
      BY <1>7, FirstIn
    <2>2. Rest(s) \in SUBSET A /\ Rest(s) # A
      BY <2>1
    <2>3. Sums(Of(Rest(s)), f, Rest(s))
      BY <1>6, <2>2
    <2>4. CASE Rest(s) = {}
      <3>1. G[Rest(s)] = 0
        BY <2>2, <2>4
      <3>2. Of(Rest(s))[Rest(s)] = 0
        BY <2>3, <2>4 DEF Sums
      <3>3. QED
        BY <3>1, <3>2
    <2>5. CASE Rest(s) # {}
      <3> DEFINE r == Rest(s)
      <3>1. First(r) \in r
        BY <2>5, FirstIn
      <3>2. Rest(r) \in SUBSET A /\ Rest(r) # A /\ Rest(r) \in SUBSET r
        BY <2>2, <3>1
      <3>3. Sums(Of(Rest(r)), f, Rest(r))
        BY <1>6, <3>2
      <3>4. Of(r)[Rest(r)] = Of(Rest(r))[Rest(r)]
        <4>1. Rest(r) \in SUBSET (r \cap Rest(r))
          BY <3>2
        <4>2. r \in SUBSET S /\ Rest(r) \in SUBSET S
          BY <1>4, <2>2, <3>2
        <4>3. QED
          BY <2>3, <3>3, <4>1, <4>2, SumsAgree
      <3>5. Of(r)[r] = f[First(r)] + Of(r)[Rest(r)]
        BY <2>3, <2>5 DEF Sums
      <3>6. G[r] = f[First(r)] + Of(Rest(r))[Rest(r)]
        BY <2>2, <2>5
      <3>7. QED
        BY <3>4, <3>5, <3>6
    <2>6. QED
      BY <2>4, <2>5
  <1>8. Sums(G, f, A)
    <2>1. G = [s \in SUBSET A |-> IF s = {} THEN 0 ELSE f[First(s)] + G[Rest(s)]]
      BY <1>7
    <2>2. QED
      BY <2>1 DEF Sums
  <1>9. QED
    BY <1>4, <1>8

-----------------------------------------------------------------------------
(* The equations a reader expects of the sum. *)
LEMMA SumUnfold ==
  ASSUME NEW S, IsFiniteSet(S), NEW f
  PROVE  SumFunctionOnSet(f, S) =
           IF S = {} THEN 0
           ELSE f[First(S)] + SumFunctionOnSet(f, S \ {First(S)})
  <1> DEFINE R == S \ {First(S)}
             h == CHOOSE g : Sums(g, f, S)
             k == CHOOSE g : Sums(g, f, R)
  <1>1. IsFiniteSet(R) /\ R \in SUBSET S
    BY FS_Subset
  <1>2. Sums(h, f, S) /\ Sums(k, f, R)
    BY <1>1, SumsExists
  <1>3. SumFunctionOnSet(f, S) = h[S] /\ SumFunctionOnSet(f, R) = k[R]
    BY SumIsChosen
  <1> HIDE DEF h, k
  <1>4. h[R] = k[R]
    <2>1. R \in SUBSET (S \cap R)
      OBVIOUS
    <2>2. S \in SUBSET S /\ R \in SUBSET S
      OBVIOUS
    <2> HIDE DEF R
    <2>3. \A s \in SUBSET (S \cap R) : h[s] = k[s]
      BY <1>2, <2>2, SumsAgree
    <2>4. QED
      BY <2>1, <2>3
  <1>5. h[S] = IF S = {} THEN 0 ELSE f[First(S)] + h[R]
    BY <1>2 DEF Sums
  <1>6. QED
    BY <1>3, <1>4, <1>5

(* The sum of numbers up to n is a number, and at most n for each of them. *)
LEMMA SumBound ==
  ASSUME NEW S, IsFiniteSet(S), NEW n \in Nat, NEW f, \A x \in S : f[x] \in 0 .. n
  PROVE  SumFunctionOnSet(f, S) \in 0 .. n * Cardinality(S)
  <1> DEFINE Sum(A) == SumFunctionOnSet(f, A)
             Bad == {A \in SUBSET S : Sum(A) \notin 0 .. n * Cardinality(A)}
  <1>1. SUFFICES ASSUME Bad # {} PROVE FALSE
    OBVIOUS
  <1>2. Bad \in SUBSET SUBSET S
    OBVIOUS
  <1> HIDE DEF Bad
  <1>3. PICK A \in Bad : \A B \in Bad : B \subseteq A => B = A
    BY <1>1, <1>2, SmallestSubset
  <1> USE DEF Bad
  <1> DEFINE R == A \ {First(A)}
  <1>4. A \in SUBSET S /\ Sum(A) \notin 0 .. n * Cardinality(A) /\ IsFiniteSet(A)
    BY FS_Subset
  <1>5. A # {}
    <2>1. SUFFICES ASSUME A = {} PROVE FALSE
      OBVIOUS
    <2>2. Sum(A) = 0
      BY <1>4, <2>1, SumUnfold
    <2>3. n * Cardinality(A) = 0
      BY <2>1, FS_EmptySet
    <2>4. QED
      BY <1>4, <2>2, <2>3
  <1>6. First(A) \in A /\ f[First(A)] \in 0 .. n
    BY <1>4, <1>5, FirstIn
  <1>7. IsFiniteSet(R) /\ Cardinality(R) = Cardinality(A) - 1 /\ Cardinality(A) \in Nat
    BY <1>4, <1>6, FS_RemoveElement, FS_CardinalityType
  <1>8. Sum(R) \in 0 .. n * Cardinality(R)
    BY <1>3, <1>4, <1>6
  <1>9. Sum(A) = f[First(A)] + Sum(R)
    BY <1>4, <1>5, SumUnfold
  <1> HIDE DEF R, Sum, Bad
  <1>10. n * Cardinality(R) = n * Cardinality(A) - n
    <2> DEFINE c == Cardinality(A)
    <2>1. c \in Int /\ Cardinality(R) = c - 1
      BY <1>7
    <2> HIDE DEF c
    <2>2. n * (c - 1) = n * c - n
      BY <2>1
    <2>3. QED
      BY <2>1, <2>2 DEF c
  <1>11. n * Cardinality(A) \in Int
    BY <1>7
  <1> DEFINE m == n * Cardinality(A)
  <1>12. m \in Int /\ Sum(R) \in 0 .. m - n /\ Sum(A) \notin 0 .. m
    BY <1>4, <1>8, <1>10, <1>11
  <1> HIDE DEF m
  <1>13. QED
    BY <1>6, <1>9, <1>12

(* Numbers that are never negative sum to zero only when they are all zero. *)
LEMMA SumZero ==
  ASSUME NEW S, IsFiniteSet(S), NEW n \in Nat, NEW f, \A x \in S : f[x] \in 0 .. n,
         SumFunctionOnSet(f, S) = 0
  PROVE  \A x \in S : f[x] = 0
  <1> DEFINE Sum(A) == SumFunctionOnSet(f, A)
             Bad == {A \in SUBSET S : Sum(A) = 0 /\ \E x \in A : f[x] # 0}
  <1>1. SUFFICES ASSUME Bad # {} PROVE FALSE
    OBVIOUS
  <1>2. Bad \in SUBSET SUBSET S
    OBVIOUS
  <1> HIDE DEF Bad
  <1>3. PICK A \in Bad : \A B \in Bad : B \subseteq A => B = A
    BY <1>1, <1>2, SmallestSubset
  <1> USE DEF Bad
  <1> DEFINE R == A \ {First(A)}
  <1>4. A \in SUBSET S /\ Sum(A) = 0 /\ (\E x \in A : f[x] # 0) /\ IsFiniteSet(A)
    BY FS_Subset
  <1>5. First(A) \in A /\ f[First(A)] \in 0 .. n
    BY <1>4, FirstIn
  <1>6. Sum(A) = f[First(A)] + Sum(R)
    BY <1>4, SumUnfold
  <1>7. Sum(R) \in Nat
    <2>1. IsFiniteSet(R) /\ \A x \in R : f[x] \in 0 .. n
      BY <1>4, FS_Subset
    <2>2. Sum(R) \in 0 .. n * Cardinality(R)
      BY <2>1, SumBound
    <2>3. n * Cardinality(R) \in Int
      BY <2>1, FS_CardinalityType
    <2>4. QED
      BY <2>2, <2>3
  <1>8. f[First(A)] = 0 /\ Sum(R) = 0
    BY <1>4, <1>5, <1>6, <1>7
  <1>9. R \in Bad /\ R \subseteq A /\ R # A
    BY <1>4, <1>5, <1>8
  <1>10. QED
    BY <1>3, <1>9

-----------------------------------------------------------------------------

(* The PEs that have handled produce, with a local branch of detector. *)
Producers == {p \in Pes : handled[p] > 0 /\ p \in branch}

(* A PE's count follows from the number of broadcasts it has handled. *)
CountsEvents ==
  \A p \in Pes :
    /\ handled[p] <= handled[Root]
    /\ pe[p] = "recursing" => lcount[p] = 0 /\ p \notin branch /\ handled[p] = 1
    /\ pe[p] # "recursing" =>
         /\ lcount[p] = IF handled[p] = 0 THEN 0 ELSE Broadcasts - handled[p]
         /\ handled[p] > 0 => p \in branch

(* Every produce has broadcast one consume. *)
EventsConserved == toRoot + handled[Root] = 1 + Cardinality(Producers)

(* The root starts the detection, and is the first to take part. *)
RootDetectsFirst ==
  /\ started => handled[Root] >= 2 /\ Root \in branch
  /\ detecting \subseteq branch
  /\ detecting # {} => Root \in detecting /\ started

(* The root is also the first to contribute to a round. *)
RootContributesFirst ==
  /\ result[Root] = None
  /\ \A p \in Pes :
       /\ result[p] # None => p \notin complete
       /\ \/ contributed[p] # None
          \/ result[p] \notin {None, 0}
          \/ p \notin detecting /\ Root \in detecting
          => contributed[Root] # None

(* Once the root has contributed zero, who contributes zero has finished. *)
ZeroIsFinal ==
  contributed[Root] = 0 =>
    \A p \in Pes : p = Root \/ contributed[p] = 0 => handled[p] = Broadcasts

(* A sum of zero, on its way or received, is told when all is done. *)
ZeroSumIsTrue ==
  complete # {} \/ (\E p \in Pes : result[p] = 0) =>
    toRoot = 0 /\ \A p \in Pes : handled[p] = Broadcasts

Safe ==
  /\ TypeOK /\ CountsEvents /\ EventsConserved
  /\ RootDetectsFirst /\ RoundsApart /\ RootContributesFirst
  /\ ZeroIsFinal /\ ZeroSumIsTrue

-----------------------------------------------------------------------------
LEMMA PesFacts ==
  /\ Root \in Pes /\ IsFiniteSet(Pes) /\ Cardinality(Pes) = NPes
  /\ NPes \in Nat /\ NPes >= 1 /\ NPes * NPes \in Nat
  /\ None \in Int /\ None < 0 /\ Broadcasts = NPes + 1
  <1>1. NPes \in Nat /\ NPes >= 1
    BY CompletionAssumption
  <1>2. IsFiniteSet(Pes) /\ Cardinality(Pes) = NPes
    BY <1>1, FS_Interval DEF Pes
  <1>3. NPes * NPes \in Nat
    BY <1>1
  <1>4. None \in Int /\ None < 0
    BY <1>3 DEF None
  <1>5. QED
    BY <1>1, <1>2, <1>3, <1>4 DEF Root, Pes, Broadcasts

LEMMA ProducersFacts ==
  /\ IsFiniteSet(Producers) /\ Cardinality(Producers) \in 0 .. NPes
  /\ Cardinality(Producers) = NPes => Producers = Pes
  BY PesFacts, FS_Subset, FS_CardinalityType DEF Producers

(* The root has handled all its broadcasts only when no PE is behind. *)
LEMMA AllProduced ==
  ASSUME TypeOK, EventsConserved, CountsEvents, handled[Root] = Broadcasts
  PROVE  toRoot = 0 /\ \A p \in Pes : handled[p] > 0 /\ p \in branch
  <1>1. Cardinality(Producers) = NPes /\ toRoot = 0
    BY PesFacts, ProducersFacts DEF TypeOK, EventsConserved
  <1>2. QED
    BY <1>1, ProducersFacts DEF Producers

LEMMA InitSafe == Init => Safe
  <1> SUFFICES ASSUME Init PROVE Safe
    OBVIOUS
  <1> USE PesFacts
  <1>1. TypeOK
    <2>1. toRoot \in 0 .. NPes
      BY DEF Init
    <2>0. started \in BOOLEAN /\ fifo \in Layers
      BY Zenon DEF Init
    <2>2. handled \in [Pes -> 0 .. Broadcasts] /\ lcount \in [Pes -> 0 .. NPes]
      BY DEF Init
    <2>3. contributed \in [Pes -> {None} \cup (0 .. NPes)]
          /\ result \in [Pes -> {None} \cup (0 .. NPes * NPes)]
      BY DEF Init
    <2>4. pe \in [Pes -> {"running", "recursing", "exited"}]
      BY DEF Init
    <2>5. QED
      BY <2>0, <2>1, <2>2, <2>3, <2>4 DEF Init, TypeOK
  <1>2. EventsConserved
    <2>1. Producers = {}
      BY DEF Init, Producers
    <2>2. QED
      BY <2>1, FS_EmptySet DEF Init, EventsConserved
  <1>3. CountsEvents /\ RootDetectsFirst /\ RoundsApart
    BY DEF Init, CountsEvents, RootDetectsFirst, RoundsApart
  <1>4. RootContributesFirst /\ ZeroIsFinal /\ ZeroSumIsTrue
    BY DEF Init, RootContributesFirst, ZeroIsFinal, ZeroSumIsTrue
  <1>5. QED
    BY <1>1, <1>2, <1>3, <1>4 DEF Safe

(* The constructor of a branch, where nothing has been handled yet. *)
LEMMA ConstructBranchSafe ==
  ASSUME Safe, NEW p \in Pes, ConstructBranch(p)
  PROVE  Safe'
  <1> USE PesFacts DEF Safe, ConstructBranch
  <1>1. handled[p] = 0
    BY DEF CountsEvents, TypeOK
  <1>2. TypeOK'
    BY DEF TypeOK
  <1>3. CountsEvents'
    BY DEF CountsEvents
  <1>4. EventsConserved'
    <2>1. Producers' = Producers
      BY <1>1 DEF Producers
    <2>2. QED
      BY <2>1 DEF EventsConserved
  <1>5. RootDetectsFirst' /\ RoundsApart'
    BY DEF RootDetectsFirst, RoundsApart
  <1>6. RootContributesFirst' /\ ZeroIsFinal' /\ ZeroSumIsTrue'
    BY DEF RootContributesFirst, ZeroIsFinal, ZeroSumIsTrue
  <1>7. QED
    BY <1>2, <1>3, <1>4, <1>5, <1>6

(* No broadcast is left once all have been handled. *)
LEMMA HandleNextNotFinal ==
  ASSUME Safe, NEW p \in Pes, HandleNext(p)
  PROVE  /\ handled[p] < Broadcasts
         /\ ~(toRoot = 0 /\ \A q \in Pes : handled[q] = Broadcasts)
         /\ p # Root => contributed[Root] # 0 \/ contributed[p] # 0
  <1> USE PesFacts
  <1>1. CASE p = Root
    <2>1. handled[Root] # Broadcasts
      BY <1>1, AllProduced DEF Safe, HandleNext, TypeOK
    <2>2. QED
      BY <1>1, <2>1 DEF Safe, TypeOK
  <1>2. CASE p # Root
    <2>1. handled[p] < handled[Root] /\ handled[Root] <= Broadcasts
          /\ handled[p] \in Nat /\ handled[Root] \in Nat
      BY <1>2 DEF Safe, HandleNext, TypeOK
    <2>2. handled[p] < Broadcasts /\ handled[p] # Broadcasts
      BY <2>1
    <2>3. QED
      BY <1>2, <2>2 DEF Safe, ZeroIsFinal
  <1>3. QED
    BY <1>1, <1>2

LEMMA ProduceSafe ==
  ASSUME Safe, NEW p \in Pes, Produce(p)
  PROVE  Safe'
  <1> USE PesFacts DEF Safe, Produce, HandleNext, TakenFromRoot, Produced
  <1>1. handled[p] = 0 /\ p \in branch /\ pe[p] = "running" /\ lcount[p] = 0
    BY DEF CountsEvents, TypeOK
  <1>2. /\ handled' = [handled EXCEPT ![p] = 1]
        /\ lcount' = [lcount EXCEPT ![p] = NPes]
        /\ toRoot' = IF p = Root THEN toRoot ELSE toRoot + 1
    BY <1>1 DEF TypeOK
  <1>3. EventsConserved'
    <2>1. Producers' = Producers \cup {p} /\ p \notin Producers
      BY <1>1, <1>2 DEF Producers, TypeOK
    <2>2. Cardinality(Producers') = Cardinality(Producers) + 1
      BY <2>1, ProducersFacts, FS_AddElement
    <2>3. QED
      BY <1>1, <1>2, <2>2, ProducersFacts DEF EventsConserved, TypeOK
  <1>4. TypeOK'
    <2>1. handled' \in [Pes -> 0 .. Broadcasts] /\ lcount' \in [Pes -> 0 .. NPes]
      BY <1>2 DEF TypeOK
    <2>2. Cardinality(Producers') \in 0 .. NPes /\ handled'[Root] >= 1
      <3>1. IsFiniteSet(Producers') /\ Producers' \in SUBSET Pes
        BY FS_Subset DEF Producers
      <3>2. QED
        BY <1>1, <1>2, <3>1, FS_Subset, FS_CardinalityType DEF TypeOK, CountsEvents
    <2>3. toRoot' \in 0 .. NPes
      BY <1>2, <2>1, <2>2, <1>3 DEF TypeOK, EventsConserved
    <2>4. QED
      BY <2>1, <2>3 DEF TypeOK
  <1>5. CountsEvents'
    BY <1>1, <1>2 DEF CountsEvents, TypeOK
  <1>6. RootDetectsFirst' /\ RoundsApart'
    BY <1>1, <1>2 DEF RootDetectsFirst, RoundsApart, TypeOK
  <1>7. RootContributesFirst'
    BY DEF RootContributesFirst
  <1>8. ZeroIsFinal' /\ ZeroSumIsTrue'
    <2>1. ~(toRoot = 0 /\ \A q \in Pes : handled[q] = Broadcasts)
      BY HandleNextNotFinal
    <2>2. contributed[Root] # 0
      BY <1>1, AllProduced DEF ZeroIsFinal
    <2>3. QED
      BY <2>1, <2>2 DEF ZeroIsFinal, ZeroSumIsTrue
  <1>9. QED
    BY <1>3, <1>4, <1>5, <1>6, <1>7, <1>8

LEMMA ConsumeSafe ==
  ASSUME Safe, NEW p \in Pes, Consume(p)
  PROVE  Safe'
  <1>0. /\ handled[p] < Broadcasts
        /\ ~(toRoot = 0 /\ \A q \in Pes : handled[q] = Broadcasts)
        /\ p # Root => contributed[Root] # 0 \/ contributed[p] # 0
    BY HandleNextNotFinal DEF Consume
  <1> USE PesFacts DEF Safe, Consume, HandleNext, TakenFromRoot
  <1>1. /\ handled[p] > 0 /\ p \in branch /\ pe[p] = "running"
        /\ lcount[p] = Broadcasts - handled[p]
    BY DEF CountsEvents, TypeOK
  <1>2. /\ handled' = [handled EXCEPT ![p] = handled[p] + 1]
        /\ lcount' = [lcount EXCEPT ![p] = lcount[p] - 1]
        /\ toRoot' = IF p = Root THEN toRoot - 1 ELSE toRoot
    BY <1>1 DEF TypeOK
  <1>3. EventsConserved'
    <2>1. Producers' = Producers
      BY <1>1, <1>2 DEF Producers, TypeOK
    <2>2. QED
      BY <1>1, <1>2, <2>1, ProducersFacts DEF EventsConserved, TypeOK
  <1>4. TypeOK'
    <2>1. handled' \in [Pes -> 0 .. Broadcasts] /\ lcount' \in [Pes -> 0 .. NPes]
      BY <1>0, <1>1, <1>2 DEF TypeOK
    <2>2. toRoot' \in 0 .. NPes
      BY <1>2 DEF TypeOK
    <2>3. QED
      BY <2>1, <2>2 DEF TypeOK
  <1>5. CountsEvents'
    BY <1>1, <1>2 DEF CountsEvents, TypeOK
  <1>6. RootDetectsFirst' /\ RoundsApart'
    BY <1>1, <1>2 DEF RootDetectsFirst, RoundsApart, TypeOK
  <1>7. RootContributesFirst'
    BY DEF RootContributesFirst
  <1>8. ZeroIsFinal' /\ ZeroSumIsTrue'
    <2>1. handled[p] # Broadcasts
      BY <1>0 DEF TypeOK
    <2>2. ZeroIsFinal'
      BY <1>0, <1>2, <2>1 DEF ZeroIsFinal, TypeOK
    <2>3. QED
      BY <1>0, <2>2 DEF ZeroSumIsTrue
  <1>9. QED
    BY <1>3, <1>4, <1>5, <1>6, <1>7, <1>8

LEMMA PutBackSafe ==
  ASSUME Safe, NEW p \in Pes, PutBack(p)
  PROVE  Safe'
  <1> USE PesFacts DEF Safe, PutBack, HandleNext, TakenFromRoot
  <1>1. handled[p] = 0 /\ p \notin branch /\ pe[p] = "running" /\ lcount[p] = 0
    BY DEF CountsEvents, TypeOK
  <1>2. /\ handled' = [handled EXCEPT ![p] = 1]
        /\ toRoot' = IF p = Root THEN toRoot - 1 ELSE toRoot
        /\ pe' = [pe EXCEPT ![p] = "recursing"]
    BY <1>1 DEF TypeOK
  <1>3. EventsConserved'
    <2>1. Producers' = Producers
      BY <1>1, <1>2 DEF Producers, TypeOK
    <2>2. QED
      BY <1>1, <1>2, <2>1, ProducersFacts DEF EventsConserved, TypeOK
  <1>4. TypeOK'
    <2>1. handled' \in [Pes -> 0 .. Broadcasts] /\ toRoot' \in 0 .. NPes
      BY <1>1, <1>2 DEF TypeOK
    <2>2. pe' \in [Pes -> {"running", "recursing", "exited"}]
      BY <1>2 DEF TypeOK
    <2>3. QED
      BY <2>1, <2>2 DEF TypeOK
  <1>5. CountsEvents'
    BY <1>1, <1>2 DEF CountsEvents, TypeOK
  <1>6. RootDetectsFirst' /\ RoundsApart'
    BY <1>1, <1>2 DEF RootDetectsFirst, RoundsApart, TypeOK
  <1>7. RootContributesFirst'
    BY DEF RootContributesFirst
  <1>8. ZeroIsFinal' /\ ZeroSumIsTrue'
    <2>1. ~(toRoot = 0 /\ \A q \in Pes : handled[q] = Broadcasts)
      BY HandleNextNotFinal
    <2>2. contributed[Root] # 0
      BY <1>1, AllProduced DEF ZeroIsFinal
    <2>3. QED
      BY <2>1, <2>2 DEF ZeroIsFinal, ZeroSumIsTrue
  <1>9. QED
    BY <1>3, <1>4, <1>5, <1>6, <1>7, <1>8

(* Steps that leave the broadcasts and the counts alone. *)
Uncounted == UNCHANGED <<branch, toRoot, handled, lcount>>

LEMMA UncountedSafe ==
  ASSUME CountsEvents, EventsConserved, Uncounted,
         \A q \in Pes : pe'[q] = "recursing" <=> pe[q] = "recursing"
  PROVE  CountsEvents' /\ EventsConserved'
  <1>1. Producers' = Producers
    BY DEF Producers, Uncounted
  <1>2. QED
    BY <1>1 DEF Uncounted, CountsEvents, EventsConserved

LEMMA StartDetectionSafe ==
  ASSUME Safe, NEW p \in Pes, StartDetection(p)
  PROVE  Safe'
  <1> USE PesFacts DEF Safe, StartDetection
  <1>1. /\ contributed' = [contributed EXCEPT ![p] = lcount[p]]
        /\ detecting' = detecting \cup {p} /\ lcount[p] \in 0 .. NPes
        /\ result[p] = None /\ p \notin complete /\ p \notin detecting
    BY DEF TypeOK, RoundsApart
  <1>2. TypeOK'
    <2>1. contributed' \in [Pes -> {None} \cup (0 .. NPes)]
      BY <1>1 DEF TypeOK
    <2>2. QED
      BY <2>1 DEF TypeOK
  <1>3. CountsEvents' /\ EventsConserved'
    BY UncountedSafe DEF Uncounted
  <1>4. RootDetectsFirst' /\ RoundsApart'
    BY <1>1 DEF RootDetectsFirst, RoundsApart, TypeOK
  <1>5. contributed'[Root] # None
    <2>1. CASE p = Root
      BY <1>1, <2>1 DEF TypeOK
    <2>2. CASE p # Root
      BY <1>1, <2>2 DEF TypeOK, RootContributesFirst
    <2>3. QED
      BY <2>1, <2>2
  <1>6. RootContributesFirst'
    BY <1>1, <1>5 DEF RootContributesFirst
  <1>7. ZeroIsFinal'
    <2>1. CASE p = Root
      <3>1. \A q \in Pes : q # Root => contributed'[q] = None
        BY <1>1, <2>1 DEF RootDetectsFirst, RoundsApart, TypeOK
      <3>2. contributed'[Root] = 0 => handled[Root] = Broadcasts
        BY <1>1, <2>1 DEF RootDetectsFirst, CountsEvents, TypeOK
      <3>3. QED
        BY <3>1, <3>2 DEF ZeroIsFinal
    <2>2. CASE p # Root
      <3>1. SUFFICES ASSUME contributed[Root] = 0, lcount[p] = 0
                     PROVE  handled[p] = Broadcasts
        BY <1>1, <2>2 DEF ZeroIsFinal, TypeOK
      <3>2. handled[p] > 0 /\ p \in branch
        BY <3>1, AllProduced DEF ZeroIsFinal
      <3>3. QED
        BY <3>1, <3>2 DEF CountsEvents, TypeOK
    <2>3. QED
      BY <2>1, <2>2
  <1>8. ZeroSumIsTrue'
    BY DEF ZeroSumIsTrue
  <1>9. QED
    BY <1>2, <1>3, <1>4, <1>6, <1>7, <1>8

LEMMA ReceiveResultSafe ==
  ASSUME Safe, NEW p \in Pes, ReceiveResult(p)
  PROVE  Safe'
  <1> USE PesFacts DEF Safe, ReceiveResult
  <1>1. /\ p # Root /\ p \in detecting /\ p \notin complete /\ contributed[p] = None
        /\ result' = [result EXCEPT ![p] = None] /\ result[p] \in 0 .. NPes * NPes
        /\ lcount[p] \in 0 .. NPes
    BY DEF TypeOK, RoundsApart, RootContributesFirst
  <1>2. CountsEvents' /\ EventsConserved' /\ RootDetectsFirst'
    BY UncountedSafe DEF Uncounted, RootDetectsFirst
  <1>3. result' \in [Pes -> {None} \cup (0 .. NPes * NPes)]
    BY <1>1 DEF TypeOK
  <1>4. CASE result[p] = 0
    <2> USE <1>4 DEF ReceiveCount, IsComplete
    <2>1. complete' = complete \cup {p} /\ contributed' = contributed /\ exits' = Pes
      OBVIOUS
    <2>2. TypeOK'
      BY <1>3, <2>1 DEF TypeOK
    <2>3. RoundsApart' /\ RootContributesFirst'
      BY <1>1, <2>1 DEF RoundsApart, RootContributesFirst, TypeOK
    <2>4. ZeroIsFinal' /\ ZeroSumIsTrue'
      BY <2>1 DEF ZeroIsFinal, ZeroSumIsTrue
    <2>5. QED
      BY <1>2, <2>2, <2>3, <2>4
  <1>5. CASE result[p] # 0
    <2> USE <1>5 DEF ReceiveCount, IsComplete
    <2>1. /\ complete' = complete /\ exits' = exits
          /\ contributed' = [contributed EXCEPT ![p] = lcount[p]]
      OBVIOUS
    <2>2. TypeOK'
      <3>1. contributed' \in [Pes -> {None} \cup (0 .. NPes)]
        BY <1>1, <2>1 DEF TypeOK
      <3>2. QED
        BY <1>3, <2>1, <3>1 DEF TypeOK
    <2>3. contributed[Root] # None /\ contributed'[Root] = contributed[Root]
      BY <1>1, <2>1 DEF RootContributesFirst, TypeOK
    <2>4. RoundsApart' /\ RootContributesFirst'
      BY <1>1, <2>1, <2>3 DEF RoundsApart, RootContributesFirst, TypeOK
    <2>5. ZeroIsFinal'
      <3>1. SUFFICES ASSUME contributed[Root] = 0, lcount[p] = 0
                     PROVE  handled[p] = Broadcasts
        BY <2>1, <2>3 DEF ZeroIsFinal, TypeOK
      <3>2. handled[p] > 0 /\ p \in branch
        BY <3>1, AllProduced DEF ZeroIsFinal
      <3>3. QED
        BY <3>1, <3>2 DEF CountsEvents, TypeOK
    <2>6. ZeroSumIsTrue'
      BY <1>1, <2>1 DEF ZeroSumIsTrue, TypeOK
    <2>7. QED
      BY <1>2, <2>2, <2>4, <2>5, <2>6
  <1>6. QED
    BY <1>4, <1>5

LEMMA ReducedSafe ==
  ASSUME Safe, Reduced
  PROVE  Safe'
  <1> USE PesFacts
  <1> DEFINE gcount == SumFunctionOnSet(contributed, Pes)
             none == [p \in Pes |-> None]
  <1>1. \A p \in Pes :
          /\ contributed[p] \in 0 .. NPes /\ result[p] = None
          /\ p \notin complete /\ p \in detecting
    BY DEF Safe, Reduced, EveryPe, TypeOK, RoundsApart
  <1>2. gcount \in 0 .. NPes * NPes
    BY <1>1, SumBound
  <1>3. gcount = 0 => \A p \in Pes : contributed[p] = 0
    BY <1>1, SumZero
  <1>4. /\ result' = [p \in Pes |-> IF p = Root THEN None ELSE gcount]
        /\ ReceiveCount(Root, gcount, none)
    <2>1. {p \in Pes : contributed[p] # None} = Pes
      BY DEF Reduced, EveryPe
    <2>2. QED
      BY <2>1 DEF Reduced
  <1> HIDE DEF gcount
  <1>5. UNCHANGED <<fifo, branch, toRoot, handled, started, detecting, lcount, pe>>
    BY DEF Reduced
  <1>6. CountsEvents' /\ EventsConserved' /\ RootDetectsFirst'
    BY <1>5, UncountedSafe DEF Safe, Uncounted, RootDetectsFirst
  <1>7. result' \in [Pes -> {None} \cup (0 .. NPes * NPes)]
    BY <1>2, <1>4
  <1>8. CASE gcount = 0
    <2>1. complete' = complete \cup {Root} /\ contributed' = none /\ exits' = Pes
      BY <1>4, <1>8 DEF ReceiveCount, IsComplete
    <2>2. TypeOK'
      <3>1. contributed' \in [Pes -> {None} \cup (0 .. NPes)]
        BY <2>1
      <3>2. QED
        BY <1>5, <1>7, <2>1, <3>1 DEF Safe, TypeOK
    <2>3. RoundsApart' /\ RootContributesFirst'
      BY <1>1, <1>4, <1>5, <1>8, <2>1 DEF RoundsApart, RootContributesFirst
    <2>4. ZeroIsFinal'
      BY <2>1 DEF ZeroIsFinal
    <2>5. ZeroSumIsTrue'
      <3>1. \A p \in Pes : handled[p] = Broadcasts
        BY <1>3, <1>8 DEF Safe, ZeroIsFinal
      <3>2. toRoot = 0
        BY <3>1, AllProduced DEF Safe
      <3>3. QED
        BY <1>5, <3>1, <3>2 DEF ZeroSumIsTrue
    <2>6. QED
      BY <1>6, <2>2, <2>3, <2>4, <2>5 DEF Safe
  <1>9. CASE gcount # 0
    <2>1. /\ complete' = complete /\ exits' = exits
          /\ contributed' = [p \in Pes |-> IF p = Root THEN lcount[Root] ELSE None]
      BY <1>4, <1>9 DEF ReceiveCount, IsComplete
    <2>2. lcount[Root] \in 0 .. NPes
      BY DEF Safe, TypeOK
    <2>3. TypeOK'
      <3>1. contributed' \in [Pes -> {None} \cup (0 .. NPes)]
        BY <2>1, <2>2
      <3>2. QED
        BY <1>5, <1>7, <2>1, <3>1 DEF Safe, TypeOK
    <2>4. contributed'[Root] # None /\ \A p \in Pes : p # Root => contributed'[p] = None
      BY <2>1, <2>2
    <2>5. RoundsApart' /\ RootContributesFirst'
      BY <1>1, <1>4, <1>5, <2>1, <2>4 DEF RoundsApart, RootContributesFirst
    <2>6. ZeroIsFinal'
      <3>1. lcount[Root] = 0 => handled[Root] = Broadcasts
        BY <1>1 DEF Safe, RootDetectsFirst, CountsEvents, TypeOK
      <3>2. QED
        BY <1>5, <2>1, <2>4, <3>1 DEF ZeroIsFinal
    <2>7. ZeroSumIsTrue'
      BY <1>2, <1>4, <1>5, <1>9, <2>1 DEF Safe, ZeroSumIsTrue
    <2>8. QED
      BY <1>6, <2>3, <2>5, <2>6, <2>7 DEF Safe
  <1>10. QED
    BY <1>8, <1>9

LEMMA ExitSafe ==
  ASSUME Safe, NEW p \in Pes, Exit(p)
  PROVE  Safe'
  <1> USE PesFacts DEF Safe, Exit
  <1>1. TypeOK'
    BY DEF TypeOK
  <1>2. CountsEvents' /\ EventsConserved'
    BY UncountedSafe DEF Uncounted, TypeOK
  <1>3. RootDetectsFirst' /\ RoundsApart' /\ RootContributesFirst' /\ ZeroIsFinal' /\ ZeroSumIsTrue'
    BY DEF RootDetectsFirst, RoundsApart, RootContributesFirst, ZeroIsFinal, ZeroSumIsTrue
  <1>4. QED
    BY <1>1, <1>2, <1>3

LEMMA StutterSafe ==
  ASSUME Safe, UNCHANGED vars
  PROVE  Safe'
  BY DEF vars, Safe, TypeOK, CountsEvents, EventsConserved, Producers, RootDetectsFirst,
         RoundsApart, RootContributesFirst, ZeroIsFinal, ZeroSumIsTrue

(* Safe is an invariant: every handler preserves it. *)
LEMMA SafeInvariant == Spec => []Safe
  <1>1. Safe /\ [Next]_vars => Safe'
    BY ConstructBranchSafe, ProduceSafe, ConsumeSafe, PutBackSafe, StartDetectionSafe,
       ReceiveResultSafe, ReducedSafe, ExitSafe, StutterSafe DEF Next, Handler
  <1>2. QED
    BY InitSafe, <1>1, PTL DEF Spec

-----------------------------------------------------------------------------
(* The variables keep their types: no count, in particular, is ever negative. *)
THEOREM TypeCorrect == Spec => []TypeOK
  <1>1. Safe => TypeOK
    BY DEF Safe
  <1>2. QED
    BY <1>1, SafeInvariant, PTL

(***************************************************************************)
(* Rounds of the detection do not overlap, for any number of PEs, though   *)
(* all_reduce is given no tag.                                             *)
(***************************************************************************)
THEOREM RoundsNeverOverlap == Spec => []RoundsApart
  <1>1. Safe => RoundsApart
    BY DEF Safe
  <1>2. QED
    BY <1>1, SafeInvariant, PTL

(***************************************************************************)
(* No false completion, for any number of PEs: the first sum of zero that  *)
(* receive_count_ is given means that every event was produced and         *)
(* consumed, because the root contributes to a round before anyone else.   *)
(***************************************************************************)
THEOREM NoFalseCompletionHolds == Spec => []NoFalseCompletion
  <1>1. Safe => NoFalseCompletion
    BY DEF Safe, ZeroSumIsTrue, NoFalseCompletion
  <1>2. QED
    BY <1>1, SafeInvariant, PTL
=============================================================================
