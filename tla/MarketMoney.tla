---------------------------- MODULE MarketMoney ----------------------------
(***************************************************************************)
(* The market's sums: the escrow covers every claim on it, and no lamport  *)
(* is made or lost.  The first part proves what the community modules'     *)
(* SumFunction computes, for any finite set.  It needs an induction, which *)
(* is had from the well-foundedness of strict inclusion (WFMin): a set of  *)
(* counterexamples would have a minimal one.                               *)
(***************************************************************************)
EXTENDS MarketSafety

\* A nonempty family of subsets of a finite set has a minimal member.
LEMMA MinimalSubset ==
  ASSUME NEW S, IsFiniteSet(S), NEW B, B \subseteq SUBSET S, B # {}
  PROVE  \E T \in B : \A U \in B : U \subseteq T => U = T
<1>1. IsWellFoundedOn(StrictSubsetOrdering(S), FiniteSubsetsOf(S))
  BY FS_StrictSubsetOrderingWellFounded
<1>2. B \subseteq FiniteSubsetsOf(S)
  BY FS_FiniteSubsetsOfFinite
<1>3. PICK T \in B : \A U \in B : <<U, T>> \notin StrictSubsetOrdering(S)
  BY <1>1, <1>2, WFMin
<1>4. ASSUME NEW U \in B, U \subseteq T PROVE U = T
  BY <1>3, <1>4 DEF StrictSubsetOrdering
<1>5. QED
  BY <1>4

\* A family that has the empty set, and every set that one of its members becomes
\* by one element, has the whole set.
LEMMA SubsetInduction ==
  ASSUME NEW S, IsFiniteSet(S), NEW G, {} \in G,
         \A T \in SUBSET S, x \in S : T \in G /\ x \notin T => T \cup {x} \in G
  PROVE  S \in G
<1> DEFINE Bad == {T \in SUBSET S : T \notin G}
<1> SUFFICES ASSUME Bad # {} PROVE FALSE
  OBVIOUS
<1>0. Bad \subseteq SUBSET S
  OBVIOUS
<1>1. PICK T \in Bad : \A U \in Bad : U \subseteq T => U = T
  <2> HIDE DEF Bad
  <2>1. QED
    BY <1>0, MinimalSubset
<1>2. PICK x \in T : TRUE
  OBVIOUS
<1>3. T \ {x} \in G /\ T \ {x} \in SUBSET S /\ x \in S /\ x \notin T \ {x}
  BY <1>1
<1>4. T = (T \ {x}) \cup {x}
  OBVIOUS
<1>5. T \in G
  BY <1>3, <1>4
<1>6. QED
  BY <1>5

\* P gives the sum of f over every subset of S.
IsPartialSum(f, S, P) ==
  /\ P \in [SUBSET S -> Int]
  /\ P[{}] = 0
  /\ \A T \in SUBSET S : \A x \in T : P[T] = f[x] + P[T \ {x}]

\* Every integer function on a finite set has such sums.
LEMMA PartialSumExists ==
  ASSUME NEW S, IsFiniteSet(S), NEW f \in [S -> Int]
  PROVE  \E P : IsPartialSum(f, S, P)
<1> DEFINE G == {W \in SUBSET S : \E P : IsPartialSum(f, W, P)}
<1>1. {} \in G
  <2>1. IsPartialSum(f, {}, [T \in SUBSET {} |-> 0])
    BY DEF IsPartialSum
  <2>2. QED
    BY <2>1
<1>2. ASSUME NEW W \in SUBSET S, NEW x \in S, W \in G, x \notin W
      PROVE  W \cup {x} \in G
  <2>1. PICK P : IsPartialSum(f, W, P)
    BY <1>2
  <2> DEFINE V == W \cup {x}
             Q == [T \in SUBSET V |-> IF x \in T THEN f[x] + P[T \ {x}] ELSE P[T]]
  <2>2. Q \in [SUBSET V -> Int]
    BY <2>1 DEF IsPartialSum
  <2>3. Q[{}] = 0
    BY <2>1 DEF IsPartialSum
  <2>4. ASSUME NEW T \in SUBSET V, NEW y \in T PROVE Q[T] = f[y] + Q[T \ {y}]
    <3>1. CASE x \notin T
      BY <2>1, <3>1 DEF IsPartialSum
    <3>2. CASE y = x
      BY <2>1, <3>2 DEF IsPartialSum
    <3>3. CASE x \in T /\ y # x
      <4> DEFINE R == T \ {x}
      <4>1. R \in SUBSET W /\ y \in R
        BY <3>3
      <4>2. P[R] = f[y] + P[R \ {y}] /\ P[R \ {y}] \in Int /\ f[x] \in Int /\ f[y] \in Int
        BY <2>1, <4>1 DEF IsPartialSum
      <4>3. Q[T] = f[x] + P[R]
        BY <3>3
      <4>4. (T \ {y}) \ {x} = R \ {y} /\ T \ {y} \in SUBSET V /\ x \in T \ {y}
        BY <3>3
      <4>5. Q[T \ {y}] = f[x] + P[R \ {y}]
        BY <4>4
      <4> HIDE DEF Q, R
      <4>6. QED
        BY <4>2, <4>3, <4>5
    <3>4. QED
      BY <3>1, <3>2, <3>3
  <2>5. IsPartialSum(f, V, Q)
    BY <2>2, <2>3, <2>4 DEF IsPartialSum
  <2>6. QED
    BY <2>5
<1>3. S \in G
  <2> HIDE DEF G
  <2>1. QED
    BY <1>1, <1>2, SubsetInduction
<1>4. QED
  BY <1>3

\* And SumFunction, a fold over an order the library chooses, is the last of them.
LEMMA SumIsPartial ==
  ASSUME NEW S, IsFiniteSet(S), NEW f \in [S -> Int], NEW P, IsPartialSum(f, S, P)
  PROVE  SumFunction(f) = P[S]
<1> DEFINE Pick(s) == CHOOSE x \in s : TRUE
           Body(g) == [s \in SUBSET S |-> IF s = {} THEN 0 ELSE f[Pick(s)] + g[s \ {Pick(s)}]]
           iter == CHOOSE g : g = Body(g)
<1>1. ASSUME NEW s \in SUBSET S, s # {} PROVE Pick(s) \in s
  BY <1>1
<1>2. P = Body(P)
  <2>1. ASSUME NEW s \in SUBSET S PROVE P[s] = Body(P)[s]
    BY <1>1 DEF IsPartialSum
  <2>2. QED
    BY <2>1 DEF IsPartialSum
<1>3. iter = Body(iter)
  BY <1>2
<1>4. SumFunction(f) = iter[S]
  BY DEF SumFunction, SumFunctionOnSet, FoldFunctionOnSet, MapThenFoldSet
<1> DEFINE Bad == {s \in SUBSET S : iter[s] # P[s]}
<1> HIDE DEF iter
<1>5. Bad = {}
  <2> SUFFICES ASSUME Bad # {} PROVE FALSE
    OBVIOUS
  <2>1. PICK s \in Bad : \A r \in Bad : r \subseteq s => r = s
    <3>1. Bad \subseteq SUBSET S
      OBVIOUS
    <3> HIDE DEF Bad
    <3>2. QED
      BY <3>1, MinimalSubset
  <2>2. iter[s] = Body(iter)[s] /\ P[s] = Body(P)[s]
    BY <1>2, <1>3
  <2>3. s # {}
    BY <2>2
  <2>4. iter[s \ {Pick(s)}] = P[s \ {Pick(s)}]
    BY <1>1, <2>1, <2>3
  <2>5. QED
    BY <2>2, <2>3, <2>4
<1>6. QED
  BY <1>4, <1>5

\* One more element adds its value.
LEMMA PartialStep ==
  ASSUME NEW S, NEW f, NEW P, IsPartialSum(f, S, P),
         NEW T \in SUBSET S, NEW x \in S, x \notin T
  PROVE  P[T \cup {x}] = f[x] + P[T] /\ P[T] \in Int
<1>1. (T \cup {x}) \ {x} = T /\ T \cup {x} \in SUBSET S
  OBVIOUS
<1>2. QED
  BY <1>1 DEF IsPartialSum

\* A sum of integers is one, and a sum of naturals is a natural.
LEMMA SumType ==
  ASSUME NEW S, IsFiniteSet(S), NEW f \in [S -> Int]
  PROVE  /\ SumFunction(f) \in Int
         /\ f \in [S -> Nat] => SumFunction(f) \in Nat
<1>1. PICK P : IsPartialSum(f, S, P)
  BY PartialSumExists
<1>2. SumFunction(f) = P[S] /\ P[S] \in Int
  BY <1>1, SumIsPartial DEF IsPartialSum
<1>3. ASSUME f \in [S -> Nat] PROVE P[S] \in Nat
  <2> DEFINE G == {T \in SUBSET S : P[T] \in Nat}
  <2>1. {} \in G
    BY <1>1 DEF IsPartialSum
  <2>2. ASSUME NEW T \in SUBSET S, NEW x \in S, T \in G, x \notin T
        PROVE  T \cup {x} \in G
    <3>1. P[T \cup {x}] = f[x] + P[T] /\ P[T] \in Nat /\ f[x] \in Nat
      BY <1>1, <1>3, <2>2, PartialStep
    <3>2. QED
      BY <3>1
  <2> HIDE DEF G
  <2>3. S \in G
    BY <2>1, <2>2, SubsetInduction
  <2>4. QED
    BY <2>3 DEF G
<1>4. QED
  BY <1>2, <1>3

\* Changing one value changes the sum by as much.
LEMMA SumChange ==
  ASSUME NEW S, IsFiniteSet(S), NEW f \in [S -> Int], NEW g \in [S -> Int],
         NEW b \in S, \A x \in S \ {b} : g[x] = f[x]
  PROVE  SumFunction(g) = SumFunction(f) - f[b] + g[b]
<1>1. PICK P : IsPartialSum(f, S, P)
  BY PartialSumExists
<1>2. PICK Q : IsPartialSum(g, S, Q)
  BY PartialSumExists
<1> DEFINE R == S \ {b}
           G == {T \in SUBSET R : P[T] = Q[T]}
<1>3. R \in G
  <2>1. {} \in G
    BY <1>1, <1>2 DEF IsPartialSum
  <2>2. ASSUME NEW T \in SUBSET R, NEW x \in R, T \in G, x \notin T
        PROVE  T \cup {x} \in G
    BY <1>1, <1>2, <2>2, PartialStep
  <2>3. IsFiniteSet(R)
    BY FS_RemoveElement
  <2> HIDE DEF G, R
  <2>4. QED
    BY <2>1, <2>2, <2>3, SubsetInduction
<1>4. P[S] = f[b] + P[R] /\ Q[S] = g[b] + Q[R] /\ P[R] = Q[R] /\ P[R] \in Int
  BY <1>1, <1>2, <1>3 DEF IsPartialSum
<1>5. SumFunction(f) = P[S] /\ SumFunction(g) = Q[S]
  BY <1>1, <1>2, SumIsPartial
<1>6. QED
  BY <1>4, <1>5

\* The sum of a constant function.
LEMMA SumOfSame ==
  ASSUME NEW S, IsFiniteSet(S), NEW k \in Int, NEW f \in [S -> Int], \A x \in S : f[x] = k
  PROVE  SumFunction(f) = k * Cardinality(S)
<1>1. PICK P : IsPartialSum(f, S, P)
  BY PartialSumExists
<1> DEFINE G == {T \in SUBSET S : P[T] = k * Cardinality(T)}
<1>2. {} \in G
  BY <1>1, FS_EmptySet DEF IsPartialSum
<1>3. ASSUME NEW T \in SUBSET S, NEW x \in S, T \in G, x \notin T
      PROVE  T \cup {x} \in G
  <2>1. IsFiniteSet(T) /\ Cardinality(T) \in Nat
    BY FS_Subset, FS_CardinalityType
  <2>2. Cardinality(T \cup {x}) = Cardinality(T) + 1
    BY <1>3, <2>1, FS_AddElement
  <2>3. P[T \cup {x}] = f[x] + P[T]
    BY <1>1, <1>3, PartialStep
  <2>4. f[x] = k /\ P[T] = k * Cardinality(T)
    BY <1>3
  <2>5. P[T \cup {x}] = k * Cardinality(T \cup {x})
    BY <2>1, <2>2, <2>3, <2>4
  <2>6. QED
    BY <2>5
<1> HIDE DEF G
<1>4. S \in G
  BY <1>2, <1>3, SubsetInduction
<1>5. QED
  BY <1>1, <1>4, SumIsPartial DEF G

\* The sum of a pointwise sum.
LEMMA SumAdds ==
  ASSUME NEW S, IsFiniteSet(S), NEW f \in [S -> Int], NEW g \in [S -> Int], NEW h \in [S -> Int],
         \A x \in S : h[x] = f[x] + g[x]
  PROVE  SumFunction(h) = SumFunction(f) + SumFunction(g)
<1>1. PICK P : IsPartialSum(f, S, P)
  BY PartialSumExists
<1>2. PICK Q : IsPartialSum(g, S, Q)
  BY PartialSumExists
<1>3. PICK R : IsPartialSum(h, S, R)
  BY PartialSumExists
<1> DEFINE G == {T \in SUBSET S : R[T] = P[T] + Q[T]}
<1>4. {} \in G
  BY <1>1, <1>2, <1>3 DEF IsPartialSum
<1>5. ASSUME NEW T \in SUBSET S, NEW x \in S, T \in G, x \notin T
      PROVE  T \cup {x} \in G
  <2>1. P[T \cup {x}] = f[x] + P[T] /\ P[T] \in Int
    BY <1>1, <1>5, PartialStep
  <2>2. Q[T \cup {x}] = g[x] + Q[T] /\ Q[T] \in Int
    BY <1>2, <1>5, PartialStep
  <2>3. R[T \cup {x}] = h[x] + R[T] /\ R[T] \in Int
    BY <1>3, <1>5, PartialStep
  <2>4. R[T] = P[T] + Q[T] /\ f[x] \in Int /\ g[x] \in Int /\ h[x] = f[x] + g[x]
    BY <1>5
  <2>5. R[T \cup {x}] = P[T \cup {x}] + Q[T \cup {x}]
    BY <2>1, <2>2, <2>3, <2>4
  <2>6. QED
    BY <2>5
<1> HIDE DEF G
<1>6. S \in G
  BY <1>4, <1>5, SubsetInduction
<1>7. R[S] = P[S] + Q[S]
  BY <1>6 DEF G
<1>8. QED
  BY <1>1, <1>2, <1>3, <1>7, SumIsPartial

\* What holds in proportion of every value holds in proportion of the sums.
LEMMA SumShares ==
  ASSUME NEW S, IsFiniteSet(S), NEW f \in [S -> Int], NEW g \in [S -> Int],
         NEW k \in Int, NEW m \in Int, \A x \in S : k * g[x] <= m * f[x]
  PROVE  k * SumFunction(g) <= m * SumFunction(f)
<1>1. PICK P : IsPartialSum(f, S, P)
  BY PartialSumExists
<1>2. PICK Q : IsPartialSum(g, S, Q)
  BY PartialSumExists
<1> DEFINE G == {T \in SUBSET S : k * Q[T] <= m * P[T]}
<1>3. {} \in G
  BY <1>1, <1>2 DEF IsPartialSum
<1>4. ASSUME NEW T \in SUBSET S, NEW x \in S, T \in G, x \notin T
      PROVE  T \cup {x} \in G
  <2>1. P[T \cup {x}] = f[x] + P[T] /\ P[T] \in Int
    BY <1>1, <1>4, PartialStep
  <2>2. Q[T \cup {x}] = g[x] + Q[T] /\ Q[T] \in Int
    BY <1>2, <1>4, PartialStep
  <2>3. f[x] \in Int /\ g[x] \in Int
    OBVIOUS
  <2>4. k * (g[x] + Q[T]) = k * g[x] + k * Q[T] /\ m * (f[x] + P[T]) = m * f[x] + m * P[T]
    BY <2>1, <2>2, <2>3
  <2>5. k * g[x] + k * Q[T] <= m * f[x] + m * P[T]
    BY <1>4, <2>1, <2>2, <2>3
  <2>6. QED
    BY <2>1, <2>2, <2>4, <2>5
<1> HIDE DEF G
<1>5. S \in G
  BY <1>3, <1>4, SubsetInduction
<1>6. k * Q[S] <= m * P[S]
  BY <1>5 DEF G
<1>7. QED
  BY <1>1, <1>2, <1>6, SumIsPartial

\* Sums compare as their values do.
LEMMA SumAtMost ==
  ASSUME NEW S, IsFiniteSet(S), NEW f \in [S -> Int], NEW g \in [S -> Int],
         \A x \in S : f[x] <= g[x]
  PROVE  SumFunction(f) <= SumFunction(g)
<1>1. \A x \in S : 1 * f[x] <= 1 * g[x]
  <2>1. ASSUME NEW x \in S PROVE 1 * f[x] <= 1 * g[x]
    <3>1. f[x] \in Int /\ g[x] \in Int /\ f[x] <= g[x]
      OBVIOUS
    <3>2. QED
      BY <3>1
  <2>2. QED
    BY <2>1
<1>2. 1 * SumFunction(f) <= 1 * SumFunction(g)
  BY <1>1, SumShares
<1>3. SumFunction(f) \in Int /\ SumFunction(g) \in Int
  BY SumType
<1>4. QED
  BY <1>2, <1>3

\* A function bounded by the pointwise sum of two has a sum bounded by theirs.
LEMMA SumBounds ==
  ASSUME NEW S, IsFiniteSet(S), NEW f \in [S -> Int], NEW g \in [S -> Int], NEW h \in [S -> Int]
  PROVE  /\ (\A x \in S : h[x] <= f[x] + g[x]) => SumFunction(h) <= SumFunction(f) + SumFunction(g)
         /\ (\A x \in S : f[x] + g[x] <= h[x]) => SumFunction(f) + SumFunction(g) <= SumFunction(h)
<1> DEFINE e == [x \in S |-> f[x] + g[x]]
<1>1. e \in [S -> Int] /\ \A x \in S : e[x] = f[x] + g[x]
  OBVIOUS
<1> HIDE DEF e
<1>2. SumFunction(e) = SumFunction(f) + SumFunction(g)
  BY <1>1, SumAdds
<1>3. ASSUME \A x \in S : h[x] <= f[x] + g[x]
      PROVE  SumFunction(h) <= SumFunction(e)
  <2>1. \A x \in S : h[x] <= e[x]
    BY <1>1, <1>3
  <2>2. QED
    BY <1>1, <2>1, SumAtMost
<1>4. ASSUME \A x \in S : f[x] + g[x] <= h[x]
      PROVE  SumFunction(e) <= SumFunction(h)
  <2>1. \A x \in S : e[x] <= h[x]
    BY <1>1, <1>4
  <2>2. QED
    BY <1>1, <2>1, SumAtMost
<1>5. QED
  BY <1>2, <1>3, <1>4

----------------------------------------------------------------------------
(* The market's sums.                                                      *)

RumorVerdicts == {"Forgiven", "Slashed"}

\* What each villager has paid on one side of the book.
StakesOn(bs, side) ==
  [b \in Bidders |-> IF bs[b].side = side THEN Staked(bs[b]) ELSE 0]

\* What each villager's bid may still take out of the book.
LiveStakes(bs) == [b \in Bidders |-> IF bs[b].settled THEN 0 ELSE Staked(bs[b])]
LivePayouts(m, bs) == [b \in Bidders |-> IF bs[b].settled THEN 0 ELSE PayoutOf(m, bs[b])]

\* The pots are the stakes of their sides.
PotsAreStakes(m, bs) == \A side \in Sides : m.pot[side] = SumFunction(StakesOn(bs, side))

\* EscrowCoversClaims, with its sums by name.
Covered(m, bs) ==
  IF m.outcome \in RumorVerdicts
  THEN m.escrow_lamports >= m.author_payout + SumFunction(LivePayouts(m, bs))
  ELSE m.escrow_lamports = m.author_payout + SumFunction(LiveStakes(bs))

\* It says what the property says.
LEMMA CoveredIsCovers == EscrowCoversClaims <=> Covered(market, bids)
<1>1. LiveStakes(bids) = [b \in Bidders |-> IF bids[b].settled THEN 0 ELSE LiveStake(b)]
  BY DEF LiveStakes, LiveStake
<1>2. QED
  BY <1>1 DEF EscrowCoversClaims, Covered, LivePayouts, RumorVerdicts

\* The sums are of naturals, over finitely many villagers.
LEMMA MoneyTypes ==
  ASSUME NEW m \in LooseMarketRecord, NEW bs \in [Bidders -> LooseBidRecord]
  PROVE  /\ IsFiniteSet(Bidders)
         /\ \A side : StakesOn(bs, side) \in [Bidders -> Nat]
         /\ LiveStakes(bs) \in [Bidders -> Nat] /\ LivePayouts(m, bs) \in [Bidders -> Nat]
         /\ \A side : SumFunction(StakesOn(bs, side)) \in Nat
         /\ SumFunction(LiveStakes(bs)) \in Nat /\ SumFunction(LivePayouts(m, bs)) \in Nat
         /\ m.escrow_lamports \in Nat /\ m.author_payout \in Nat
<1>1. IsFiniteSet(Bidders)
  BY MarketAssumption
<1>2. \A b \in Bidders : PayoutOf(m, bs[b]) \in Nat /\ Staked(bs[b]) \in Nat
  BY PayoutType
<1>3. \A side : StakesOn(bs, side) \in [Bidders -> Nat]
  BY <1>2 DEF StakesOn
<1>4. LiveStakes(bs) \in [Bidders -> Nat] /\ LivePayouts(m, bs) \in [Bidders -> Nat]
  BY <1>2 DEF LiveStakes, LivePayouts
<1>5. \A f \in [Bidders -> Nat] : SumFunction(f) \in Nat
  <2>1. ASSUME NEW f \in [Bidders -> Nat] PROVE SumFunction(f) \in Nat
    <3>1. f \in [Bidders -> Int]
      OBVIOUS
    <3>2. QED
      BY <1>1, <3>1, SumType
  <2>2. QED
    BY <2>1
<1>6. m.escrow_lamports \in Nat /\ m.author_payout \in Nat
  BY DEF LooseMarketRecord
<1>7. QED
  BY <1>1, <1>3, <1>4, <1>5, <1>6

\* A one-sided verdict pays a bid back or does not: never more than was staked.
LEMMA OneSidedPayout ==
  ASSUME NEW m, NEW bid \in LooseBidRecord, m.outcome \notin RumorVerdicts
  PROVE  PayoutOf(m, bid) \in {0, Staked(bid)} /\ Forfeited(m, bid) = Staked(bid) - PayoutOf(m, bid)
<1>1. ComputePayout(m, bid) \in {0, bid.amount} /\ bid.amount \in Nat
  BY DEF ComputePayout, RumorVerdicts, LooseBidRecord
<1>2. PayoutOf(m, bid) \in {0, Staked(bid)} /\ Staked(bid) \in Nat
  BY <1>1 DEF PayoutOf, Staked
<1>3. QED
  BY <1>2 DEF Forfeited, Shortfall, SatSub, RumorVerdicts

\* A two-sided verdict owes the author nothing.
LEMMA TwoSidedForfeit ==
  ASSUME NEW m, NEW bid, m.outcome \in RumorVerdicts
  PROVE  Forfeited(m, bid) = 0
BY DEF Forfeited, RumorVerdicts

\* The winners' floored shares add up to no more than the losers' pot, so the two
\* pots pay every payout of a rumor.
LEMMA SharesFit ==
  ASSUME NEW m \in LooseMarketRecord, NEW bs \in [Bidders -> LooseBidRecord],
         PotsAreStakes(m, bs), m.outcome \in RumorVerdicts,
         \A b \in Bidders : ~bs[b].settled
  PROVE  SumFunction(LivePayouts(m, bs)) <= SumFunction(LiveStakes(bs))
<1> DEFINE win == IF m.outcome = "Forgiven" THEN "Yes" ELSE "No"
           lose == IF m.outcome = "Forgiven" THEN "No" ELSE "Yes"
           w == StakesOn(bs, win)
           l == StakesOn(bs, lose)
           W == m.pot[win]
           L == m.pot[lose]
           LS == LiveStakes(bs)
           LP == LivePayouts(m, bs)
<1>0. /\ IsFiniteSet(Bidders) /\ LS \in [Bidders -> Nat] /\ LP \in [Bidders -> Nat]
      /\ w \in [Bidders -> Nat] /\ l \in [Bidders -> Nat]
  BY MoneyTypes
<1>1. win \in Sides /\ lose \in Sides /\ win # lose
  BY DEF Sides
<1>2. W \in Nat /\ L \in Nat /\ W = SumFunction(w) /\ L = SumFunction(l)
  BY <1>1 DEF PotsAreStakes, LooseMarketRecord
<1>3. ASSUME NEW b \in Bidders
      PROVE  /\ bs[b] \in LooseBidRecord /\ bs[b].amount \in Nat /\ bs[b].funded \in BOOLEAN
             /\ LS[b] = Staked(bs[b]) /\ LP[b] = PayoutOf(m, bs[b])
             /\ w[b] = (IF bs[b].side = win THEN Staked(bs[b]) ELSE 0)
             /\ l[b] = (IF bs[b].side = lose THEN Staked(bs[b]) ELSE 0)
  BY DEF LooseBidRecord, LiveStakes, LivePayouts, StakesOn
<1>4. ASSUME NEW b \in Bidders
      PROVE  PayoutOf(m, bs[b])
               = IF bs[b].funded
                 THEN IF W = 0 THEN bs[b].amount
                      ELSE IF bs[b].side = win THEN bs[b].amount + (bs[b].amount * L) \div W ELSE 0
                 ELSE 0
  BY DEF PayoutOf, ComputePayout, Winnings, RumorVerdicts
<1> HIDE DEF win, lose, w, l, W, L
<1>5. CASE W = 0
  <2>1. \A b \in Bidders : LP[b] = LS[b]
    BY <1>3, <1>4, <1>5 DEF Staked
  <2>2. LP = LS
    BY <1>0, <2>1
  <2>3. QED
    BY <2>2, MoneyTypes
<1>6. CASE W # 0
  <2>1. PICK share \in [Bidders -> Nat] :
          \A b \in Bidders : /\ W * share[b] <= L * w[b]
                            /\ LP[b] <= w[b] + share[b]
    <3> DEFINE s == [b \in Bidders |-> (w[b] * L) \div W]
    <3>1. ASSUME NEW b \in Bidders
          PROVE  s[b] \in Nat /\ W * s[b] <= L * w[b] /\ LP[b] <= w[b] + s[b]
      <4>1. w[b] \in Nat /\ w[b] * L \in Nat
        BY <1>0, <1>2
      <4>2. s[b] \in Nat /\ W * s[b] <= w[b] * L
        BY <1>2, <1>6, <4>1
      <4>3. w[b] * L = L * w[b]
        BY <1>2, <4>1
      <4>4. CASE bs[b].funded /\ bs[b].side = win
        <5>1. w[b] = bs[b].amount
          BY <1>3, <4>4 DEF Staked
        <5>2. LP[b] = bs[b].amount + (bs[b].amount * L) \div W
          BY <1>3, <1>4, <1>6, <4>4
        <5>3. s[b] = (bs[b].amount * L) \div W
          BY <5>1
        <5>4. LP[b] = w[b] + s[b]
          BY <5>1, <5>2, <5>3
        <5> HIDE DEF s
        <5>5. QED
          BY <4>1, <4>2, <4>3, <5>4
      <4>5. CASE ~(bs[b].funded /\ bs[b].side = win)
        <5>1. LP[b] = 0
          BY <1>3, <1>4, <1>6, <4>5
        <5>2. QED
          BY <4>1, <4>2, <4>3, <5>1
      <4>6. QED
        BY <4>2, <4>3, <4>4, <4>5
    <3>2. s \in [Bidders -> Nat]
      BY <3>1
    <3> HIDE DEF s
    <3>3. QED
      BY <3>1, <3>2
  <2>2. \A b \in Bidders : w[b] + l[b] <= LS[b]
    <3>1. ASSUME NEW b \in Bidders PROVE w[b] + l[b] <= LS[b]
      <4>1. Staked(bs[b]) \in Nat
        BY <1>3 DEF Staked
      <4>2. QED
        BY <1>1, <1>3, <4>1
    <3>2. QED
      BY <3>1
  <2>3. /\ share \in [Bidders -> Int] /\ w \in [Bidders -> Int] /\ l \in [Bidders -> Int]
        /\ LP \in [Bidders -> Int] /\ LS \in [Bidders -> Int]
    BY <1>0
  <2>4. W * SumFunction(share) <= L * SumFunction(w)
    <3>1. W \in Int /\ L \in Int /\ \A b \in Bidders : W * share[b] <= L * w[b]
      BY <1>2, <2>1
    <3>2. QED
      BY <1>0, <2>3, <3>1, SumShares
  <2>5. SumFunction(share) \in Int /\ SumFunction(share) <= L
    <3>1. SumFunction(share) \in Int
      BY <1>0, <2>3, SumType
    <3>2. W * SumFunction(share) <= W * L
      BY <1>2, <2>4
    <3>3. QED
      BY <1>2, <1>6, <3>1, <3>2
  <2>6. SumFunction(LP) <= SumFunction(w) + SumFunction(share)
    BY <1>0, <2>1, <2>3, SumBounds
  <2>7. SumFunction(w) + SumFunction(l) <= SumFunction(LS)
    BY <1>0, <2>2, <2>3, SumBounds
  <2>8. SumFunction(LP) \in Int /\ SumFunction(LS) \in Int
    BY MoneyTypes
  <2>9. QED
    BY <1>2, <2>5, <2>6, <2>7, <2>8
<1>7. QED
  BY <1>5, <1>6

----------------------------------------------------------------------------
(* What each instruction does to the sums.                                 *)

\* A step that takes, pays and keeps nothing.
MoneyStays ==
  /\ market'.pot = market.pot
  /\ market'.escrow_lamports = market.escrow_lamports
  /\ market'.author_payout = market.author_payout
  /\ \A b \in Bidders :
       /\ bids'[b].funded = bids[b].funded /\ bids'[b].settled = bids[b].settled
       /\ bids[b].funded => bids'[b].side = bids[b].side /\ bids'[b].amount = bids[b].amount

\* A bid is paid for, alone or in the transaction that places it.
TakesStake(b) ==
  \/ FundBid(b)
  \/ \E side \in Sides, amount \in Amounts : PlaceAndFund(b, side, amount)

\* A bid is answered, alone or in the transaction that closes it.
AnswersStake(b) == SettleBid(b) \/ SettleAndClose(b)

\* What paying for a bid takes.
LEMMA StakeTaken ==
  ASSUME LooseTypeOK, BidLife, NEW b \in Bidders, TakesStake(b)
  PROVE  /\ market.status = "Open" /\ market'.status = "Open" /\ market'.outcome = market.outcome
         /\ market'.pot = [market.pot EXCEPT ![bids'[b].side] = @ + bids'[b].amount]
         /\ market'.escrow_lamports = market.escrow_lamports + bids'[b].amount
         /\ market'.author_payout = market.author_payout
         /\ bids[b].funded = FALSE /\ bids[b].settled = FALSE
         /\ bids'[b].funded = TRUE /\ bids'[b].settled = FALSE
         /\ bids'[b].side \in Sides /\ bids'[b].amount \in Nat
         /\ \A c \in Bidders \ {b} : bids'[c] = bids[c]
         /\ wallet' = wallet /\ purse'[b].available = purse[b].available - bids'[b].amount
         /\ \A c \in Bidders \ {b} : purse'[c] = purse[c]
<1>0. /\ market \in LooseMarketRecord /\ bids[b] \in LooseBidRecord /\ purse[b] \in PurseRecord
  BY DEF LooseTypeOK
<1>1. CASE FundBid(b)
  <2>1. /\ bids'[b].side = bids[b].side /\ bids'[b].amount = bids[b].amount
        /\ bids'[b].funded = TRUE /\ bids'[b].settled = bids[b].settled
    BY <1>1, FundFields
  <2>2. bids[b].side \in Sides /\ bids[b].amount \in Nat
        /\ bids[b].funded \in BOOLEAN /\ bids[b].settled \in BOOLEAN
    BY <1>0 DEF LooseBidRecord
  <2>3. /\ market.status = "Open" /\ bids[b].account = "open" /\ ~bids[b].funded
        /\ market'.status = "Open" /\ market'.outcome = market.outcome
    BY <1>1, FundMarket
  <2>4. ~bids[b].settled
    BY <2>3 DEF BidLife
  <2>5. /\ market'.pot = [market.pot EXCEPT ![bids[b].side] = @ + bids[b].amount]
        /\ market'.escrow_lamports = market.escrow_lamports + bids[b].amount
        /\ market'.author_payout = market.author_payout
        /\ wallet' = wallet
    BY <1>1 DEF LooseTypeOK, LooseMarketRecord, FundBid
  <2>6. \A c \in Bidders \ {b} : bids'[c] = bids[c] /\ purse'[c] = purse[c]
    BY <1>1, FundEffect
  <2>7. purse'[b].available = purse[b].available - bids[b].amount
    BY <1>0, <1>1, FundEffect DEF PurseRecord
  <2>8. QED
    BY <2>1, <2>2, <2>3, <2>4, <2>5, <2>6, <2>7
<1>2. ASSUME NEW side \in Sides, NEW amount \in Amounts, PlaceAndFund(b, side, amount)
      PROVE  /\ market.status = "Open" /\ market'.status = "Open" /\ market'.outcome = market.outcome
             /\ market'.pot = [market.pot EXCEPT ![bids'[b].side] = @ + bids'[b].amount]
             /\ market'.escrow_lamports = market.escrow_lamports + bids'[b].amount
             /\ market'.author_payout = market.author_payout
             /\ bids[b].funded = FALSE /\ bids[b].settled = FALSE
             /\ bids'[b].funded = TRUE /\ bids'[b].settled = FALSE
             /\ bids'[b].side \in Sides /\ bids'[b].amount \in Nat
             /\ \A c \in Bidders \ {b} : bids'[c] = bids[c]
             /\ wallet' = wallet /\ purse'[b].available = purse[b].available - bids'[b].amount
             /\ \A c \in Bidders \ {b} : purse'[c] = purse[c]
  <2>1. /\ bids'[b].side = side /\ bids'[b].amount = amount
        /\ bids'[b].funded = TRUE /\ bids'[b].settled = FALSE
        /\ \A c \in Bidders \ {b} : bids'[c] = bids[c]
    BY <1>2, PlaceAndFundEffect
  <2>2. bids[b].funded \in BOOLEAN /\ bids[b].settled \in BOOLEAN /\ amount \in Nat
    BY <1>0, MarketAssumption DEF LooseBidRecord
  <2>3. ~bids[b].funded /\ ~bids[b].settled
    BY <1>2, PlaceAndFundIsFirst
  <2>4. /\ market.status = "Open" /\ market'.status = "Open" /\ market'.outcome = market.outcome
        /\ market'.pot = [market.pot EXCEPT ![side] = @ + amount]
        /\ market'.escrow_lamports = market.escrow_lamports + amount
        /\ market'.author_payout = market.author_payout /\ wallet' = wallet
    BY <1>2, PlaceAndFundMarket
  <2>5. /\ purse'[b].available = purse[b].available - amount
        /\ \A c \in Bidders \ {b} : purse'[c] = purse[c]
    BY <1>2, PlaceAndFundPurse
  <2>6. QED
    BY <2>1, <2>2, <2>3, <2>4, <2>5
<1>3. QED
  BY <1>1, <1>2 DEF TakesStake

\* What answering a bid pays and keeps.
LEMMA StakeAnswered ==
  ASSUME LooseTypeOK, NEW b \in Bidders, AnswersStake(b)
  PROVE  /\ market.status = "Resolved" /\ market'.status = "Resolved"
         /\ market'.outcome = market.outcome /\ market'.pot = market.pot
         /\ market'.sole_reader = IF IsChosenBid(market, bids[b]) THEN b ELSE market.sole_reader
         /\ market'.escrow_lamports = SatSub(market.escrow_lamports, PayoutOf(market, bids[b]))
         /\ market'.author_payout = market.author_payout + Forfeited(market, bids[b])
         /\ bids[b].account = "open" /\ bids[b].settled = FALSE /\ bids'[b].settled = TRUE
         /\ bids'[b].funded = bids[b].funded
         /\ bids'[b].side = bids[b].side /\ bids'[b].amount = bids[b].amount
         /\ \A c \in Bidders \ {b} : bids'[c] = bids[c]
         /\ wallet' = wallet
         /\ purse'[b].available = purse[b].available + PayoutOf(market, bids[b])
         /\ \A c \in Bidders \ {b} : purse'[c] = purse[c]
<1> DEFINE pay == PayoutOf(market, bids[b])
           reader == IF IsChosenBid(market, bids[b]) THEN b ELSE market.sole_reader
           left == SatSub(market.escrow_lamports, pay)
           due == market.author_payout + Forfeited(market, bids[b])
           unlocked == SatSub(purse[b].locked, Staked(bids[b]))
<1>0. /\ market \in LooseMarketRecord /\ bids[b] \in LooseBidRecord /\ purse[b] \in PurseRecord
  BY DEF LooseTypeOK
<1>1. /\ bids'[b].settled = TRUE /\ bids'[b].funded = bids[b].funded
      /\ bids'[b].side = bids[b].side /\ bids'[b].amount = bids[b].amount
  BY SettledFields DEF AnswersStake
<1>2. /\ purse'[b] = [purse[b] EXCEPT !.available = @ + pay, !.locked = unlocked]
      /\ \A c \in Bidders \ {b} : purse'[c] = purse[c] /\ bids'[c] = bids[c]
  BY SettleEffect, SettleAndCloseEffect DEF AnswersStake
<1>3. /\ market.status = "Resolved" /\ market'.status = market.status
      /\ market'.outcome = market.outcome /\ market'.pot = market.pot
      /\ market'.sole_reader = reader
      /\ bids[b].account = "open" /\ ~bids[b].settled
  BY SettleMarket, SettleAndCloseMarket DEF AnswersStake
<1>4. market'.escrow_lamports = left /\ market'.author_payout = due /\ wallet' = wallet
  <2>1. CASE SettleBid(b)
    <3>1. market' = [market EXCEPT !.sole_reader = reader, !.escrow_lamports = left,
                                   !.author_payout = due]
          /\ wallet' = wallet
      BY <2>1 DEF SettleBid
    <3> HIDE DEF reader, left, due
    <3>2. QED
      BY <1>0, <3>1 DEF LooseMarketRecord
  <2>2. CASE SettleAndClose(b)
    BY <2>2, SettleAndCloseMarket
  <2>3. QED
    BY <2>1, <2>2 DEF AnswersStake
<1>5. purse'[b].available = purse[b].available + pay
  <2> HIDE DEF pay, unlocked
  <2>1. QED
    BY <1>0, <1>2 DEF PurseRecord
<1>6. bids[b].settled = FALSE
  BY <1>0, <1>3 DEF LooseBidRecord
<1>7. QED
  BY <1>1, <1>2, <1>3, <1>4, <1>5, <1>6

\* Only paying for a bid and answering it move money in or out of the book.
LEMMA MoneySteps ==
  ASSUME Life, [Next]_vars
  PROVE  \/ MoneyStays
         \/ \E b \in Bidders : TakesStake(b) \/ AnswersStake(b)
<1> USE DEF Life
<1>0. /\ bids \in [Bidders -> LooseBidRecord] /\ \A c \in Bidders : bids[c] \in LooseBidRecord
      /\ market \in LooseMarketRecord
  BY DEF LooseTypeOK
<1>1. CASE (PurseNext /\ UNCHANGED marketVars) \/ Tick \/ UNCHANGED vars
  BY <1>1 DEF marketVars, vars, Tick, MoneyStays
<1>2. ASSUME NEW b \in Bidders, NEW side \in Sides, NEW amount \in Amounts, PlaceBid(b, side, amount)
      PROVE  MoneyStays
  <2>1. /\ bids[b].account = "none" /\ ~bids'[b].funded /\ ~bids'[b].settled
        /\ market' = [market EXCEPT !.bid_count = @ + 1]
        /\ \A c \in Bidders \ {b} : bids'[c] = bids[c]
    BY <1>2, PlaceEffect
  <2>2. bids'[b].funded = bids[b].funded /\ bids'[b].settled = bids[b].settled /\ ~bids[b].funded
    <3>1. bids'[b] = OpenBid(side, amount)
      BY <1>0, <1>2 DEF PlaceBid, RecordBid
    <3>2. bids'[b].funded = FALSE /\ bids'[b].settled = FALSE
      BY <3>1 DEF OpenBid, NoBid
    <3>3. bids[b].funded = FALSE /\ bids[b].settled = FALSE
      BY <1>0, <2>1 DEF BidLife, LooseBidRecord
    <3>4. QED
      BY <3>2, <3>3
  <2>3. /\ market'.pot = market.pot /\ market'.escrow_lamports = market.escrow_lamports
        /\ market'.author_payout = market.author_payout
    BY <1>0, <2>1 DEF LooseMarketRecord
  <2>4. QED
    BY <2>1, <2>2, <2>3 DEF MoneyStays
<1>3. ASSUME NEW b \in Bidders, InitBidPermission(b)
      PROVE  MoneyStays
  BY <1>0, <1>3 DEF InitBidPermission, LooseBidRecord, MoneyStays
<1>4. CASE VerdictStep
  BY <1>4, VerdictFrame DEF MoneyStays
<1>5. ASSUME NEW b \in Bidders, CloseBid(b)
      PROVE  MoneyStays
  <2>1. /\ bids'[b].settled = bids[b].settled /\ bids'[b].funded = bids[b].funded
        /\ bids'[b].side = bids[b].side /\ bids'[b].amount = bids[b].amount
    BY ZenonT(60), <1>0, <1>5, CloseEffect DEF LooseBidRecord
  <2>2. \A c \in Bidders \ {b} : bids'[c] = bids[c]
    BY <1>5, CloseEffect
  <2>3. /\ market'.pot = market.pot /\ market'.escrow_lamports = market.escrow_lamports
        /\ market'.author_payout = market.author_payout
    BY <1>0, <1>5 DEF CloseBid, LooseMarketRecord
  <2>4. QED
    BY <2>1, <2>2, <2>3 DEF MoneyStays
<1>6. CASE CloseBook
  BY <1>0, <1>6 DEF CloseBook, LooseMarketRecord, MoneyStays
<1>7. QED
  BY <1>1, <1>2, <1>3, <1>4, <1>5, <1>6 DEF Next, BidStep, SettleStep, TakesStake, AnswersStake

\* Such a step leaves every sum alone.
LEMMA StaysSums ==
  ASSUME MoneyStays
  PROVE  /\ \A side : StakesOn(bids', side) = StakesOn(bids, side)
         /\ LiveStakes(bids') = LiveStakes(bids)
<1>1. \A b \in Bidders : Staked(bids'[b]) = Staked(bids[b]) /\ bids'[b].settled = bids[b].settled
  BY DEF MoneyStays, Staked
<1>2. \A side : \A b \in Bidders :
        (IF bids'[b].side = side THEN Staked(bids'[b]) ELSE 0)
          = (IF bids[b].side = side THEN Staked(bids[b]) ELSE 0)
  BY DEF MoneyStays, Staked
<1>3. \A side : StakesOn(bids', side) = StakesOn(bids, side)
  BY <1>2, Zenon DEF StakesOn
<1>4. LiveStakes(bids') = LiveStakes(bids)
  BY <1>1, Zenon DEF LiveStakes
<1>5. QED
  BY <1>3, <1>4

\* What funding a bid adds to the sums.
LEMMA FundSums ==
  ASSUME Life, NEW b \in Bidders, TakesStake(b)
  PROVE  /\ PotsAreStakes(market, bids) => PotsAreStakes(market', bids')
         /\ SumFunction(LiveStakes(bids')) = SumFunction(LiveStakes(bids)) + bids'[b].amount
<1> USE DEF Life
<1>0. /\ market \in LooseMarketRecord /\ market' \in LooseMarketRecord
      /\ bids \in [Bidders -> LooseBidRecord] /\ bids' \in [Bidders -> LooseBidRecord]
      /\ market.pot \in [Sides -> Nat]
  <2>1. LooseTypeOK'
    BY LooseStep DEF Next, BidStep, TakesStake
  <2>2. QED
    BY <2>1 DEF LooseTypeOK, LooseMarketRecord
<1>1. /\ bids'[b].funded = TRUE /\ bids'[b].settled = FALSE /\ bids[b].settled = FALSE
      /\ bids[b].funded = FALSE /\ bids'[b].amount \in Nat /\ bids'[b].side \in Sides
      /\ \A c \in Bidders \ {b} : bids'[c] = bids[c]
      /\ market'.pot = [market.pot EXCEPT ![bids'[b].side] = @ + bids'[b].amount]
  BY StakeTaken
<1>2. Staked(bids[b]) = 0 /\ Staked(bids'[b]) = bids'[b].amount
  BY <1>1 DEF Staked
<1>3. IsFiniteSet(Bidders)
  BY MarketAssumption
<1>4. ASSUME NEW f \in [Bidders -> Nat], NEW g \in [Bidders -> Nat], \A c \in Bidders \ {b} : g[c] = f[c]
      PROVE  /\ SumFunction(g) = SumFunction(f) - f[b] + g[b]
             /\ SumFunction(f) \in Int /\ SumFunction(g) \in Int /\ f[b] \in Int /\ g[b] \in Int
  <2>1. f \in [Bidders -> Int] /\ g \in [Bidders -> Int]
    OBVIOUS
  <2>2. QED
    BY <1>3, <1>4, <2>1, SumChange, SumType
<1>5. SumFunction(LiveStakes(bids')) = SumFunction(LiveStakes(bids)) + bids'[b].amount
  <2> DEFINE f == LiveStakes(bids)
             g == LiveStakes(bids')
  <2>1. f \in [Bidders -> Nat] /\ g \in [Bidders -> Nat]
    BY <1>0, MoneyTypes
  <2>2. f[b] = 0 /\ g[b] = bids'[b].amount /\ \A c \in Bidders \ {b} : g[c] = f[c]
    BY <1>1, <1>2 DEF LiveStakes
  <2> HIDE DEF f, g
  <2>3. SumFunction(g) = SumFunction(f) - f[b] + g[b] /\ SumFunction(f) \in Int
    BY <1>4, <2>1, <2>2
  <2>4. SumFunction(g) = SumFunction(f) + bids'[b].amount
    BY <1>1, <2>2, <2>3
  <2>5. QED
    BY <2>4 DEF f, g
<1>6. ASSUME PotsAreStakes(market, bids), NEW side \in Sides
      PROVE  market'.pot[side] = SumFunction(StakesOn(bids', side))
  <2> DEFINE f == StakesOn(bids, side)
             g == StakesOn(bids', side)
  <2>1. f \in [Bidders -> Nat] /\ g \in [Bidders -> Nat]
    BY <1>0, MoneyTypes
  <2>2. /\ f[b] = 0 /\ g[b] = (IF bids'[b].side = side THEN bids'[b].amount ELSE 0)
        /\ \A c \in Bidders \ {b} : g[c] = f[c]
    BY <1>1, <1>2 DEF StakesOn
  <2>3. market'.pot[side] = market.pot[side] + (IF bids'[b].side = side THEN bids'[b].amount ELSE 0)
        /\ market.pot[side] \in Nat
    BY <1>0, <1>1
  <2>4. market.pot[side] = SumFunction(f)
    BY <1>6 DEF PotsAreStakes
  <2> HIDE DEF f, g
  <2>5. SumFunction(g) = SumFunction(f) - f[b] + g[b] /\ SumFunction(f) \in Int
    BY <1>4, <2>1, <2>2
  <2>6. market'.pot[side] = SumFunction(g)
    BY <1>1, <2>2, <2>3, <2>4, <2>5
  <2>7. QED
    BY <2>6 DEF g
<1>7. QED
  BY <1>5, <1>6 DEF PotsAreStakes

\* The pots stay the stakes of their sides.
LEMMA PotsStep == Life /\ PotsAreStakes(market, bids) /\ [Next]_vars => PotsAreStakes(market', bids')
<1> SUFFICES ASSUME Life, PotsAreStakes(market, bids), [Next]_vars PROVE PotsAreStakes(market', bids')
  OBVIOUS
<1>1. CASE MoneyStays
  BY <1>1, StaysSums DEF PotsAreStakes, MoneyStays
<1>2. ASSUME NEW b \in Bidders, TakesStake(b) PROVE PotsAreStakes(market', bids')
  BY <1>2, FundSums
<1>3. ASSUME NEW b \in Bidders, AnswersStake(b) PROVE PotsAreStakes(market', bids')
  <2>1. \A c \in Bidders : /\ bids'[c].side = bids[c].side
                           /\ Staked(bids'[c]) = Staked(bids[c])
    <3>1. bids'[b].side = bids[b].side /\ Staked(bids'[b]) = Staked(bids[b])
      BY <1>3, StakeAnswered DEF Life, Staked
    <3>2. QED
      BY <1>3, <3>1, StakeAnswered DEF Life
  <2>2. \A side : StakesOn(bids', side) = StakesOn(bids, side)
    BY <2>1, Zenon DEF StakesOn
  <2>3. market'.pot = market.pot
    BY <1>3, StakeAnswered DEF Life
  <2>4. QED
    BY <2>2, <2>3 DEF PotsAreStakes
<1>4. QED
  BY <1>1, <1>2, <1>3, MoneySteps

\* Under a rumor's verdict a payout is computed from the pots alone.
LEMMA RumorPayout ==
  ASSUME NEW m, NEW n, NEW bid, NEW new, m.outcome \in RumorVerdicts,
         n.outcome = m.outcome, n.pot = m.pot, new.funded = bid.funded,
         bid.funded => new.side = bid.side /\ new.amount = bid.amount
  PROVE  PayoutOf(n, new) = PayoutOf(m, bid)
BY DEF PayoutOf, ComputePayout, Winnings, RumorVerdicts

\* What settling a bid takes out of the sums, and that the escrow holds the payout.
LEMMA SettleSums ==
  ASSUME Life, Covered(market, bids), NEW b \in Bidders, AnswersStake(b)
  PROVE  /\ Covered(market', bids')
         /\ market'.escrow_lamports = market.escrow_lamports - PayoutOf(market, bids[b])
         /\ PayoutOf(market, bids[b]) <= market.escrow_lamports
<1> USE DEF Life
<1> DEFINE pay == PayoutOf(market, bids[b])
           kept == Forfeited(market, bids[b])
           was == market.escrow_lamports
           now_ == market'.escrow_lamports
           due == market.author_payout
<1>0. /\ market \in LooseMarketRecord /\ market' \in LooseMarketRecord
      /\ bids \in [Bidders -> LooseBidRecord] /\ bids' \in [Bidders -> LooseBidRecord]
      /\ bids[b] \in LooseBidRecord
  <2>1. LooseTypeOK'
    BY LooseStep DEF Next, SettleStep, AnswersStake
  <2>2. QED
    BY <2>1 DEF LooseTypeOK
<1>1. /\ pay \in Nat /\ kept \in Nat /\ was \in Nat /\ due \in Nat /\ Staked(bids[b]) \in Nat
      /\ IsFiniteSet(Bidders)
  BY <1>0, PayoutType, MoneyTypes
<1>2. /\ now_ = SatSub(was, pay) /\ market'.author_payout = due + kept
      /\ market'.outcome = market.outcome /\ market'.pot = market.pot
  BY StakeAnswered
<1>3. /\ bids[b].settled = FALSE /\ bids'[b].settled = TRUE
      /\ \A c \in Bidders \ {b} : bids'[c] = bids[c]
  BY StakeAnswered
<1> HIDE DEF pay, kept, was, now_, due
<1>4. ASSUME NEW f \in [Bidders -> Nat], NEW g \in [Bidders -> Nat], g[b] = 0,
             \A c \in Bidders \ {b} : g[c] = f[c]
      PROVE  /\ SumFunction(f) = f[b] + SumFunction(g)
             /\ SumFunction(f) \in Nat /\ SumFunction(g) \in Nat
  <2>1. f \in [Bidders -> Int] /\ g \in [Bidders -> Int]
    OBVIOUS
  <2>2. SumFunction(g) = SumFunction(f) - f[b] + g[b]
    BY <1>1, <1>4, <2>1, SumChange
  <2>3. SumFunction(f) \in Nat /\ SumFunction(g) \in Nat
    BY <1>1, <2>1, SumType
  <2>4. f[b] \in Nat
    OBVIOUS
  <2>5. QED
    BY <1>4, <2>2, <2>3, <2>4
<1>5. CASE market.outcome \in RumorVerdicts
  <2> DEFINE f == LivePayouts(market, bids)
             g == LivePayouts(market', bids')
  <2>1. f \in [Bidders -> Nat] /\ g \in [Bidders -> Nat]
    BY <1>0, MoneyTypes
  <2>2. f[b] = pay /\ g[b] = 0
    BY <1>3 DEF LivePayouts, pay
  <2>3. ASSUME NEW c \in Bidders \ {b} PROVE g[c] = f[c]
    <3>1. PayoutOf(market', bids[c]) = PayoutOf(market, bids[c])
      BY <1>2, <1>5, RumorPayout
    <3>2. QED
      BY <1>3, <3>1 DEF LivePayouts
  <2>4. was >= due + SumFunction(f)
    BY <1>5 DEF Covered, was, due
  <2>5. kept = 0
    BY <1>5, TwoSidedForfeit DEF kept
  <2> HIDE DEF f, g
  <2>6. SumFunction(f) = pay + SumFunction(g) /\ SumFunction(f) \in Nat /\ SumFunction(g) \in Nat
    BY <1>4, <2>1, <2>2, <2>3
  <2>7. pay <= was /\ now_ = was - pay /\ now_ >= (due + kept) + SumFunction(g)
    BY <1>1, <1>2, <2>4, <2>5, <2>6 DEF SatSub
  <2>8. Covered(market', bids')
    BY <1>2, <1>5, <2>7 DEF Covered, g, now_
  <2>9. QED
    BY <2>7, <2>8 DEF pay, was, now_
<1>6. CASE market.outcome \notin RumorVerdicts
  <2> DEFINE f == LiveStakes(bids)
             g == LiveStakes(bids')
  <2>1. f \in [Bidders -> Nat] /\ g \in [Bidders -> Nat]
    BY <1>0, MoneyTypes
  <2>2. f[b] = Staked(bids[b]) /\ g[b] = 0 /\ \A c \in Bidders \ {b} : g[c] = f[c]
    BY <1>3 DEF LiveStakes
  <2>3. was = due + SumFunction(f)
    BY <1>6 DEF Covered, was, due
  <2>4. pay \in {0, f[b]} /\ kept = f[b] - pay
    BY <1>0, <1>6, <2>2, OneSidedPayout DEF pay, kept
  <2> HIDE DEF f, g
  <2>5. SumFunction(f) = f[b] + SumFunction(g) /\ SumFunction(f) \in Nat /\ SumFunction(g) \in Nat
    BY <1>4, <2>1, <2>2
  <2>6. f[b] \in Nat
    BY <2>1
  <2>7. pay <= was /\ now_ = was - pay /\ now_ = (due + kept) + SumFunction(g)
    BY <1>1, <1>2, <2>3, <2>4, <2>5, <2>6 DEF SatSub
  <2>8. Covered(market', bids')
    BY <1>2, <1>6, <2>7 DEF Covered, g, now_
  <2>9. QED
    BY <2>7, <2>8 DEF pay, was, now_
<1>7. QED
  BY <1>5, <1>6

\* The escrow goes on covering every claim.
LEMMA CoveredStep ==
  ASSUME Life, PotsAreStakes(market, bids), Covered(market, bids), [Next]_vars
  PROVE  Covered(market', bids')
<1> USE DEF Life
<1>0. /\ market \in LooseMarketRecord /\ market' \in LooseMarketRecord
      /\ bids \in [Bidders -> LooseBidRecord] /\ bids' \in [Bidders -> LooseBidRecord]
  BY LooseStep DEF LooseTypeOK
<1>1. CASE MoneyStays /\ market'.outcome = market.outcome
  <2>1. CASE market.outcome \in RumorVerdicts
    <3>1. ASSUME NEW b \in Bidders
          PROVE  /\ PayoutOf(market', bids'[b]) = PayoutOf(market, bids[b])
                 /\ bids'[b].settled = bids[b].settled
      BY <1>1, <2>1, RumorPayout DEF MoneyStays
    <3>2. LivePayouts(market', bids') = LivePayouts(market, bids)
      BY <3>1, Zenon DEF LivePayouts
    <3>3. QED
      BY <1>1, <2>1, <3>2 DEF Covered, MoneyStays
  <2>2. CASE market.outcome \notin RumorVerdicts
    BY <1>1, <2>2, StaysSums DEF Covered, MoneyStays
  <2>3. QED
    BY <2>1, <2>2
<1>2. CASE MoneyStays /\ market'.outcome # market.outcome
  <2>1. ~Decided
    BY <1>2, DecidedStep
  <2>2. market.outcome = "Pending"
    BY <1>0, <2>1 DEF MarketLife, Decided, LooseMarketRecord, Statuses
  <2>3. market.escrow_lamports = market.author_payout + SumFunction(LiveStakes(bids))
    BY <2>2 DEF Covered, RumorVerdicts
  <2>4. market'.escrow_lamports = market'.author_payout + SumFunction(LiveStakes(bids'))
    BY <1>2, <2>3, StaysSums DEF MoneyStays
  <2>5. CASE market'.outcome \in RumorVerdicts
    <3>1. \A b \in Bidders : ~bids'[b].settled
      BY <1>2, <2>1 DEF BidLife, Decided, MoneyStays
    <3>2. PotsAreStakes(market', bids')
      BY PotsStep
    <3>3. SumFunction(LivePayouts(market', bids')) <= SumFunction(LiveStakes(bids'))
      BY <1>0, <2>5, <3>1, <3>2, SharesFit
    <3>4. /\ SumFunction(LivePayouts(market', bids')) \in Nat
          /\ SumFunction(LiveStakes(bids')) \in Nat /\ market'.author_payout \in Nat
      BY <1>0, MoneyTypes
    <3>5. QED
      BY <2>4, <2>5, <3>3, <3>4 DEF Covered
  <2>6. QED
    BY <2>4, <2>5 DEF Covered
<1>3. ASSUME NEW b \in Bidders, TakesStake(b) PROVE Covered(market', bids')
  <2>1. market.outcome = "Pending" /\ market'.outcome = "Pending"
    BY <1>3, StakeTaken DEF MarketLife
  <2>2. market.escrow_lamports = market.author_payout + SumFunction(LiveStakes(bids))
    BY <2>1 DEF Covered, RumorVerdicts
  <2>3. /\ market'.escrow_lamports = market.escrow_lamports + bids'[b].amount
        /\ market'.author_payout = market.author_payout
        /\ SumFunction(LiveStakes(bids')) = SumFunction(LiveStakes(bids)) + bids'[b].amount
    BY <1>3, StakeTaken, FundSums
  <2>4. SumFunction(LiveStakes(bids)) \in Nat /\ market.author_payout \in Nat /\ bids'[b].amount \in Nat
    BY <1>0, <1>3, MoneyTypes, StakeTaken
  <2>5. market'.escrow_lamports = market'.author_payout + SumFunction(LiveStakes(bids'))
    BY <2>2, <2>3, <2>4
  <2>6. QED
    BY <2>1, <2>5 DEF Covered, RumorVerdicts
<1>4. ASSUME NEW b \in Bidders, AnswersStake(b) PROVE Covered(market', bids')
  BY <1>4, SettleSums
<1>5. QED
  BY <1>1, <1>2, <1>3, <1>4, MoneySteps

\* The market's money invariant.
Money == PotsAreStakes(market, bids) /\ Covered(market, bids)

\* An empty book: every sum is nothing.
LEMMA MoneyInit == FreshBook => Money
<1> SUFFICES ASSUME FreshBook PROVE Money
  OBVIOUS
<1>1. /\ bids = [b \in Bidders |-> NoBid] /\ market.pot = [s \in Sides |-> 0]
      /\ market.escrow_lamports = 0 /\ market.author_payout = 0 /\ market.outcome = "Pending"
  BY DEF FreshBook, MarketInit
<1>2. \A b \in Bidders : Staked(bids[b]) = 0
  BY <1>1 DEF Staked, NoBid
<1>3. ASSUME NEW f \in [Bidders -> Int], \A b \in Bidders : f[b] = 0 PROVE SumFunction(f) = 0
  <2>1. IsFiniteSet(Bidders) /\ Cardinality(Bidders) \in Nat
    BY MarketAssumption, FS_CardinalityType
  <2>2. SumFunction(f) = 0 * Cardinality(Bidders)
    BY <1>3, <2>1, SumOfSame
  <2>3. QED
    BY <2>1, <2>2
<1>4. ASSUME NEW side PROVE SumFunction(StakesOn(bids, side)) = 0
  <2>1. StakesOn(bids, side) \in [Bidders -> Int] /\ \A b \in Bidders : StakesOn(bids, side)[b] = 0
    BY <1>2 DEF StakesOn
  <2>2. QED
    BY <1>3, <2>1
<1>5. SumFunction(LiveStakes(bids)) = 0
  <2>1. LiveStakes(bids) \in [Bidders -> Int] /\ \A b \in Bidders : LiveStakes(bids)[b] = 0
    BY <1>2 DEF LiveStakes
  <2>2. QED
    BY <1>3, <2>1
<1>6. QED
  BY <1>1, <1>4, <1>5 DEF Money, PotsAreStakes, Covered, RumorVerdicts

\* Every instruction keeps the money invariant.
LEMMA MoneyStep == Invariant /\ Money /\ [Next]_vars => Money'
<1> SUFFICES ASSUME Invariant, Money, [Next]_vars PROVE PotsAreStakes(market', bids') /\ Covered(market', bids')
  BY DEF Money
<1>1. QED
  BY PotsStep, CoveredStep DEF Invariant, Money

\* The escrow covers every claim on it, for any number of bidders, any amounts
\* and any order of settlement: the floored shares of a rumor's winners never
\* add up to more than the losers' pot.
THEOREM EscrowAlwaysCovers == Spec => []EscrowCoversClaims
<1>1. Money => EscrowCoversClaims
  BY CoveredIsCovers DEF Money
<1>2. QED
  BY <1>1, StartsFresh, MoneyInit, MoneyStep, InvariantHolds, PTL DEF Spec

----------------------------------------------------------------------------
(* No lamport is made or lost.                                             *)

\* What a villager holds outside the book.
Available == [b \in Bidders |-> purse[b].available]

\* One villager's lamports move, between its wallet, its purse and the escrow.
MovesMoney(b) ==
  /\ \A c \in Bidders \ {b} : wallet'[c] = wallet[c] /\ purse'[c].available = purse[c].available
  /\ wallet'[b] + purse'[b].available + market'.escrow_lamports
       = wallet[b] + purse[b].available + market.escrow_lamports

\* A deposit or a withdrawal moves one villager's lamports; the rest of a purse's
\* steps move none.
LEMMA PurseMoves ==
  ASSUME LooseTypeOK, PurseNext, market' = market
  PROVE  \E b \in Bidders : MovesMoney(b)
<1>1. /\ wallet \in [Bidders -> Nat] /\ purse \in [Bidders -> PurseRecord]
      /\ \A c \in Bidders : purse[c] \in PurseRecord /\ purse[c].available \in Nat /\ wallet[c] \in Nat
      /\ market.escrow_lamports \in Nat
  BY DEF LooseTypeOK, PurseRecord, LooseMarketRecord
<1>2. PICK b \in Bidders :
        \/ \E amount \in Transfers : DepositPurse(b, amount) \/ WithdrawPurse(b, amount)
        \/ DelegatePurse(b) \/ UndelegatePurse(b) \/ PurseReturns(b)
  BY DEF PurseNext
<1>3. ASSUME NEW amount \in Transfers, DepositPurse(b, amount) PROVE MovesMoney(b)
  <2>1. amount \in Nat
    BY PurseAssumption
  <2>2. wallet'[b] = wallet[b] - amount /\ purse'[b].available = purse[b].available + amount
    BY <1>1, <1>3 DEF DepositPurse, PurseRecord
  <2>3. \A c \in Bidders \ {b} : wallet'[c] = wallet[c] /\ purse'[c] = purse[c]
    BY <1>1, <1>3 DEF DepositPurse
  <2>4. QED
    BY <1>1, <2>1, <2>2, <2>3 DEF MovesMoney
<1>4. ASSUME NEW amount \in Transfers, WithdrawPurse(b, amount) PROVE MovesMoney(b)
  <2>1. amount \in Nat
    BY PurseAssumption
  <2>2. wallet'[b] = wallet[b] + amount /\ purse'[b].available = purse[b].available - amount
    BY <1>1, <1>4 DEF WithdrawPurse, PurseRecord
  <2>3. \A c \in Bidders \ {b} : wallet'[c] = wallet[c] /\ purse'[c] = purse[c]
    BY <1>1, <1>4 DEF WithdrawPurse
  <2>4. QED
    BY <1>1, <2>1, <2>2, <2>3 DEF MovesMoney
<1>5. ASSUME DelegatePurse(b) \/ UndelegatePurse(b) \/ PurseReturns(b) PROVE MovesMoney(b)
  <2>1. wallet' = wallet /\ \A c \in Bidders : purse'[c].available = purse[c].available
    BY <1>1, <1>5 DEF DelegatePurse, UndelegatePurse, Undelegatable, PurseReturns, PurseRecord
  <2>2. QED
    BY <2>1 DEF MovesMoney
<1>6. QED
  BY <1>2, <1>3, <1>4, <1>5

\* Every instruction moves one villager's lamports, or none.
LEMMA MovingSteps ==
  ASSUME Invariant, Money, [Next]_vars
  PROVE  \/ wallet' = wallet /\ purse' = purse /\ market'.escrow_lamports = market.escrow_lamports
         \/ \E b \in Bidders : MovesMoney(b)
<1>0. /\ Life /\ LooseTypeOK /\ BidLife /\ Covered(market, bids)
      /\ \A c \in Bidders : purse[c] \in PurseRecord /\ purse[c].available \in Nat /\ wallet[c] \in Nat
                            /\ bids[c] \in LooseBidRecord /\ bids[c].amount \in Nat
      /\ market.escrow_lamports \in Nat /\ market \in LooseMarketRecord
  BY DEF Invariant, Life, Money, LooseTypeOK, PurseRecord, LooseMarketRecord, LooseBidRecord
<1>1. CASE PurseNext /\ UNCHANGED marketVars
  BY <1>0, <1>1, PurseMoves DEF marketVars
<1>2. ASSUME NEW b \in Bidders, NEW side \in Sides, NEW amount \in Amounts, PlaceBid(b, side, amount)
      PROVE  wallet' = wallet /\ purse' = purse /\ market'.escrow_lamports = market.escrow_lamports
  BY <1>0, <1>2, PlaceEffect DEF LooseMarketRecord
<1>3. ASSUME NEW b \in Bidders, TakesStake(b) PROVE MovesMoney(b)
  <2>1. /\ market'.escrow_lamports = market.escrow_lamports + bids'[b].amount
        /\ bids'[b].amount \in Nat
        /\ wallet' = wallet /\ purse'[b].available = purse[b].available - bids'[b].amount
        /\ \A c \in Bidders \ {b} : purse'[c] = purse[c]
    BY <1>0, <1>3, StakeTaken
  <2>2. QED
    BY <1>0, <2>1 DEF MovesMoney
<1>4. ASSUME NEW b \in Bidders, AnswersStake(b) PROVE MovesMoney(b)
  <2> DEFINE pay == PayoutOf(market, bids[b])
  <2>1. /\ market'.escrow_lamports = market.escrow_lamports - pay
        /\ pay \in Nat
    BY <1>0, <1>4, SettleSums, PayoutType DEF Life
  <2>2. /\ purse'[b].available = purse[b].available + pay /\ wallet' = wallet
        /\ \A c \in Bidders \ {b} : purse'[c] = purse[c]
    BY <1>0, <1>4, StakeAnswered
  <2> HIDE DEF pay
  <2>3. QED
    BY <1>0, <2>1, <2>2 DEF MovesMoney
<1>5. ASSUME NEW b \in Bidders, InitBidPermission(b) \/ CloseBid(b)
      PROVE  wallet' = wallet /\ purse' = purse /\ market'.escrow_lamports = market.escrow_lamports
  BY <1>0, <1>5 DEF InitBidPermission, CloseBid, purseVars, LooseMarketRecord
<1>6. CASE VerdictStep
  BY <1>0, <1>6, VerdictFrame
<1>7. CASE Tick \/ CloseBook \/ UNCHANGED vars
  BY <1>0, <1>7 DEF Tick, CloseBook, vars, purseVars, marketVars, LooseMarketRecord
<1>8. QED
  BY <1>1, <1>2, <1>3, <1>4, <1>5, <1>6, <1>7
  DEF Next, BidStep, SettleStep, TakesStake, AnswersStake

\* What wallets, purses and the escrow hold together.
Holdings == SumFunction(wallet) + SumFunction(Available) + market.escrow_lamports

\* Every instruction keeps the sum of what is held.
LEMMA HoldingsStep ==
  ASSUME Invariant, Money, [Next]_vars
  PROVE  Holdings' = Holdings /\ Holdings \in Int
<1> DEFINE was == Available
           is == Available'
           held == SumFunction(wallet) + SumFunction(was) + market.escrow_lamports
           holds == SumFunction(wallet') + SumFunction(is) + market'.escrow_lamports
<1>1. /\ wallet \in [Bidders -> Int] /\ wallet' \in [Bidders -> Int]
      /\ was \in [Bidders -> Int] /\ is \in [Bidders -> Int]
      /\ market.escrow_lamports \in Int /\ market'.escrow_lamports \in Int /\ IsFiniteSet(Bidders)
      /\ \A b \in Bidders : was[b] = purse[b].available /\ is[b] = purse'[b].available
  <2>1. LooseTypeOK /\ LooseTypeOK'
    BY LooseStep DEF Invariant, Life
  <2>2. QED
    BY <2>1, MarketAssumption DEF LooseTypeOK, PurseRecord, LooseMarketRecord, Available
<1>2. SumFunction(wallet) \in Int /\ SumFunction(was) \in Int
  BY <1>1, SumType
<1>3. CASE wallet' = wallet /\ purse' = purse /\ market'.escrow_lamports = market.escrow_lamports
  <2>1. is = was
    BY <1>3 DEF Available
  <2>2. QED
    BY <1>1, <1>2, <1>3, <2>1 DEF Holdings
<1>4. ASSUME NEW b \in Bidders, MovesMoney(b)
      PROVE  holds = held
  <2>1. /\ \A c \in Bidders \ {b} : wallet'[c] = wallet[c] /\ is[c] = was[c]
        /\ wallet'[b] + is[b] + market'.escrow_lamports = wallet[b] + was[b] + market.escrow_lamports
    BY <1>1, <1>4 DEF MovesMoney
  <2> HIDE DEF was, is
  <2>2. SumFunction(wallet') = SumFunction(wallet) - wallet[b] + wallet'[b]
    BY <1>1, <2>1, SumChange
  <2>3. SumFunction(is) = SumFunction(was) - was[b] + is[b]
    BY <1>1, <2>1, SumChange
  <2>4. wallet[b] \in Int /\ wallet'[b] \in Int /\ was[b] \in Int /\ is[b] \in Int
    BY <1>1
  <2>5. /\ wallet'[b] + is[b] + market'.escrow_lamports = wallet[b] + was[b] + market.escrow_lamports
        /\ market.escrow_lamports \in Int /\ market'.escrow_lamports \in Int
    BY <1>1, <2>1
  <2>6. SumFunction(wallet') + SumFunction(is)
          = (SumFunction(wallet) + SumFunction(was)) + ((wallet'[b] + is[b]) - (wallet[b] + was[b]))
    BY <1>2, <2>2, <2>3, <2>4
  <2>7. (wallet'[b] + is[b]) - (wallet[b] + was[b]) = market.escrow_lamports - market'.escrow_lamports
    BY <2>4, <2>5
  <2>8. SumFunction(wallet') + SumFunction(is)
          = (SumFunction(wallet) + SumFunction(was)) + (market.escrow_lamports - market'.escrow_lamports)
    BY <2>6, <2>7
  <2>9. QED
    BY <1>2, <2>5, <2>8
<1>5. held \in Int
  BY <1>1, <1>2
<1>6. QED
  BY <1>3, <1>4, <1>5, MovingSteps DEF Holdings

\* The village starts with what its wallets hold.
LEMMA HoldingsInit == Init => Holdings = Funds * Cardinality(Bidders)
<1> SUFFICES ASSUME Init PROVE Holdings = Funds * Cardinality(Bidders)
  OBVIOUS
<1> DEFINE held == Available
<1>1. /\ wallet \in [Bidders -> Int] /\ \A b \in Bidders : wallet[b] = Funds
      /\ held \in [Bidders -> Int] /\ \A b \in Bidders : held[b] = 0
      /\ market.escrow_lamports = 0 /\ Funds \in Int
      /\ IsFiniteSet(Bidders) /\ Cardinality(Bidders) \in Nat
  BY PurseAssumption, MarketAssumption, FS_CardinalityType DEF Init, PurseInit, MarketInit, Available
<1> HIDE DEF held
<1>2. SumFunction(wallet) = Funds * Cardinality(Bidders)
  BY <1>1, SumOfSame
<1>3. SumFunction(held) = 0 * Cardinality(Bidders)
  BY <1>1, SumOfSame
<1>4. Funds * Cardinality(Bidders) \in Int
  BY <1>1
<1>5. SumFunction(wallet) + SumFunction(held) + market.escrow_lamports = Funds * Cardinality(Bidders)
  BY <1>1, <1>2, <1>3, <1>4
<1>6. QED
  BY <1>5 DEF Holdings, held

\* Or with what its purses were filled with, once all wallets are in them.
LEMMA FilledPursesHoldings ==
  ASSUME MarketInit, wallet = [b \in Bidders |-> 0],
         purse = [b \in Bidders |-> [available |-> Funds, locked |-> 0, layer |-> "ER"]]
  PROVE  Holdings = Funds * Cardinality(Bidders)
<1> DEFINE held == Available
<1>1. /\ wallet \in [Bidders -> Int] /\ \A b \in Bidders : wallet[b] = 0
      /\ held \in [Bidders -> Int] /\ \A b \in Bidders : held[b] = Funds
      /\ market.escrow_lamports = 0 /\ Funds \in Int
      /\ IsFiniteSet(Bidders) /\ Cardinality(Bidders) \in Nat
  BY PurseAssumption, MarketAssumption, FS_CardinalityType DEF MarketInit, Available
<1> HIDE DEF held
<1>2. SumFunction(wallet) = 0 * Cardinality(Bidders)
  BY <1>1, SumOfSame
<1>3. SumFunction(held) = Funds * Cardinality(Bidders)
  BY <1>1, SumOfSame
<1>4. Funds * Cardinality(Bidders) \in Int
  BY <1>1
<1>5. SumFunction(wallet) + SumFunction(held) + market.escrow_lamports = Funds * Cardinality(Bidders)
  BY <1>1, <1>2, <1>3, <1>4
<1>6. QED
  BY <1>5 DEF Holdings, held

\* The village's wallets, purses and escrow always hold together what it started
\* with: no instruction makes or loses a lamport.
THEOREM MoneyNeverLeaks == Spec => []MoneyIsConserved
<1>1. Init => MoneyIsConserved
  BY HoldingsInit DEF MoneyIsConserved, Holdings, Available
<1>2. ASSUME Invariant, Money, [Next]_vars, MoneyIsConserved
      PROVE  MoneyIsConserved'
  BY <1>2, HoldingsStep DEF MoneyIsConserved, Holdings, Available
<1>3. QED
  BY <1>1, <1>2, StartsFresh, MoneyInit, MoneyStep, InvariantHolds, PTL DEF Spec

----------------------------------------------------------------------------
(* The sole reader's stake is what the author is owed.                     *)

\* What the author is owed while bids are settled under a sole reader's verdict.
AuthorsDue ==
  /\ market.outcome = "Pending" => market.author_payout = 0
  /\ market.outcome = "SoleReader" =>
       market.author_payout = IF market.sole_reader = Nobody THEN 0 ELSE bids[market.sole_reader].amount

\* Whoever is chosen is named once settled, and a rumor has no reader.
ChosenAreNamed ==
  /\ \A b \in Bidders : bids[b].settled /\ IsChosenBid(market, bids[b]) => market.sole_reader = b
  /\ ~IsConfession(market) => market.outcome \in {"Pending"} \cup RumorVerdicts

\* A sole reader's verdict keeps the chosen bid and returns every other.
LEMMA SoleReaderForfeit ==
  ASSUME NEW m, NEW bid \in LooseBidRecord, m.outcome = "SoleReader"
  PROVE  Forfeited(m, bid) = IF IsChosenBid(m, bid) THEN bid.amount ELSE 0
<1>1. m.outcome \notin RumorVerdicts /\ bid.amount \in Nat
  BY DEF RumorVerdicts, LooseBidRecord
<1>2. Forfeited(m, bid) = Staked(bid) - PayoutOf(m, bid)
  BY <1>1, OneSidedPayout
<1>3. CASE IsChosenBid(m, bid)
  <2>1. Staked(bid) = bid.amount /\ PayoutOf(m, bid) = 0
    BY <1>3 DEF IsChosenBid, Staked, PayoutOf, ComputePayout
  <2>2. QED
    BY <1>1, <1>2, <1>3, <2>1
<1>4. CASE ~IsChosenBid(m, bid)
  <2>1. PayoutOf(m, bid) = Staked(bid) /\ Staked(bid) \in Nat
    BY <1>1, <1>4 DEF Staked, PayoutOf, ComputePayout
  <2>2. QED
    BY <1>2, <1>4, <2>1
<1>5. QED
  BY <1>3, <1>4

\* Before the verdict nothing is settled, named or owed.
LEMMA UndecidedOwes ==
  ASSUME Invariant, ReaderIsChosen, ~Decided, [Next]_vars
  PROVE  /\ market.outcome = "Pending"
         /\ market'.sole_reader = Nobody /\ market'.author_payout = market.author_payout
         /\ \A c \in Bidders : ~bids'[c].settled
<1>0. /\ Life /\ LooseTypeOK /\ BidLife /\ market.outcome = "Pending"
  <2>1. Life /\ LooseTypeOK /\ BidLife /\ MarketLife /\ market \in LooseMarketRecord
    BY DEF Invariant, Life, LooseTypeOK
  <2>2. QED
    BY <2>1 DEF MarketLife, Decided, LooseMarketRecord, Statuses
<1>1. market.sole_reader = Nobody /\ \A c \in Bidders : ~bids[c].settled
  BY <1>0 DEF ReaderIsChosen, BidLife, Decided
<1>2. ASSUME NEW b \in Bidders PROVE ~AnswersStake(b)
  BY <1>0, StakeAnswered DEF Decided
<1>3. market'.sole_reader = Nobody
  BY <1>0, <1>1, <1>2, ReaderSteps DEF AnswersStake
<1>4. CASE MoneyStays
  BY <1>0, <1>1, <1>3, <1>4 DEF MoneyStays
<1>5. ASSUME NEW b \in Bidders, TakesStake(b)
      PROVE  market'.author_payout = market.author_payout /\ \A c \in Bidders : ~bids'[c].settled
  <2>1. /\ market'.author_payout = market.author_payout /\ bids'[b].settled = FALSE
        /\ \A c \in Bidders \ {b} : bids'[c] = bids[c]
    BY <1>0, <1>5, StakeTaken
  <2>2. QED
    BY <1>1, <2>1
<1>6. QED
  BY <1>0, <1>2, <1>3, <1>4, <1>5, MoneySteps

\* Who is chosen does not change under a verdict.
LEMMA ChoiceStands ==
  ASSUME Life, [Next]_vars, Decided
  PROVE  /\ market'.outcome = market.outcome /\ market'.room = market.room
         /\ \A c \in Bidders : IsChosenBid(market', bids'[c]) <=> IsChosenBid(market, bids[c])
<1>1. /\ Quiet /\ market'.outcome = market.outcome /\ market'.randomness = market.randomness
      /\ market'.room = market.room
  BY DecidedStep, GroundsStand
<1>2. QED
  BY <1>1 DEF Quiet, IsChosenBid

\* Every instruction keeps the chosen named.
LEMMA NamedStep == Invariant /\ ReaderIsChosen /\ ChosenAreNamed /\ [Next]_vars => ChosenAreNamed'
<1> SUFFICES ASSUME Invariant, ReaderIsChosen, ChosenAreNamed, [Next]_vars PROVE ChosenAreNamed'
  OBVIOUS
<1>0. /\ Life /\ BookOrder /\ LooseTypeOK /\ MarketLife /\ market \in LooseMarketRecord
  BY DEF Invariant, Life, LooseTypeOK
<1>1. CASE ~Decided
  <2>1. market.outcome = "Pending" /\ \A c \in Bidders : ~bids'[c].settled
    BY <1>1, UndecidedOwes
  <2>2. ASSUME market'.outcome # "Pending", ~IsConfession(market')
        PROVE  market'.outcome \in RumorVerdicts
    <3>1. market'.room = market.room => ~IsConfession(market)
      BY <2>2 DEF IsConfession
    <3>2. CASE market' = [market EXCEPT !.status = "Resolved", !.outcome = "PublicLeak",
                                        !.resolved_at = now] /\ IsConfession(market)
      BY <1>0, <3>1, <3>2 DEF LooseMarketRecord
    <3>3. ASSUME market.status = "VrfPending", NEW draw \in Draws, NEW coin \in BOOLEAN,
                 market' = [market EXCEPT !.status = "Resolved", !.outcome = Verdict(market, now, coin),
                                          !.randomness = draw, !.resolved_at = now]
          PROVE  FALSE
      <4> DEFINE verdict == Verdict(market, now, coin)
      <4> HIDE DEF verdict
      <4>1. market' = [market EXCEPT !.status = "Resolved", !.outcome = verdict,
                                     !.randomness = draw, !.resolved_at = now]
        BY <3>3 DEF verdict
      <4>2. market'.room = market.room
        BY <1>0, <4>1 DEF LooseMarketRecord
      <4>3. QED
        BY <1>0, <3>1, <3>3, <4>2 DEF MarketLife
    <3>4. ASSUME NEW result \in 1..2, ResolveRumor(result)
          PROVE  market'.outcome \in RumorVerdicts
      BY <1>0, <3>4 DEF ResolveRumor, RumorVerdicts, LooseMarketRecord
    <3>5. QED
      BY <1>0, <2>1, <2>2, <3>2, <3>3, <3>4, DecidingSteps
  <2>3. QED
    BY <2>1, <2>2 DEF ChosenAreNamed
<1>2. CASE Decided /\ ~ \E b \in Bidders : AnswersStake(b)
  <2>1. market'.sole_reader = market.sole_reader
    BY <1>0, <1>2, ReaderSteps DEF AnswersStake
  <2>2. MoneyStays
    BY <1>0, <1>2, MoneySteps, StakeTaken DEF Decided, Life
  <2>3. QED
    BY <1>0, <1>2, <2>1, <2>2, ChoiceStands DEF ChosenAreNamed, MoneyStays, IsConfession
<1>3. ASSUME NEW b \in Bidders, AnswersStake(b) PROVE ChosenAreNamed'
  <2>1. /\ Decided /\ ~bids[b].settled
        /\ market'.sole_reader = IF IsChosenBid(market, bids[b]) THEN b ELSE market.sole_reader
    BY <1>0, <1>3, StakeAnswered DEF Decided
  <2>2. \A c \in Bidders \ {b} : bids'[c] = bids[c]
    BY <1>0, <1>3, StakeAnswered
  <2>3. ASSUME NEW c \in Bidders, bids'[c].settled, IsChosenBid(market', bids'[c])
        PROVE  market'.sole_reader = c
    <3>1. IsChosenBid(market, bids[c])
      BY <1>0, <2>1, <2>3, ChoiceStands
    <3>2. CASE c = b
      BY <2>1, <3>1, <3>2
    <3>3. CASE c # b
      <4>1. market.sole_reader = c
        BY <2>2, <2>3, <3>1, <3>3 DEF ChosenAreNamed
      <4>2. ~IsChosenBid(market, bids[b])
        BY <1>0, <3>1, <3>3, OneChosen
      <4>3. QED
        BY <2>1, <4>1, <4>2
    <3>4. QED
      BY <3>2, <3>3
  <2>4. QED
    BY <1>0, <2>1, <2>3, ChoiceStands DEF ChosenAreNamed, IsConfession
<1>4. QED
  BY <1>1, <1>2, <1>3

\* Every instruction keeps the author's due.
LEMMA AuthorsDueStep == Invariant /\ ReaderIsChosen /\ AuthorsDue /\ [Next]_vars => AuthorsDue'
<1> SUFFICES ASSUME Invariant, ReaderIsChosen, AuthorsDue, [Next]_vars PROVE AuthorsDue'
  OBVIOUS
<1>0. /\ Life /\ BookOrder /\ LooseTypeOK
      /\ market \in LooseMarketRecord /\ \A c \in Bidders : bids[c] \in LooseBidRecord
      /\ Decided => market.outcome # "Pending"
  <2>1. Life /\ BookOrder /\ LooseTypeOK /\ MarketLife
    BY DEF Invariant, Life
  <2>2. QED
    BY <2>1 DEF LooseTypeOK, MarketLife, Decided
<1>1. CASE ~Decided
  BY <1>1, UndecidedOwes DEF AuthorsDue
<1>2. CASE Decided /\ ~ \E b \in Bidders : AnswersStake(b)
  <2>1. market'.outcome = market.outcome /\ market'.sole_reader = market.sole_reader
    BY <1>0, <1>2, ChoiceStands, ReaderSteps DEF AnswersStake
  <2>2. MoneyStays
    BY <1>0, <1>2, MoneySteps, StakeTaken DEF Decided, Life
  <2>3. market.sole_reader # Nobody => bids'[market.sole_reader].amount = bids[market.sole_reader].amount
    BY <2>2 DEF ReaderIsChosen, IsChosenBid, MoneyStays
  <2>4. QED
    BY <1>0, <1>2, <2>1, <2>2, <2>3 DEF AuthorsDue, MoneyStays
<1>3. ASSUME NEW b \in Bidders, AnswersStake(b) PROVE AuthorsDue'
  <2>1. /\ Decided /\ ~bids[b].settled
        /\ market'.sole_reader = IF IsChosenBid(market, bids[b]) THEN b ELSE market.sole_reader
        /\ market'.author_payout = market.author_payout + Forfeited(market, bids[b])
    BY <1>0, <1>3, StakeAnswered DEF Decided
  <2>2. market'.outcome = market.outcome
    BY <1>0, <2>1, ChoiceStands
  <2>3. \A c \in Bidders : bids'[c].amount = bids[c].amount
    <3>1. bids'[b].amount = bids[b].amount /\ \A c \in Bidders \ {b} : bids'[c] = bids[c]
      BY <1>0, <1>3, StakeAnswered
    <3>2. QED
      BY <3>1
  <2>4. IsChosenBid(market, bids[b]) => market.sole_reader = Nobody
    BY <1>0, <2>1, OneChosen DEF ReaderIsChosen
  <2>5. ASSUME market.outcome = "SoleReader"
        PROVE  market'.author_payout
                 = IF market'.sole_reader = Nobody THEN 0 ELSE bids'[market'.sole_reader].amount
    <3>1. Forfeited(market, bids[b]) = IF IsChosenBid(market, bids[b]) THEN bids[b].amount ELSE 0
      BY <1>0, <2>5, SoleReaderForfeit
    <3>2. market.author_payout
            = IF market.sole_reader = Nobody THEN 0 ELSE bids[market.sole_reader].amount
      BY <2>5 DEF AuthorsDue
    <3>3. market.author_payout \in Nat /\ bids[b].amount \in Nat
      BY <1>0 DEF LooseMarketRecord, LooseBidRecord
    <3>4. CASE IsChosenBid(market, bids[b])
      <4>1. market'.author_payout = bids[b].amount /\ market'.sole_reader = b
        BY <2>1, <2>4, <3>1, <3>2, <3>3, <3>4
      <4>2. QED
        BY <2>3, <4>1, MarketAssumption
    <3>5. CASE ~IsChosenBid(market, bids[b])
      <4>1. market'.author_payout = market.author_payout /\ market'.sole_reader = market.sole_reader
        BY <2>1, <3>1, <3>3, <3>5
      <4>2. market.sole_reader # Nobody => market.sole_reader \in Bidders
        BY DEF ReaderIsChosen
      <4>3. QED
        BY <2>3, <3>2, <4>1, <4>2
    <3>6. QED
      BY <3>4, <3>5
  <2>6. QED
    BY <1>0, <2>1, <2>2, <2>5 DEF AuthorsDue
<1>4. QED
  BY <1>1, <1>2, <1>3

\* A book with a paid Read pot has a reader to draw.
LEMMA ReadPotHasReaders ==
  ASSUME Invariant, Money, market.pot["Read"] > 0
  PROVE  market.read_bid_count > 0
<1>0. /\ market \in LooseMarketRecord /\ bids \in [Bidders -> LooseBidRecord]
      /\ market.read_bid_count \in Nat /\ Life /\ Counting
  BY DEF Invariant, Life, LooseTypeOK, LooseMarketRecord
<1> SUFFICES ASSUME market.read_bid_count = 0 PROVE FALSE
  BY <1>0
<1>1. RankedBids = {}
  BY <1>0, CountBounds, FS_EmptySet DEF Counting
<1>2. \A b \in Bidders : StakesOn(bids, "Read")[b] = 0
  BY <1>1 DEF StakesOn, RankedBids, Ranked, Staked
<1>3. StakesOn(bids, "Read") \in [Bidders -> Int] /\ IsFiniteSet(Bidders) /\ Cardinality(Bidders) \in Nat
  BY <1>2, MarketAssumption, FS_CardinalityType DEF StakesOn
<1>4. SumFunction(StakesOn(bids, "Read")) = 0 * Cardinality(Bidders)
  BY <1>2, <1>3, SumOfSame
<1>5. market.pot["Read"] = 0
  BY <1>3, <1>4 DEF Money, PotsAreStakes, Sides
<1>6. QED
  BY <1>5

\* A closed book whose verdict was a sole reader names one who bid to read and paid.
LEMMA AReaderIsNamed ==
  ASSUME Invariant, Money, BookClosed, VerdictFollowsBook, ChosenAreNamed,
         market.status = "Settled", market.outcome = "SoleReader"
  PROVE  /\ market.sole_reader \in Bidders
         /\ bids[market.sole_reader].side = "Read"
         /\ bids[market.sole_reader].funded
<1>0. /\ BookOrder /\ BidLife /\ market \in LooseMarketRecord
      /\ market.randomness \in Nat /\ market.read_bid_count \in Nat
      /\ market.pot["Seal"] \in Nat /\ market.pot["Read"] \in Nat
  BY DEF Invariant, Life, LooseTypeOK, LooseMarketRecord, Sides
<1>1. IsConfession(market)
  BY DEF ChosenAreNamed, RumorVerdicts
<1>2. market.pot["Read"] > 0
  <2>1. PICK coin \in BOOLEAN : market.outcome = Verdict(market, market.resolved_at, coin)
    BY <1>1 DEF VerdictFollowsBook
  <2>2. QED
    BY <2>1 DEF Verdict, GuiltVerdict, BlackmailVerdict
<1>3. market.read_bid_count > 0
  BY <1>2, ReadPotHasReaders
<1>4. market.randomness % market.read_bid_count \in 0..(market.read_bid_count - 1)
  BY <1>0, <1>3
<1>5. PICK b \in Bidders : Ranked(b) /\ bids[b].read_rank = market.randomness % market.read_bid_count
  BY <1>0, <1>4 DEF BookOrder
<1>6. IsChosenBid(market, bids[b])
  BY <1>3, <1>5 DEF Ranked, IsChosenBid
<1>7. bids[b].settled
  BY <1>0, <1>5 DEF Ranked, BidLife, BookClosed, Placed
<1>8. market.sole_reader = b
  BY <1>6, <1>7 DEF ChosenAreNamed
<1>9. QED
  BY <1>5, <1>8 DEF Ranked

\* A market that ends with a sole reader has named one who bid to read and paid,
\* and owes the author that stake and no other.
THEOREM TheReaderPays == Spec => []SoleReaderPays
<1>1. Init => ReaderIsChosen /\ BookClosed /\ VerdictFollowsBook /\ ChosenAreNamed /\ AuthorsDue
  BY DEF Init, MarketInit, ReaderIsChosen, BookClosed, VerdictFollowsBook, ChosenAreNamed,
         AuthorsDue, NoBid
<1>2. ASSUME Invariant, Money, BookClosed, VerdictFollowsBook, ChosenAreNamed, AuthorsDue
      PROVE  SoleReaderPays
  BY <1>2, AReaderIsNamed, MarketAssumption DEF SoleReaderPays, AuthorsDue
<1>3. QED
  BY <1>1, <1>2, InvariantHolds, StartsFresh, MoneyInit, MoneyStep, ReaderStep, BookClosedStep,
     FollowsStep, NamedStep, AuthorsDueStep, PTL DEF Spec

----------------------------------------------------------------------------
(* The market implements the escrow contract.                              *)

\* A bid is never opened for nothing.
Priced == \A b \in Bidders : Placed(b) => bids[b].amount > 0

\* Only place_bid sets a bid's amount.
LEMMA PricedStep == Life /\ Priced /\ [Next]_vars => Priced'
<1> SUFFICES ASSUME Life, Priced, [Next]_vars PROVE Priced'
  OBVIOUS
<1> USE DEF Life
<1>0. /\ bids \in [Bidders -> LooseBidRecord] /\ \A c \in Bidders : bids[c] \in LooseBidRecord
  BY DEF LooseTypeOK
<1>1. ASSUME NEW b \in Bidders, Placed(b), bids'[b].amount = bids[b].amount,
             \A c \in Bidders \ {b} : bids'[c] = bids[c]
      PROVE  Priced'
  BY <1>1 DEF Priced, Placed
<1>2. ASSUME NEW b \in Bidders, NEW side \in Sides, NEW amount \in Amounts, PlaceBid(b, side, amount)
      PROVE  Priced'
  <2>1. bids'[b] = OpenBid(side, amount) /\ amount > 0
    BY <1>0, <1>2 DEF PlaceBid, RecordBid, CheckBiddable
  <2>2. bids'[b].amount > 0
    BY <2>1 DEF OpenBid, NoBid
  <2>3. \A c \in Bidders \ {b} : bids'[c] = bids[c]
    BY <1>2, PlaceEffect
  <2>4. QED
    BY <2>2, <2>3 DEF Priced, Placed
<1>3. ASSUME NEW b \in Bidders, FundBid(b) PROVE Priced'
  <2>1. Placed(b)
    BY <1>3, FundMarket DEF Placed
  <2>2. QED
    BY <1>1, <1>3, <2>1, FundFields, FundEffect
<1>4. ASSUME NEW b \in Bidders, InitBidPermission(b) PROVE Priced'
  BY <1>0, <1>1, <1>4 DEF InitBidPermission, Placed, LooseBidRecord
<1>5. ASSUME NEW b \in Bidders, AnswersStake(b) PROVE Priced'
  BY <1>1, <1>5, StakeAnswered DEF Placed
<1>6. ASSUME NEW b \in Bidders, CloseBid(b) PROVE Priced'
  <2>1. Placed(b)
    BY <1>6 DEF CloseBid, Closeable, Placed
  <2>2. bids'[b].amount = bids[b].amount
    BY ZenonT(60), <1>0, <1>6, CloseEffect DEF LooseBidRecord
  <2>3. QED
    BY <1>1, <1>6, <2>1, <2>2, CloseEffect
<1>7. CASE (PurseNext /\ UNCHANGED marketVars) \/ Tick \/ VerdictStep \/ CloseBook \/ UNCHANGED vars
  <2>1. bids' = bids
    BY <1>7, VerdictFrame DEF marketVars, vars, Tick, CloseBook
  <2>2. QED
    BY <2>1 DEF Priced, Placed
<1>8. ASSUME NEW b \in Bidders, NEW side \in Sides, NEW amount \in Amounts,
             PlaceAndFund(b, side, amount)
      PROVE  Priced'
  <2>1. amount > 0
    BY <1>8 DEF PlaceAndFund, CheckBiddable
  <2>2. bids'[b].amount = amount /\ \A c \in Bidders \ {b} : bids'[c] = bids[c]
    BY <1>8, PlaceAndFundEffect
  <2>3. QED
    BY <2>1, <2>2 DEF Priced, Placed
<1>9. QED
  BY <1>2, <1>3, <1>4, <1>5, <1>6, <1>7, <1>8 DEF Next, BidStep, SettleStep, AnswersStake

\* A book is closed by close_book alone, after the verdict.
LEMMA ClosedLast ==
  ASSUME Life, [Next]_vars, market.status # "Resolved", market.status # "Settled"
  PROVE  market'.status # "Settled"
<1> USE DEF Life
<1>0. market \in LooseMarketRecord
  BY DEF LooseTypeOK
<1>1. CASE (PurseNext /\ UNCHANGED marketVars) \/ Tick \/ UNCHANGED vars
  BY <1>1 DEF marketVars, vars, Tick
<1>2. ASSUME NEW b \in Bidders, BidStep(b) PROVE market'.status # "Settled"
  <2>1. ASSUME NEW side \in Sides, NEW amount \in Amounts, PlaceBid(b, side, amount)
        PROVE  market'.status = market.status
    BY <1>0, <2>1 DEF PlaceBid, RecordBid, LooseMarketRecord
  <2>2. ASSUME NEW side \in Sides, NEW amount \in Amounts, PlaceAndFund(b, side, amount)
        PROVE  market'.status = "Open"
    BY <2>2, PlaceAndFundMarket
  <2>3. QED
    BY <1>2, <2>1, <2>2, FundMarket DEF BidStep, InitBidPermission
<1>3. CASE VerdictStep
  BY <1>3, VerdictFrame
<1>4. CASE SettleStep
  BY <1>4, SettleMarket, SettleAndCloseMarket, CloseMarket DEF SettleStep
<1>5. QED
  BY <1>1, <1>2, <1>3, <1>4 DEF Next

\* Every instruction is a step of the contract, or leaves all it speaks of alone.
LEMMA ContractStep ==
  ASSUME Invariant, Money, Priced, BookClosed, [Next]_vars
  PROVE  [Contract!Next]_(Contract!contractVars)
<1> DEFINE Stakes(bs) == [b \in Bidders |-> Staked(bs[b])]
           Answers(bs) == [b \in Bidders |-> bs[b].settled]
           Phase(m) == CASE m.status = "Resolved" -> "decided"
                         [] m.status = "Settled" -> "closed"
                         [] OTHER -> "open"
<1>0. /\ Life /\ LooseTypeOK /\ BidLife /\ MarketLife /\ Covered(market, bids)
      /\ bids \in [Bidders -> LooseBidRecord] /\ bids' \in [Bidders -> LooseBidRecord]
      /\ market.escrow_lamports \in Nat /\ market'.escrow_lamports \in Nat
      /\ \A b \in Bidders : bids[b].amount \in Nat /\ bids[b].settled \in BOOLEAN /\ bids[b].funded \in BOOLEAN
  <2>1. Life /\ LooseTypeOK /\ LooseTypeOK' /\ BidLife /\ MarketLife
    BY LooseStep DEF Invariant, Life
  <2>2. QED
    BY <2>1 DEF Money, LooseTypeOK, LooseBidRecord, LooseMarketRecord
<1>1. CASE MoneyStays
  <2>1. Stakes(bids') = Stakes(bids) /\ Answers(bids') = Answers(bids)
    <3>1. \A b \in Bidders : Staked(bids'[b]) = Staked(bids[b]) /\ bids'[b].settled = bids[b].settled
      BY <1>1 DEF MoneyStays, Staked
    <3>2. QED
      BY <3>1, Zenon
  <2>2. market'.escrow_lamports = market.escrow_lamports
    BY <1>1 DEF MoneyStays
  <2>3. CASE Phase(market') = Phase(market)
    BY <2>1, <2>2, <2>3 DEF Contract!contractVars
  <2>4. CASE Phase(market') # Phase(market) /\ ~Decided
    <3>1. Phase(market) = "open"
      BY <2>4 DEF Decided
    <3>2. market'.status # "Settled"
      BY <1>0, <2>4, ClosedLast DEF Decided
    <3>3. Phase(market') = "decided"
      BY <2>4, <3>1, <3>2
    <3> HIDE DEF Phase, Stakes, Answers
    <3>4. Contract!Decide
      BY <2>1, <2>2, <3>1, <3>3 DEF Contract!Decide, Phase, Stakes, Answers
    <3>5. QED
      BY <3>4 DEF Contract!Next
  <2>5. CASE Phase(market') # Phase(market) /\ Decided
    <3>1. market.status = "Resolved" /\ market'.status = "Settled"
      BY <1>0, <2>5, DecidedStep DEF Decided
    <3>2. Phase(market) = "decided" /\ Phase(market') = "closed"
      BY <3>1
    <3>3. ASSUME NEW b \in Bidders, Stakes(bids)[b] > 0 PROVE Answers(bids)[b]
      <4>1. bids[b].funded
        BY <3>3 DEF Staked
      <4>2. BookClosed' /\ BidLife'
        BY <1>0, BookClosedStep, LifeStep DEF Life
      <4>3. bids'[b].funded /\ bids'[b].settled = bids[b].settled
        BY <1>1, <4>1 DEF MoneyStays
      <4>4. bids'[b].settled
        BY <3>1, <4>2, <4>3 DEF BookClosed, BidLife, Placed
      <4>5. QED
        BY <4>3, <4>4
    <3> HIDE DEF Phase, Stakes, Answers
    <3>4. Contract!Close
      BY <2>1, <2>2, <3>2, <3>3 DEF Contract!Close, Phase, Stakes, Answers
    <3>5. QED
      BY <3>4 DEF Contract!Next
  <2>6. QED
    BY <2>3, <2>4, <2>5
<1>2. ASSUME NEW b \in Bidders, TakesStake(b) PROVE Contract!TakeStake(b)
  <2>1. /\ market.status = "Open" /\ market'.status = "Open" /\ ~bids[b].funded
        /\ bids'[b].funded = TRUE /\ bids'[b].settled = bids[b].settled
        /\ \A c \in Bidders \ {b} : bids'[c] = bids[c]
        /\ market'.escrow_lamports = market.escrow_lamports + bids'[b].amount
    BY <1>0, <1>2, StakeTaken
  <2>3. bids'[b].amount > 0
    <3>1. Placed(b)'
      <4>1. BidLife'
        BY <1>0, LifeStep DEF Life
      <4>2. QED
        BY <2>1, <4>1 DEF BidLife, Placed
    <3>2. Priced'
      BY <1>0, PricedStep
    <3>3. QED
      BY <3>1, <3>2 DEF Priced
  <2>2. Phase(market) = "open" /\ Phase(market') = "open"
    BY <2>1
  <2>4. /\ Stakes(bids)[b] = 0 /\ Stakes(bids')[b] = bids'[b].amount
        /\ Stakes(bids') = [Stakes(bids) EXCEPT ![b] = Stakes(bids')[b]]
        /\ Answers(bids') = Answers(bids)
    BY <2>1 DEF Staked
  <2>5. market'.escrow_lamports = market.escrow_lamports + Stakes(bids')[b]
    BY <2>1, <2>4
  <2> HIDE DEF Phase, Stakes, Answers
  <2>6. QED
    BY <2>2, <2>3, <2>4, <2>5 DEF Contract!TakeStake, Phase, Stakes, Answers
<1>3. ASSUME NEW b \in Bidders, AnswersStake(b) PROVE Contract!Answer(b)
  <2>1. /\ market.status = "Resolved" /\ market'.status = "Resolved" /\ ~bids[b].settled
        /\ bids[b].account = "open"
    BY <1>0, <1>3, StakeAnswered
  <2>2. Phase(market) = "decided" /\ Phase(market') = "decided"
    BY <2>1
  <2>3. /\ bids'[b].funded = bids[b].funded /\ bids'[b].amount = bids[b].amount
        /\ bids'[b].settled = TRUE /\ \A c \in Bidders \ {b} : bids'[c] = bids[c]
    BY <1>0, <1>3, StakeAnswered
  <2>4. Stakes(bids') = Stakes(bids) /\ Answers(bids') = [Answers(bids) EXCEPT ![b] = TRUE]
    BY <2>3 DEF Staked
  <2>5. market'.escrow_lamports \in 0..market.escrow_lamports
    <3>1. /\ market'.escrow_lamports = market.escrow_lamports - PayoutOf(market, bids[b])
          /\ PayoutOf(market, bids[b]) \in Nat
      BY <1>0, <1>3, SettleSums, PayoutType DEF LooseTypeOK
    <3>2. QED
      BY <1>0, <3>1
  <2>6. Stakes(bids)[b] = 0 => market'.escrow_lamports = market.escrow_lamports
    <3>1. ASSUME Stakes(bids)[b] = 0 PROVE PayoutOf(market, bids[b]) = 0
      <4>1. ~bids[b].funded
        BY <1>0, <2>1, <3>1 DEF Staked, Priced, Placed
      <4>2. QED
        BY <4>1 DEF PayoutOf
    <3>2. market'.escrow_lamports = market.escrow_lamports - PayoutOf(market, bids[b])
      BY <1>0, <1>3, SettleSums
    <3>3. QED
      BY <1>0, <3>1, <3>2
  <2>7. ~Answers(bids)[b]
    BY <2>1
  <2> HIDE DEF Phase, Stakes, Answers
  <2>8. QED
    BY <2>2, <2>4, <2>5, <2>6, <2>7 DEF Contract!Answer, Phase, Stakes, Answers
<1>4. QED
  BY <1>0, <1>1, <1>2, <1>3, MoneySteps DEF Contract!Next

\* Stakes are taken only before the verdict, each is answered exactly once, after
\* it and out of what is held, and the book closes when all are answered.
THEOREM MarketImplementsContract == Spec => ImplementsContract
<1>1. Init => Contract!Init /\ Priced /\ BookClosed
  <2> SUFFICES ASSUME Init PROVE Contract!Init /\ Priced /\ BookClosed
    OBVIOUS
  <2>1. /\ market.status = "Open" /\ market.escrow_lamports = 0
        /\ \A b \in Bidders : bids[b].funded = FALSE /\ bids[b].settled = FALSE /\ bids[b].account = "none"
    BY DEF Init, MarketInit, NoBid
  <2>2. [b \in Bidders |-> Staked(bids[b])] = [b \in Bidders |-> 0]
    BY <2>1 DEF Staked
  <2>3. [b \in Bidders |-> bids[b].settled] = [b \in Bidders |-> FALSE]
    BY <2>1
  <2>4. Contract!Init
    BY <2>1, <2>2, <2>3 DEF Contract!Init
  <2>5. QED
    BY <2>1, <2>4 DEF Priced, BookClosed, Placed
<1>2. QED
  BY <1>1, InvariantHolds, StartsFresh, MoneyInit, MoneyStep, PricedStep, BookClosedStep, ContractStep, PTL
  DEF Spec, Invariant, ImplementsContract, Contract!Spec
============================================================================
