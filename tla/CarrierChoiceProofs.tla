------------------------ MODULE CarrierChoiceProofs ------------------------
(***************************************************************************)
(* What the operators of CarrierChoice return, proved for any number of    *)
(* channels and warehouses: the sorts order what they are given, and each  *)
(* selection has the reason that the rules state for it.                   *)
(***************************************************************************)
EXTENDS CarrierChoice, FiniteSetTheorems, TLAPS

----------------------------------------------------------------------------
(* Orders *)

(* R is a strict total order on S.                                         *)
IsOrder(R, S) ==
    /\ \A x \in S : <<x, x>> \notin R
    /\ \A x, y, z \in S : <<x, y>> \in R /\ <<y, z>> \in R => <<x, z>> \in R
    /\ \A x, y \in S : x = y \/ <<x, y>> \in R \/ <<y, x>> \in R

(* The elements that come before x.                                        *)
Below(R, S, x) == {y \in S : <<y, x>> \in R}

(* What comes before something is fewer than what comes before anything    *)
(* after it, and fewer than there is.                                      *)
LEMMA BelowGrows ==
    ASSUME NEW S, IsFiniteSet(S), NEW R, IsOrder(R, S), NEW x \in S
    PROVE  /\ Cardinality(Below(R, S, x)) \in 0 .. Cardinality(S) - 1
           /\ \A y \in S : <<y, x>> \in R =>
                  Cardinality(Below(R, S, y)) < Cardinality(Below(R, S, x))
<1>1. \A T \in SUBSET S : IsFiniteSet(T) /\ Cardinality(T) \in Nat
  BY FS_Subset, FS_CardinalityType
<1>2. Below(R, S, x) \in SUBSET S
  BY DEF Below
<1>3. Cardinality(Below(R, S, x)) < Cardinality(S)
  <2>1. Below(R, S, x) # S
    BY DEF Below, IsOrder
  <2>2. Cardinality(Below(R, S, x)) <= Cardinality(S)
    BY <1>2, FS_Subset
  <2>3. Cardinality(Below(R, S, x)) # Cardinality(S)
    BY <1>2, <2>1, FS_Subset
  <2> QED
    BY <1>1, <1>2, <2>2, <2>3
<1>4. ASSUME NEW y \in S, <<y, x>> \in R
      PROVE  Cardinality(Below(R, S, y)) < Cardinality(Below(R, S, x))
  <2>1. Below(R, S, y) \in SUBSET Below(R, S, x)
    BY <1>4 DEF Below, IsOrder
  <2>2. y \in Below(R, S, x) /\ y \notin Below(R, S, y)
    BY <1>4 DEF Below, IsOrder
  <2>3. IsFiniteSet(Below(R, S, x))
    BY <1>1, <1>2
  <2>4. /\ Cardinality(Below(R, S, y)) <= Cardinality(Below(R, S, x))
        /\ Cardinality(Below(R, S, y)) # Cardinality(Below(R, S, x))
    BY <2>1, <2>2, <2>3, FS_Subset
  <2> QED
    BY <1>1, <1>2, <2>1, <2>4
<1> QED
  BY <1>1, <1>2, <1>3, <1>4

(* In a finite set, each number of elements comes before exactly one.      *)
LEMMA EachRankOnce ==
    ASSUME NEW S, IsFiniteSet(S), NEW R, IsOrder(R, S),
           NEW k \in 1 .. Cardinality(S)
    PROVE  \E x \in S : Cardinality(Below(R, S, x)) = k - 1
<1> DEFINE n == Cardinality(S)
           f == [x \in S |-> Cardinality(Below(R, S, x)) + 1]
<1>1. n \in Nat
  BY FS_CardinalityType
<1>2. f \in [S -> 1 .. n]
  BY <1>1, BelowGrows
<1>3. ASSUME NEW x \in S, NEW y \in S, f[x] = f[y] PROVE x = y
  <2>1. Cardinality(Below(R, S, x)) \in Int /\ Cardinality(Below(R, S, y)) \in Int
    BY <1>1, BelowGrows
  <2>2. Cardinality(Below(R, S, x)) = Cardinality(Below(R, S, y))
    BY <1>3, <2>1
  <2>3. <<x, y>> \notin R /\ <<y, x>> \notin R
    BY <2>1, <2>2, BelowGrows
  <2> QED
    BY <2>3 DEF IsOrder
<1>4. f \in Injection(S, 1 .. n)
  BY <1>2, <1>3 DEF Injection, IsInjective
<1>5. IsFiniteSet(1 .. n) /\ Cardinality(1 .. n) = n
  BY <1>1, FS_Interval
<1>6. f \in Surjection(S, 1 .. n)
  BY <1>4, <1>5, FS_Injection
<1>7. PICK x \in S : f[x] = k
  BY <1>6 DEF Surjection
<1>8. Cardinality(Below(R, S, x)) \in Int
  BY <1>1, BelowGrows
<1> QED
  BY <1>7, <1>8

(* f lists S in the order R.                                               *)
Lists(f, S, R) ==
    /\ f \in [1 .. Cardinality(S) -> S]
    /\ \A x \in S : \E k \in 1 .. Cardinality(S) : f[k] = x
    /\ \A j, k \in 1 .. Cardinality(S) : j < k => <<f[j], f[k]>> \in R

(* A function that has, at each place, what as many others come before as  *)
(* places.                                                                 *)
LEMMA RankedIsListed ==
    ASSUME NEW S, IsFiniteSet(S), NEW R, IsOrder(R, S),
           NEW f \in [1 .. Cardinality(S) -> S],
           \A k \in 1 .. Cardinality(S) : Cardinality(Below(R, S, f[k])) = k - 1
    PROVE  Lists(f, S, R)
<1>1. Cardinality(S) \in Nat
  BY FS_CardinalityType
<1>2. ASSUME NEW j \in 1 .. Cardinality(S), NEW k \in 1 .. Cardinality(S), j < k
      PROVE  <<f[j], f[k]>> \in R
  <2>1. f[j] \in S /\ f[k] \in S
    OBVIOUS
  <2>2. Cardinality(Below(R, S, f[j])) = j - 1 /\ Cardinality(Below(R, S, f[k])) = k - 1
    OBVIOUS
  <2>3. <<f[k], f[j]>> \notin R
    <3> SUFFICES ASSUME <<f[k], f[j]>> \in R PROVE FALSE
      OBVIOUS
    <3>1. Cardinality(Below(R, S, f[k])) < Cardinality(Below(R, S, f[j]))
      BY <2>1, BelowGrows
    <3> QED
      BY <1>1, <1>2, <2>2, <3>1
  <2>4. f[j] # f[k]
    BY <1>1, <1>2, <2>2
  <2> QED
    BY <2>1, <2>3, <2>4 DEF IsOrder
<1>3. ASSUME NEW x \in S PROVE \E k \in 1 .. Cardinality(S) : f[k] = x
  <2> DEFINE k == Cardinality(Below(R, S, x)) + 1
  <2>1. k \in 1 .. Cardinality(S)
    BY <1>1, BelowGrows
  <2>2. Cardinality(Below(R, S, f[k])) = Cardinality(Below(R, S, x))
    BY <1>1, <2>1, BelowGrows
  <2>3. f[k] \in S
    BY <2>1
  <2>4. <<f[k], x>> \notin R /\ <<x, f[k]>> \notin R
    <3>1. ~(Cardinality(Below(R, S, x)) < Cardinality(Below(R, S, x)))
      BY <1>1, BelowGrows
    <3> HIDE DEF k
    <3> QED
      BY <2>2, <2>3, <3>1, BelowGrows
  <2>5. f[k] = x
    BY <2>3, <2>4 DEF IsOrder
  <2> QED
    BY <2>1, <2>5
<1> QED
  BY <1>2, <1>3 DEF Lists

(* A finite set that is not empty has a first element.                     *)
LEMMA FirstExists ==
    ASSUME NEW S, IsFiniteSet(S), S # {}, NEW R, IsOrder(R, S)
    PROVE  \E x \in S : \A y \in S : y = x \/ <<x, y>> \in R
<1>1. Cardinality(S) \in Nat /\ Cardinality(S) # 0
  BY FS_CardinalityType, FS_EmptySet
<1>2. PICK x \in S : Cardinality(Below(R, S, x)) = 1 - 1
  BY <1>1, EachRankOnce
<1>3. ASSUME NEW y \in S, <<y, x>> \in R PROVE FALSE
  <2>1. Cardinality(Below(R, S, y)) < 0
    BY <1>2, <1>3, BelowGrows
  <2> QED
    BY <1>1, <2>1, BelowGrows
<1> QED
  BY <1>3 DEF IsOrder

(* Max and Min of a finite set of numbers.                                 *)
LEMMA Extremes ==
    ASSUME NEW S, IsFiniteSet(S), S # {}, S \subseteq Int
    PROVE  /\ Max(S) \in S /\ \A x \in S : Max(S) >= x
           /\ Min(S) \in S /\ \A x \in S : Min(S) <= x
<1> DEFINE Up == {p \in S \X S : p[1] < p[2]}
           Down == {p \in S \X S : p[1] > p[2]}
<1>1. IsOrder(Up, S)
  BY DEF IsOrder
<1>2. IsOrder(Down, S)
  BY DEF IsOrder
<1>3. PICK x \in S : \A y \in S : y = x \/ <<x, y>> \in Up
  <2> HIDE DEF Up
  <2> QED
    BY <1>1, FirstExists
<1>4. PICK z \in S : \A y \in S : y = z \/ <<z, y>> \in Down
  <2> HIDE DEF Down
  <2> QED
    BY <1>2, FirstExists
<1>5. ASSUME NEW y \in S PROVE x <= y /\ z >= y
  <2>1. <<x, y>> \in Up => x < y
    OBVIOUS
  <2>2. <<z, y>> \in Down => z > y
    OBVIOUS
  <2> QED
    BY <1>3, <1>4, <2>1, <2>2
<1> QED
  BY <1>5 DEF Max, Min

Ascending(among) == {p \in among \X among : p[1] < p[2]}

(* Ordered, Only.                                                          *)
LEMMA OnlyKeeps ==
    ASSUME NEW items, NEW among, IsFiniteSet(among), among \subseteq Int
    PROVE  \E f : /\ Lists(f, among, Ascending(among))
                  /\ Only(items, among) =
                         [k \in 1 .. Cardinality(among) |-> items[f[k]]]
<1> DEFINE Up == {p \in among \X among : p[1] < p[2]}
           f == [k \in 1 .. Cardinality(among) |->
                    CHOOSE x \in among : Cardinality({y \in among : y < x}) = k - 1]
<1>1. IsOrder(Up, among)
  BY DEF IsOrder
<1>2. \A x \in among : {y \in among : y < x} = Below(Up, among, x)
  BY DEF Below
<1>3. ASSUME NEW k \in 1 .. Cardinality(among)
      PROVE  f[k] \in among /\ Cardinality(Below(Up, among, f[k])) = k - 1
  <2>1. \E x \in among : Cardinality({y \in among : y < x}) = k - 1
    <3>1. PICK x \in among : Cardinality(Below(Up, among, x)) = k - 1
      <4> HIDE DEF Up
      <4> QED
        BY <1>1, EachRankOnce
    <3> QED
      BY <1>2, <3>1
  <2>2. f[k] = CHOOSE x \in among : Cardinality({y \in among : y < x}) = k - 1
    OBVIOUS
  <2>3. f[k] \in among /\ Cardinality({y \in among : y < f[k]}) = k - 1
    BY <2>1, <2>2
  <2> QED
    BY <1>2, <2>3
<1>4. f \in [1 .. Cardinality(among) -> among]
  BY <1>3
<1>5. Lists(f, among, Up)
  BY <1>1, <1>3, <1>4, RankedIsListed
<1>6. Only(items, among) = [k \in 1 .. Cardinality(among) |-> items[f[k]]]
  BY DEF Only, Ordered
<1>7. Up = Ascending(among)
  BY DEF Ascending
<1> HIDE DEF Up, f
<1> QED
  BY <1>5, <1>6, <1>7

(* W is a strict weak order on S: what it does not tell apart is equal to  *)
(* all others alike.                                                       *)
IsWeakOrder(W, S) ==
    /\ \A x \in S : <<x, x>> \notin W
    /\ \A x, y, z \in S : <<x, y>> \in W /\ <<y, z>> \in W => <<x, z>> \in W
    /\ \A x, y, z \in S : <<x, z>> \in W => <<x, y>> \in W \/ <<y, z>> \in W

(* What a stable sort by W makes of elements that come in the order E.     *)
Stable(W, E, S) ==
    {p \in S \X S : p \in W \/ (<<p[2], p[1]>> \notin W /\ p \in E)}

(* A weak order whose ties are broken by an order is an order.             *)
LEMMA StableIsOrder ==
    ASSUME NEW S, NEW W, IsWeakOrder(W, S), NEW E, IsOrder(E, S)
    PROVE  IsOrder(Stable(W, E, S), S)
<1> DEFINE R == Stable(W, E, S)
<1>1. \A x, y \in S :
         <<x, y>> \in R <=> <<x, y>> \in W \/ (<<y, x>> \notin W /\ <<x, y>> \in E)
  BY DEF Stable
<1> HIDE DEF R
<1>2. \A x \in S : <<x, x>> \notin R
  BY <1>1 DEF IsWeakOrder, IsOrder
<1>3. \A x, y \in S : x = y \/ <<x, y>> \in R \/ <<y, x>> \in R
  BY <1>1 DEF IsOrder
<1>4. ASSUME NEW x \in S, NEW y \in S, NEW z \in S, <<x, y>> \in R, <<y, z>> \in R
      PROVE  <<x, z>> \in R
  <2>1. CASE <<x, y>> \in W /\ <<y, z>> \in W
    BY <1>1, <2>1 DEF IsWeakOrder
  <2>2. CASE <<x, y>> \in W /\ <<z, y>> \notin W
    BY <1>1, <2>2 DEF IsWeakOrder
  <2>3. CASE <<y, x>> \notin W /\ <<y, z>> \in W
    BY <1>1, <2>3 DEF IsWeakOrder
  <2>4. CASE <<y, x>> \notin W /\ <<z, y>> \notin W /\ <<x, y>> \in E /\ <<y, z>> \in E
    <3>1. <<z, x>> \notin W
      BY <2>4 DEF IsWeakOrder
    <3>2. <<x, z>> \in E
      BY <2>4 DEF IsOrder
    <3> QED
      BY <1>1, <3>1, <3>2
  <2> QED
    BY <1>1, <1>4, <2>1, <2>2, <2>3, <2>4
<1> QED
  BY <1>2, <1>3, <1>4, Zenon DEF IsOrder, R

----------------------------------------------------------------------------
(* Candidates and how they are compared *)

IsCandidate(x) ==
    /\ x.channel.amount \in Nat /\ x.channel.id \in Int
    /\ x.rules.tie \in Int /\ x.rules.delta \in Nat
    /\ x.priority \in Int

(* betterChannelCandidate is a strict weak order.                          *)
LEMMA BetterIsWeakOrder ==
    ASSUME NEW x, NEW y, NEW z, IsCandidate(x), IsCandidate(y), IsCandidate(z)
    PROVE  /\ ~Better(x, x)
           /\ Better(x, y) /\ Better(y, z) => Better(x, z)
           /\ Better(x, z) => Better(x, y) \/ Better(y, z)
BY DEF Better, IsCandidate

(* A candidate that is cheaper is better, and what is not better is not    *)
(* cheaper.                                                                *)
LEMMA BetterIsCheaper ==
    ASSUME NEW x, NEW y, IsCandidate(x), IsCandidate(y)
    PROVE  /\ x.channel.amount < y.channel.amount => Better(x, y)
           /\ Better(x, y) => x.channel.amount <= y.channel.amount
BY DEF Better, IsCandidate

(* The priority a candidate is compared with is a number.                  *)
LEMMA EffectivePriorityType ==
    ASSUME NEW x, IsCandidate(x)
    PROVE  EffectivePriority(x) \in Nat
BY DEF EffectivePriority, IsCandidate

(* The order of the premium is one too.                                    *)
LEMMA CheaperIsWeakOrder ==
    ASSUME NEW x, NEW y, NEW z, IsCandidate(x), IsCandidate(y), IsCandidate(z)
    PROVE  /\ ~CheaperThenPriority(x, x)
           /\ CheaperThenPriority(x, y) /\ CheaperThenPriority(y, z)
                => CheaperThenPriority(x, z)
           /\ CheaperThenPriority(x, z)
                => CheaperThenPriority(x, y) \/ CheaperThenPriority(y, z)
BY EffectivePriorityType DEF CheaperThenPriority, Better, IsCandidate

(* That of carrier priorities is one among warehouses that all use them.   *)
LEMMA PreferredIsWeakOrder ==
    ASSUME NEW x, NEW y, NEW z, IsCandidate(x), IsCandidate(y), IsCandidate(z),
           x.rules.mode = WithinDelta, y.rules.mode = WithinDelta,
           z.rules.mode = WithinDelta
    PROVE  /\ ~Preferred(x, x)
           /\ Preferred(x, y) /\ Preferred(y, z) => Preferred(x, z)
           /\ Preferred(x, z) => Preferred(x, y) \/ Preferred(y, z)
BY EffectivePriorityType DEF Preferred, Better, IsCandidate

Sorted(items) == \A i, j \in DOMAIN items : i < j => ~Better(items[j], items[i])

(* sort.SliceStable under Better: all items, the better ones first.        *)
LEMMA ByBetterSorts ==
    ASSUME NEW S, \A x \in S : IsCandidate(x), NEW s \in Seq(S)
    PROVE  /\ ByBetter(s) \in Seq(S) /\ Len(ByBetter(s)) = Len(s)
           /\ Sorted(ByBetter(s))
           /\ \A i \in DOMAIN s : \E k \in DOMAIN ByBetter(s) : ByBetter(s)[k] = s[i]
<1> DEFINE D == DOMAIN s
           W == {p \in D \X D : Better(s[p[1]], s[p[2]])}
           E == {p \in D \X D : p[1] < p[2]}
           R == Stable(W, E, D)
           f == [k \in 1 .. Cardinality(D) |->
                    CHOOSE x \in D : Cardinality({y \in D :
                        \/ Better(s[y], s[x])
                        \/ ~Better(s[x], s[y]) /\ y < x}) = k - 1]
<1>1. Len(s) \in Nat /\ D = 1 .. Len(s) /\ D \subseteq Int
  OBVIOUS
<1>2. IsFiniteSet(D) /\ Cardinality(D) = Len(s)
  BY <1>1, FS_Interval
<1>3. \A i \in D : s[i] \in S /\ IsCandidate(s[i])
  BY <1>1
<1>4. \A i, j \in D : /\ <<i, j>> \in W <=> Better(s[i], s[j])
                      /\ <<i, j>> \in E <=> i < j
  OBVIOUS
<1>5. IsOrder(R, D)
  <2> HIDE DEF D, W, E
  <2>1. IsWeakOrder(W, D)
    BY <1>3, <1>4, BetterIsWeakOrder DEF IsWeakOrder
  <2>2. IsOrder(E, D)
    BY <1>1, <1>4 DEF IsOrder
  <2> QED
    BY <2>1, <2>2, StableIsOrder
<1>6. \A i, j \in D :
         <<i, j>> \in R <=> (Better(s[i], s[j]) \/ (~Better(s[j], s[i]) /\ i < j))
  <2> HIDE DEF D, W, E
  <2> QED
    BY <1>4 DEF Stable
<1>7. ASSUME NEW x \in D
      PROVE  {y \in D : Better(s[y], s[x]) \/ (~Better(s[x], s[y]) /\ y < x)}
                = Below(R, D, x)
  <2> HIDE DEF D, R
  <2> QED
    BY <1>6 DEF Below
<1>8. ASSUME NEW k \in 1 .. Cardinality(D)
      PROVE  f[k] \in D /\ Cardinality(Below(R, D, f[k])) = k - 1
  <2> DEFINE P(x) == Cardinality({y \in D :
                        \/ Better(s[y], s[x])
                        \/ ~Better(s[x], s[y]) /\ y < x}) = k - 1
  <2>1. \E x \in D : P(x)
    <3>1. PICK x \in D : Cardinality(Below(R, D, x)) = k - 1
      <4> HIDE DEF D, R
      <4> QED
        BY <1>2, <1>5, EachRankOnce
    <3>2. P(x)
      BY <1>7, <3>1
    <3> QED
      BY <3>2
  <2>2. f[k] = CHOOSE x \in D : P(x)
    OBVIOUS
  <2>3. f[k] \in D /\ P(f[k])
    <3> HIDE DEF P, f, D
    <3> QED
      BY <2>1, <2>2
  <2> QED
    BY <1>7, <2>3
<1>9. f \in [1 .. Cardinality(D) -> D]
  BY <1>8
<1>10. Lists(f, D, R)
  <2> HIDE DEF D, R, f
  <2> QED
    BY <1>2, <1>5, <1>8, <1>9, RankedIsListed
<1>11. ByBetter(s) = [k \in D |-> s[f[k]]]
  BY DEF ByBetter, Ordered
<1> HIDE DEF f, R
<1>12. \A k \in D : f[k] \in D /\ ByBetter(s)[k] = s[f[k]]
  BY <1>1, <1>2, <1>9, <1>11
<1>13. ByBetter(s) \in Seq(S) /\ Len(ByBetter(s)) = Len(s) /\ DOMAIN ByBetter(s) = D
  BY <1>1, <1>3, <1>11, <1>12
<1>14. Sorted(ByBetter(s))
  <2> SUFFICES ASSUME NEW i \in D, NEW j \in D, i < j
               PROVE  ~Better(s[f[j]], s[f[i]])
    BY <1>12, <1>13 DEF Sorted
  <2>1. f[i] \in D /\ f[j] \in D /\ <<f[i], f[j]>> \in R
    BY <1>1, <1>2, <1>10, <1>12 DEF Lists
  <2>2. Better(s[f[i]], s[f[j]]) \/ ~Better(s[f[j]], s[f[i]])
    BY <1>6, <2>1
  <2> QED
    BY <1>3, <2>1, <2>2, BetterIsWeakOrder
<1>15. ASSUME NEW i \in D PROVE \E k \in D : ByBetter(s)[k] = s[i]
  <2>1. PICK k \in D : f[k] = i
    BY <1>1, <1>2, <1>10 DEF Lists
  <2> QED
    BY <1>12, <2>1
<1> QED
  BY <1>13, <1>14, <1>15

----------------------------------------------------------------------------
(* The selections *)

(* What a selection is made from.                                          *)
IsItems(items, S) ==
    /\ items \in Seq(S) /\ items # << >>
    /\ \A x \in S : IsCandidate(x)
    /\ Sorted(items)

(* A list of candidates is finite, not empty, and has candidates only.     *)
LEMMA ItemsType ==
    ASSUME NEW S, NEW items, IsItems(items, S)
    PROVE  /\ Len(items) \in Nat \ {0} /\ DOMAIN items = 1 .. Len(items)
           /\ IsFiniteSet(DOMAIN items) /\ 1 \in DOMAIN items
           /\ \A i \in DOMAIN items : i \in Nat /\ items[i] \in S /\ IsCandidate(items[i])
           /\ \A i, j \in DOMAIN items : i <= j =>
                 items[i].channel.amount <= items[j].channel.amount
<1>1. Len(items) \in Nat \ {0} /\ DOMAIN items = 1 .. Len(items) /\ 1 \in DOMAIN items
  BY DEF IsItems
<1>2. IsFiniteSet(DOMAIN items)
  BY <1>1, FS_Interval
<1>3. \A i \in DOMAIN items : i \in Nat /\ items[i] \in S /\ IsCandidate(items[i])
  BY <1>1 DEF IsItems
<1>4. ASSUME NEW i \in DOMAIN items, NEW j \in DOMAIN items, i <= j
      PROVE  items[i].channel.amount <= items[j].channel.amount
  <2>1. items[i].channel.amount \in Nat /\ items[j].channel.amount \in Nat
    BY <1>3 DEF IsCandidate
  <2>2. CASE i = j
    BY <2>1, <2>2
  <2>3. CASE i < j
    <3>1. ~Better(items[j], items[i])
      BY <2>3 DEF IsItems, Sorted
    <3> QED
      BY <1>3, <2>1, <3>1, BetterIsCheaper
  <2> QED
    BY <1>3, <1>4, <2>2, <2>3
<1> QED
  BY <1>1, <1>2, <1>3, <1>4

(* An item is within its window above the first one.                       *)
Near(items, i) ==
    items[i].channel.amount <= items[1].channel.amount + Window(items[i])

(* The choice by carrier priority is within its window, and preferred to   *)
(* all that come before it and are within theirs.                          *)
LEMMA NearChoiceIsPreferred ==
    ASSUME NEW S, NEW items, IsItems(items, S)
    PROVE  \E m \in DOMAIN items :
              /\ NearChoice(items) = items[m] /\ Near(items, m)
              /\ \A j \in DOMAIN items :
                    j < m /\ Near(items, j) => Preferred(items[m], items[j])
              /\ \A i \in DOMAIN items :
                    i > m /\ Near(items, i) =>
                        \E j \in DOMAIN items :
                            j < i /\ Near(items, j) /\ ~Preferred(items[i], items[j])
<1> DEFINE near == {i \in DOMAIN items : Near(items, i)}
           M == {i \in near : \A j \in near : j < i => Preferred(items[i], items[j])}
<1>1. NearChoice(items) = items[Max(M)]
  BY DEF NearChoice, Near
<1>2. IsFiniteSet(M) /\ M \subseteq Int
  BY ItemsType, FS_Subset
<1>3. 1 \in M
  <2>1. Window(items[1]) \in Nat /\ items[1].channel.amount \in Nat
    BY ItemsType DEF Window, IsCandidate
  <2>2. 1 \in near
    BY <2>1, ItemsType DEF Near
  <2>3. \A j \in near : ~(j < 1)
    BY ItemsType
  <2> QED
    BY <2>2, <2>3
<1>4. Max(M) \in M /\ \A x \in M : Max(M) >= x
  <2> HIDE DEF M
  <2> QED
    BY <1>2, <1>3, Extremes
<1> DEFINE m == Max(M)
<1>5. m \in DOMAIN items /\ Near(items, m)
  BY <1>4
<1>6. \A j \in DOMAIN items : j < m /\ Near(items, j) => Preferred(items[m], items[j])
  BY <1>4
<1>7. ASSUME NEW i \in DOMAIN items, i > m, Near(items, i)
      PROVE  \E j \in DOMAIN items :
                j < i /\ Near(items, j) /\ ~Preferred(items[i], items[j])
  <2>1. i \notin M
    BY <1>2, <1>4, <1>7, ItemsType
  <2> QED
    BY <1>7, <2>1
<1> HIDE DEF m
<1> QED
  BY <1>1, <1>5, <1>6, <1>7 DEF m

(* The cheapest of some items is one of them and no dearer than any.       *)
LEMMA CheapestIsLeast ==
    ASSUME NEW S, NEW items, IsItems(items, S),
           NEW among, among \subseteq DOMAIN items, among # {}
    PROVE  \E m \in among :
              /\ Cheapest(items, among) = items[m]
              /\ \A j \in among : items[m].channel.amount <= items[j].channel.amount
<1> DEFINE W == {p \in among \X among : CheaperThenPriority(items[p[1]], items[p[2]])}
           E == {p \in among \X among : p[1] < p[2]}
           R == Stable(W, E, among)
           First(i) == \A j \in among :
              \/ CheaperThenPriority(items[i], items[j])
              \/ ~CheaperThenPriority(items[j], items[i]) /\ i <= j
<1>1. /\ IsFiniteSet(among) /\ among \subseteq Nat
      /\ \A i \in among : IsCandidate(items[i])
  BY ItemsType, FS_Subset
<1>2. \A i, j \in among :
         /\ <<i, j>> \in W <=> CheaperThenPriority(items[i], items[j])
         /\ <<i, j>> \in E <=> i < j
  OBVIOUS
<1>3. IsOrder(R, among)
  <2> HIDE DEF W, E
  <2>1. IsWeakOrder(W, among)
    BY <1>1, <1>2, CheaperIsWeakOrder DEF IsWeakOrder
  <2>2. IsOrder(E, among)
    BY <1>1, <1>2 DEF IsOrder
  <2> QED
    BY <2>1, <2>2, StableIsOrder
<1>4. PICK x \in among : \A y \in among : y = x \/ <<x, y>> \in R
  <2> HIDE DEF R
  <2> QED
    BY <1>1, <1>3, FirstExists
<1>5. First(x)
  <2> SUFFICES ASSUME NEW j \in among
               PROVE  \/ CheaperThenPriority(items[x], items[j])
                      \/ ~CheaperThenPriority(items[j], items[x]) /\ x <= j
    OBVIOUS
  <2>1. CASE j = x
    BY <1>1, <2>1, CheaperIsWeakOrder
  <2>2. CASE <<x, j>> \in R
    <3>1. <<x, j>> \in W \/ (<<j, x>> \notin W /\ <<x, j>> \in E)
      <4> HIDE DEF W, E
      <4> QED
        BY <2>2 DEF Stable
    <3> HIDE DEF W, E
    <3> QED
      BY <1>1, <1>2, <3>1
  <2> QED
    BY <1>4, <2>1, <2>2
<1> DEFINE m == CHOOSE i \in among : First(i)
<1>6. m \in among /\ First(m)
  <2> HIDE DEF First
  <2> QED
    BY <1>5
<1>7. Cheapest(items, among) = items[m]
  BY DEF Cheapest
<1>8. ASSUME NEW j \in among PROVE items[m].channel.amount <= items[j].channel.amount
  <2>1. \/ CheaperThenPriority(items[m], items[j])
        \/ ~CheaperThenPriority(items[j], items[m])
    BY <1>6
  <2>2. IsCandidate(items[m]) /\ IsCandidate(items[j])
    BY <1>1, <1>6
  <2> HIDE DEF m
  <2> QED
    BY <2>1, <2>2 DEF CheaperThenPriority, IsCandidate
<1> HIDE DEF m
<1> QED
  BY <1>6, <1>7, <1>8

(* The image of a finite set.                                              *)
LEMMA ImageIsFinite ==
    ASSUME NEW S, IsFiniteSet(S), NEW f
    PROVE  /\ IsFiniteSet({f[x] : x \in S})
           /\ Cardinality({f[x] : x \in S}) <= Cardinality(S)
<1> DEFINE T == {f[x] : x \in S}
           g == [x \in S |-> f[x]]
<1>1. g \in Surjection(S, T)
  BY DEF Surjection
<1> HIDE DEF g, T
<1>2. IsFiniteSet(T) /\ Cardinality(T) <= Cardinality(S)
  BY <1>1, FS_Surjection
<1> QED
  BY <1>2 DEF T

(* What is chosen is one of the candidates, and the channel that was asked *)
(* for; nothing is chosen among different currencies.                      *)
LEMMA SelectedIsItem ==
    ASSUME NEW S, NEW items, items = << >> \/ IsItems(items, S), NEW preferred,
           SelectAutomaticChannel(items, preferred) # NoChoice
    PROVE  /\ IsItems(items, S)
           /\ Cardinality(Currencies(items)) <= 1
           /\ \E m \in DOMAIN items :
                 /\ SelectAutomaticChannel(items, preferred) = items[m]
                 /\ preferred # 0 => items[m].channel.id = preferred
<1> DEFINE manual == {i \in DOMAIN items : items[i].channel.id = preferred}
<1>1. IsItems(items, S) /\ ~(Cardinality(Currencies(items)) > 1)
  BY DEF SelectAutomaticChannel
<1>2. IsFiniteSet(DOMAIN items)
  BY <1>1, ItemsType
<1>3. Cardinality(Currencies(items)) \in Nat
  <2> DEFINE f == [i \in DOMAIN items |-> items[i].channel.currency]
             T == {f[i] : i \in DOMAIN items}
  <2>1. IsFiniteSet(T)
    <3> HIDE DEF f
    <3> QED
      BY <1>2, ImageIsFinite
  <2>2. Currencies(items) \in SUBSET T
    BY DEF Currencies
  <2>3. IsFiniteSet(Currencies(items))
    <3> HIDE DEF T
    <3> QED
      BY <2>1, <2>2, FS_Subset
  <2> QED
    BY <2>3, FS_CardinalityType
<1>4. items # << >>
  BY <1>1 DEF IsItems
<1>5. CASE preferred = 0
  <2>1. SelectAutomaticChannel(items, preferred) = AutomaticChoice(items)
    BY <1>1, <1>4, <1>5 DEF SelectAutomaticChannel
  <2>2. CASE items[1].rules.mode # Gofo
    <3>1. AutomaticChoice(items) = NearChoice(items)
      BY <2>2 DEF AutomaticChoice
    <3> QED
      BY <1>1, <1>3, <1>5, <2>1, <3>1, NearChoiceIsPreferred
  <2>3. CASE items[1].rules.mode = Gofo
    <3>1. AutomaticChoice(items) = GOFOPremium(items) /\ GOFOPremium(items) # NoChoice
      BY <2>1, <2>3 DEF AutomaticChoice
    <3> DEFINE gofo == Of(items, {"GOFO"})
    <3>2. \/ gofo # {} /\ GOFOPremium(items) = Cheapest(items, gofo)
          \/ GOFOPremium(items) = Cheapest(items, DOMAIN items)
      <4> HIDE DEF gofo
      <4> QED
        BY <3>1, Zenon DEF GOFOPremium, gofo
    <3>3. gofo \subseteq DOMAIN items /\ DOMAIN items # {}
      BY <1>1, ItemsType DEF Of
    <3>4. gofo # {} => \E m \in DOMAIN items : Cheapest(items, gofo) = items[m]
      <4> HIDE DEF gofo
      <4> QED
        BY <1>1, <3>3, CheapestIsLeast
    <3>5. \E m \in DOMAIN items : Cheapest(items, DOMAIN items) = items[m]
      BY <1>1, <3>3, CheapestIsLeast
    <3> QED
      BY <1>1, <1>3, <1>5, <2>1, <3>1, <3>2, <3>4, <3>5
  <2> QED
    BY <2>2, <2>3
<1>6. CASE preferred # 0
  <2>1. manual # {} /\ SelectAutomaticChannel(items, preferred) = items[Min(manual)]
    BY <1>1, <1>4, <1>6 DEF SelectAutomaticChannel
  <2>2. IsFiniteSet(manual) /\ manual \subseteq Int
    BY <1>1, ItemsType, FS_Subset
  <2>3. Min(manual) \in manual
    <3> HIDE DEF manual
    <3> QED
      BY <2>1, <2>2, Extremes
  <2> QED
    <3>1. Min(manual) \in DOMAIN items /\ items[Min(manual)].channel.id = preferred
      BY <2>3
    <3> HIDE DEF manual
    <3> QED
      BY <1>1, <1>3, <2>1, <3>1
<1> QED
  BY <1>5, <1>6

(* What the rules say for an automatic choice among the candidates C: it   *)
(* is the cheapest; or it is within its price window, and so is no cheaper *)
(* one that is not of a carrier that comes later; or it is GOFO at most    *)
(* the premium above all its rivals.                                       *)
Within(x, C) == \A y \in C : x.channel.amount <= y.channel.amount + Window(x)

Justified(chosen, C) ==
    LET cheaper == {x \in C : x.channel.amount < chosen.channel.amount}
        rivals == {x \in C : x.channel.carrier \in {"SWIFTX", "SPEEDX"}}
    IN  \/ cheaper = {}
        \/ /\ chosen.rules.mode = WithinDelta /\ Within(chosen, C)
           /\ \A x \in cheaper : Within(x, C) =>
                 /\ x.rules.mode = WithinDelta
                 /\ EffectivePriority(x) >= EffectivePriority(chosen)
        \/ /\ chosen.rules.mode = Gofo /\ chosen.channel.carrier = "GOFO"
           /\ rivals # {}
           /\ \A x \in rivals :
                 chosen.channel.amount <= x.channel.amount + chosen.rules.delta

(* The choice by carrier priority is justified.                            *)
LEMMA NearChoiceIsJustified ==
    ASSUME NEW items, IsItems(items, {items[i] : i \in DOMAIN items})
    PROVE  Justified(NearChoice(items), {items[i] : i \in DOMAIN items})
<1> DEFINE C == {items[i] : i \in DOMAIN items}
<1>1. /\ DOMAIN items = 1 .. Len(items) /\ Len(items) \in Nat \ {0}
      /\ \A i \in DOMAIN items : i \in Nat /\ IsCandidate(items[i])
      /\ \A i, j \in DOMAIN items : i <= j =>
            items[i].channel.amount <= items[j].channel.amount
  BY ItemsType
<1>2. PICK m \in DOMAIN items :
         /\ NearChoice(items) = items[m] /\ Near(items, m)
         /\ \A j \in DOMAIN items :
               j < m /\ Near(items, j) => Preferred(items[m], items[j])
  BY NearChoiceIsPreferred
<1>3. \A i \in DOMAIN items : /\ Window(items[i]) \in Nat
                              /\ items[i].channel.amount \in Nat
                              /\ EffectivePriority(items[i]) \in Nat
  BY <1>1, EffectivePriorityType DEF Window, IsCandidate
<1>4. \A j \in DOMAIN items : j < m => ~Better(items[m], items[j])
  BY DEF IsItems, Sorted
<1>5. Near(items, 1) /\ 1 \in DOMAIN items
  BY <1>1, <1>3 DEF Near
<1>6. CASE m = 1
  <2>1. {x \in C : x.channel.amount < items[m].channel.amount} = {}
    BY <1>1, <1>3, <1>6
  <2> QED
    BY <1>2, <2>1 DEF Justified
<1>7. CASE m # 1
  <2>1. Preferred(items[m], items[1])
    BY <1>1, <1>2, <1>5, <1>7
  <2>2. items[m].rules.mode = WithinDelta
    BY <1>1, <1>4, <1>5, <1>7, <2>1 DEF Preferred
  <2>3. Within(items[m], C)
    <3> SUFFICES ASSUME NEW i \in DOMAIN items
                 PROVE  items[m].channel.amount <= items[i].channel.amount + Window(items[m])
      BY DEF Within
    <3>1. items[1].channel.amount <= items[i].channel.amount
      BY <1>1, <1>5
    <3> QED
      BY <1>2, <1>3, <1>5, <3>1 DEF Near
  <2>4. ASSUME NEW x \in C, x.channel.amount < items[m].channel.amount, Within(x, C)
        PROVE  x.rules.mode = WithinDelta /\ EffectivePriority(x) >= EffectivePriority(items[m])
    <3>1. PICK j \in DOMAIN items : x = items[j]
      OBVIOUS
    <3>2. j < m
      BY <1>1, <1>3, <2>4, <3>1
    <3>3. Near(items, j)
      <4>1. items[1] \in C
        BY <1>5
      <4> QED
        BY <2>4, <3>1, <4>1 DEF Within, Near
    <3>4. Preferred(items[m], items[j]) /\ ~Better(items[m], items[j])
      BY <1>2, <1>4, <3>2, <3>3
    <3> QED
      BY <1>3, <3>1, <3>4 DEF Preferred
  <2> HIDE DEF C
  <2> QED
    BY <1>2, <2>2, <2>3, <2>4 DEF Justified, C
<1> QED
  BY <1>6, <1>7

(* The choice by the GOFO premium is justified.                            *)
LEMMA GOFOPremiumIsJustified ==
    ASSUME NEW items, IsItems(items, {items[i] : i \in DOMAIN items}),
           \A i \in DOMAIN items : items[i].rules.mode = Gofo,
           GOFOPremium(items) # NoChoice
    PROVE  Justified(GOFOPremium(items), {items[i] : i \in DOMAIN items})
<1> DEFINE C == {items[i] : i \in DOMAIN items}
           gofo == Of(items, {"GOFO"})
           rival == Of(items, {"SWIFTX", "SPEEDX"})
           all == DOMAIN items
<1>1. /\ \A i \in DOMAIN items : IsCandidate(items[i])
      /\ DOMAIN items # {}
  BY ItemsType
<1>2. gofo \subseteq DOMAIN items /\ rival \subseteq DOMAIN items
  BY DEF Of
<1>3. \/ GOFOPremium(items) = Cheapest(items, all)
      \/ /\ gofo # {} /\ rival # {} /\ GOFOPremium(items) = Cheapest(items, gofo)
         /\ Cheapest(items, gofo).channel.amount
              <= Cheapest(items, rival).channel.amount + Cheapest(items, gofo).rules.delta
  <2> HIDE DEF gofo, rival
  <2> QED
    BY Zenon DEF GOFOPremium, gofo, rival
<1>4. CASE GOFOPremium(items) = Cheapest(items, all)
  <2>1. PICK m \in all : /\ Cheapest(items, all) = items[m]
                         /\ \A j \in all : items[m].channel.amount <= items[j].channel.amount
    BY <1>1, CheapestIsLeast
  <2>2. {x \in C : x.channel.amount < items[m].channel.amount} = {}
    <3>1. \A i \in DOMAIN items : items[i].channel.amount \in Nat
      BY <1>1 DEF IsCandidate
    <3> QED
      BY <2>1, <3>1
  <2> QED
    BY <1>4, <2>1, <2>2 DEF Justified
<1>5. CASE /\ gofo # {} /\ rival # {} /\ GOFOPremium(items) = Cheapest(items, gofo)
           /\ Cheapest(items, gofo).channel.amount
                <= Cheapest(items, rival).channel.amount + Cheapest(items, gofo).rules.delta
  <2>1. PICK m \in gofo : Cheapest(items, gofo) = items[m]
    <3> HIDE DEF gofo
    <3> QED
      BY <1>2, <1>5, CheapestIsLeast
  <2>2. PICK r \in rival : /\ Cheapest(items, rival) = items[r]
                           /\ \A j \in rival : items[r].channel.amount <= items[j].channel.amount
    <3> HIDE DEF rival
    <3> QED
      BY <1>2, <1>5, CheapestIsLeast
  <2>3. items[m].rules.mode = Gofo /\ items[m].channel.carrier = "GOFO"
    BY <1>2 DEF Of
  <2>4. {x \in C : x.channel.carrier \in {"SWIFTX", "SPEEDX"}} # {}
    BY <1>2, <2>2 DEF Of
  <2>5. ASSUME NEW x \in C, x.channel.carrier \in {"SWIFTX", "SPEEDX"}
        PROVE  items[m].channel.amount <= x.channel.amount + items[m].rules.delta
    <3>1. PICK j \in DOMAIN items : x = items[j]
      OBVIOUS
    <3>2. j \in rival
      BY <2>5, <3>1 DEF Of
    <3>3. items[r].channel.amount <= items[j].channel.amount
      BY <2>2, <3>2
    <3>4. items[m].channel.amount <= items[r].channel.amount + items[m].rules.delta
      BY <1>5, <2>1, <2>2
    <3>5. /\ items[m].channel.amount \in Nat /\ items[m].rules.delta \in Nat
          /\ items[r].channel.amount \in Nat /\ items[j].channel.amount \in Nat
      BY <1>1, <1>2 DEF IsCandidate
    <3> QED
      BY <3>1, <3>3, <3>4, <3>5
  <2> HIDE DEF C
  <2> QED
    BY <1>5, <2>1, <2>3, <2>4, <2>5 DEF Justified, C
<1> QED
  BY <1>3, <1>4, <1>5

(* Whatever is chosen automatically is justified by the rules of its       *)
(* warehouse.                                                              *)
THEOREM ChoiceIsJustified ==
    ASSUME NEW items, IsItems(items, {items[i] : i \in DOMAIN items}),
           SelectAutomaticChannel(items, 0) # NoChoice
    PROVE  Justified(SelectAutomaticChannel(items, 0), {items[i] : i \in DOMAIN items})
<1>1. /\ SelectAutomaticChannel(items, 0) = AutomaticChoice(items)
      /\ AutomaticChoice(items) # NoChoice
  BY DEF SelectAutomaticChannel, IsItems
<1>2. CASE items[1].rules.mode # Gofo
  BY <1>1, <1>2, NearChoiceIsJustified DEF AutomaticChoice
<1>3. CASE items[1].rules.mode = Gofo
  BY <1>1, <1>3, GOFOPremiumIsJustified DEF AutomaticChoice
<1> QED
  BY <1>2, <1>3

(* What is stored of a choice is what the store insists on.                *)
THEOREM ChoiceIsRecordable ==
    ASSUME NEW S, NEW items, IsItems(items, S), NEW m \in DOMAIN items,
           \A x \in S : x.channel.id # 0, NEW manual \in BOOLEAN
    PROVE  Recordable(PurchaseChoice(items, items[m], manual))
<1> DEFINE n == IF Len(items) > 3 THEN 3 ELSE Len(items)
           top == SubSeq(items, 1, n)
           ranks == {i \in DOMAIN top : SameChannel(top[i], items[m])}
           choice == PurchaseChoice(items, items[m], manual)
<1>1. /\ Len(items) \in Nat \ {0} /\ DOMAIN items = 1 .. Len(items)
      /\ \A i \in DOMAIN items : /\ items[i].channel.id # 0
                                 /\ items[i].channel.amount \in Nat
  BY ItemsType DEF IsCandidate
<1>2. n \in 1 .. 3 /\ n <= Len(items)
  BY <1>1
<1>3. /\ Len(top) = n /\ DOMAIN top = 1 .. n
      /\ \A i \in 1 .. n : i \in DOMAIN items /\ top[i] = items[i]
  <2> HIDE DEF n
  <2> QED
    BY <1>1, <1>2 DEF IsItems
<1> HIDE DEF top, n
<1>4. ranks # {} => Max(ranks) \in ranks
  <2>1. IsFiniteSet(ranks) /\ ranks \subseteq Int
    BY <1>2, <1>3, FS_Interval, FS_Subset
  <2> HIDE DEF ranks
  <2> QED
    BY <2>1, Extremes
<1>5. /\ choice.source = (IF manual THEN "manual" ELSE "automatic")
      /\ choice.selected = items[m] /\ choice.top = top
      /\ choice.rank = (IF ranks = {} THEN 0 ELSE Max(ranks))
  BY DEF PurchaseChoice, top, n
<1> HIDE DEF choice
<1>6. choice.rank > 0 =>
         choice.rank \in DOMAIN top /\ SameChannel(items[m], top[choice.rank])
  <2>1. CASE ranks = {}
    BY <1>5, <2>1
  <2>2. CASE ranks # {}
    BY <1>4, <1>5, <2>2 DEF SameChannel
  <2> QED
    BY <2>1, <2>2
<1> QED
  BY <1>1, <1>2, <1>3, <1>5, <1>6 DEF Recordable, choice

----------------------------------------------------------------------------
(* The options of a substitution *)

RangeOf(s) == {s[k] : k \in DOMAIN s}

(* Only keeps the items at the given indices, and their order.             *)
LEMMA OnlyOfItems ==
    ASSUME NEW S, NEW items, IsItems(items, S),
           NEW among, among \subseteq DOMAIN items
    PROVE  /\ Only(items, among) \in Seq(S)
           /\ RangeOf(Only(items, among)) = {items[i] : i \in among}
           /\ among # {} => IsItems(Only(items, among), S)
<1> DEFINE n == Cardinality(among)
           Up == Ascending(among)
<1>1. IsFiniteSet(among) /\ among \subseteq Int
  BY ItemsType, FS_Subset
<1>2. PICK f : /\ Lists(f, among, Up)
               /\ Only(items, among) = [k \in 1 .. n |-> items[f[k]]]
  BY <1>1, OnlyKeeps
<1>3. n \in Nat
  BY <1>1, FS_CardinalityType
<1>4. /\ f \in [1 .. n -> among]
      /\ \A x \in among : \E k \in 1 .. n : f[k] = x
      /\ \A j, k \in 1 .. n : j < k => f[j] < f[k]
  <2>1. \A j, k \in 1 .. n : j < k => <<f[j], f[k]>> \in Up
    BY <1>2, Zenon DEF Lists
  <2>2. f \in [1 .. n -> among] /\ \A x \in among : \E k \in 1 .. n : f[k] = x
    <3> HIDE DEF Up
    <3> QED
      BY <1>2, Zenon DEF Lists
  <2>3. \A j, k \in 1 .. n : j < k => f[j] < f[k]
    <3>1. \A j, k \in 1 .. n : <<f[j], f[k]>> \in Up => f[j] < f[k]
      BY DEF Ascending
    <3> QED
      BY <2>1, <3>1
  <2> QED
    BY <2>2, <2>3
<1> HIDE DEF n, Up
<1>5. \A k \in 1 .. n : f[k] \in among /\ items[f[k]] \in S
  BY <1>4, ItemsType
<1>6. Only(items, among) \in Seq(S) /\ DOMAIN Only(items, among) = 1 .. n
  BY <1>2, <1>3, <1>5
<1>7. RangeOf(Only(items, among)) = {items[i] : i \in among}
  BY <1>2, <1>4, <1>5, <1>6 DEF RangeOf
<1>8. ASSUME among # {} PROVE IsItems(Only(items, among), S)
  <2>1. Only(items, among) # << >>
    <3>1. PICK k \in 1 .. n : TRUE
      BY <1>4, <1>8
    <3>2. Len(Only(items, among)) = n /\ n >= 1
      BY <1>3, <1>6, <3>1
    <3>3. Len(<< >>) = 0
      OBVIOUS
    <3> QED
      BY <1>3, <3>2, <3>3
  <2>2. Sorted(Only(items, among))
    <3> SUFFICES ASSUME NEW j \in 1 .. n, NEW k \in 1 .. n, j < k
                 PROVE  ~Better(items[f[k]], items[f[j]])
      BY <1>2, <1>6 DEF Sorted
    <3> QED
      BY <1>4, <1>5 DEF IsItems, Sorted
  <2> QED
    BY <1>6, <2>1, <2>2 DEF IsItems
<1> QED
  BY <1>6, <1>7, <1>8

(* SetToSeq lists a finite set.                                            *)
LEMMA SetIsListed ==
    ASSUME NEW T, IsFiniteSet(T)
    PROVE  SetToSeq(T) \in Seq(T) /\ RangeOf(SetToSeq(T)) = T
<1> DEFINE n == Cardinality(T)
<1>1. n \in Nat /\ ExistsBijection(1 .. n, T)
  BY FS_CardinalityType
<1>2. \E f \in [1 .. n -> T] : IsInjective(f)
  BY <1>1 DEF ExistsBijection, Bijection, Injection
<1> DEFINE g == SetToSeq(T)
<1>3. g \in [1 .. n -> T] /\ IsInjective(g)
  BY <1>2 DEF SetToSeq
<1>4. g \in Injection(1 .. n, T)
  BY <1>3 DEF Injection
<1>5. g \in Surjection(1 .. n, T)
  <2>1. IsFiniteSet(1 .. n) /\ Cardinality(1 .. n) = n
    BY <1>1, FS_Interval
  <2> HIDE DEF g
  <2> QED
    BY <1>4, <2>1, FS_Injection
<1> HIDE DEF g
<1>6. g \in Seq(T) /\ DOMAIN g = 1 .. n
  BY <1>1, <1>3
<1>7. RangeOf(g) = T
  BY <1>3, <1>5, <1>6 DEF RangeOf, Surjection
<1> QED
  BY <1>6, <1>7 DEF g

(* The items of one warehouse.                                             *)
OfWarehouse(items, key) == {i \in DOMAIN items : items[i].warehouse = key}

(* ChosenAt: items, of each warehouse at most one.                         *)
LEMMA ChosenAtItems ==
    ASSUME NEW S, NEW items, IsItems(items, S)
    PROVE  /\ ChosenAt(items) \subseteq RangeOf(items)
           /\ IsFiniteSet(ChosenAt(items))
           /\ \A c \in ChosenAt(items) : \E key :
                 /\ c.warehouse = key
                 /\ c = SelectAutomaticChannel(Only(items, OfWarehouse(items, key)), 0)
           /\ \A i \in DOMAIN items :
                 LET c == SelectAutomaticChannel(
                              Only(items, OfWarehouse(items, items[i].warehouse)), 0)
                 IN  c # NoChoice => c \in ChosenAt(items)
<1> DEFINE part(i) == Only(items, OfWarehouse(items, items[i].warehouse))
           all == [i \in DOMAIN items |-> SelectAutomaticChannel(part(i), 0)]
<1>1. ChosenAt(items) = {all[i] : i \in DOMAIN items} \ {NoChoice}
  <2>1. ChosenAt(items) =
           {SelectAutomaticChannel(p, 0) : p \in {part(i) : i \in DOMAIN items}} \ {NoChoice}
    BY DEF ChosenAt, OfWarehouse, IsItems
  <2>2. {SelectAutomaticChannel(p, 0) : p \in {part(i) : i \in DOMAIN items}}
           = {all[i] : i \in DOMAIN items}
    <3> HIDE DEF part
    <3> QED
      OBVIOUS
  <2> QED
    BY <2>1, <2>2
<1>2. \A i \in DOMAIN items : all[i] = SelectAutomaticChannel(part(i), 0)
  OBVIOUS
<1>3. IsFiniteSet(ChosenAt(items))
  <2>1. IsFiniteSet({all[i] : i \in DOMAIN items})
    <3> HIDE DEF all
    <3> QED
      BY ItemsType, ImageIsFinite
  <2> HIDE DEF all
  <2> QED
    BY <1>1, <2>1, FS_Subset
<1>4. ASSUME NEW i \in DOMAIN items, all[i] # NoChoice
      PROVE  /\ all[i] \in RangeOf(items)
             /\ all[i].warehouse = items[i].warehouse
  <2> DEFINE among == OfWarehouse(items, items[i].warehouse)
  <2>1. among \subseteq DOMAIN items /\ among # {}
    BY DEF OfWarehouse
  <2>2. IsItems(part(i), S) /\ RangeOf(part(i)) = {items[j] : j \in among}
    <3> HIDE DEF among
    <3>1. part(i) = Only(items, among)
      BY DEF among
    <3> HIDE DEF part
    <3> QED
      BY <2>1, <3>1, OnlyOfItems
  <2>3. PICK m \in DOMAIN part(i) : all[i] = part(i)[m]
    <3> HIDE DEF part, all
    <3> QED
      BY <1>2, <1>4, <2>2, SelectedIsItem
  <2>4. all[i] \in {items[j] : j \in among}
    <3> HIDE DEF part, all, among
    <3> QED
      BY <2>2, <2>3 DEF RangeOf
  <2>5. PICK j \in among : all[i] = items[j]
    <3> HIDE DEF all
    <3> QED
      BY <2>4
  <2>6. j \in DOMAIN items /\ items[j].warehouse = items[i].warehouse
    BY DEF OfWarehouse
  <2> HIDE DEF all
  <2> QED
    BY <2>5, <2>6 DEF RangeOf
<1>5. \A c \in ChosenAt(items) : \E i \in DOMAIN items : c = all[i] /\ all[i] # NoChoice
  <2> HIDE DEF all
  <2> QED
    BY <1>1
<1>6. \A i \in DOMAIN items : all[i] # NoChoice => all[i] \in ChosenAt(items)
  <2> HIDE DEF all
  <2> QED
    BY <1>1
<1> HIDE DEF all
<1>7. ChosenAt(items) \subseteq RangeOf(items)
  BY <1>4, <1>5
<1>8. ASSUME NEW c \in ChosenAt(items)
      PROVE  \E key : /\ c.warehouse = key
                      /\ c = SelectAutomaticChannel(Only(items, OfWarehouse(items, key)), 0)
  <2>1. PICK i \in DOMAIN items : c = all[i] /\ all[i] # NoChoice
    BY <1>5
  <2>2. c.warehouse = items[i].warehouse /\ c = SelectAutomaticChannel(part(i), 0)
    BY <1>2, <1>4, <2>1
  <2> QED
    BY <2>2
<1>9. \A i \in DOMAIN items :
         LET c == SelectAutomaticChannel(
                      Only(items, OfWarehouse(items, items[i].warehouse)), 0)
         IN  c # NoChoice => c \in ChosenAt(items)
  BY <1>2, <1>6
<1> QED
  BY <1>3, <1>7, <1>8, <1>9

(* The choices of the warehouses, in the order of ByBetter.                *)
BetterFirst(items) == ByBetter(SetToSeq(ChosenAt(items)))

(* The ranking of the options lists the channels that were chosen per      *)
(* warehouse.                                                              *)
LEMMA ChoicesAreItems ==
    ASSUME NEW S, NEW items, items = << >> \/ IsItems(items, S)
    PROVE  /\ BetterFirst(items) \in Seq(S)
           /\ RangeOf(BetterFirst(items)) = ChosenAt(items)
           /\ BetterFirst(items) # << >> => IsItems(items, S) /\ IsItems(BetterFirst(items), S)
           /\ ChosenAt(items) \subseteq RangeOf(items)
<1> DEFINE T == ChosenAt(items)
           s == SetToSeq(T)
           t == ByBetter(s)
<1>1. IsFiniteSet(T) /\ T \subseteq RangeOf(items)
  <2>1. CASE items = << >>
    BY <2>1, FS_EmptySet DEF ChosenAt
  <2>2. CASE IsItems(items, S)
    BY <2>2, ChosenAtItems
  <2> QED
    BY <2>1, <2>2
<1>2. s \in Seq(T) /\ RangeOf(s) = T
  BY <1>1, SetIsListed
<1>3. \A x \in T : x \in S /\ IsCandidate(x)
  <2>1. CASE items = << >>
    BY <2>1 DEF ChosenAt
  <2>2. CASE IsItems(items, S)
    BY <1>1, <2>2, ItemsType DEF RangeOf
  <2> QED
    BY <2>1, <2>2
<1> HIDE DEF T, s
<1>4. /\ t \in Seq(T) /\ Len(t) = Len(s) /\ Sorted(t)
      /\ \A i \in DOMAIN s : \E k \in DOMAIN t : t[k] = s[i]
  BY <1>2, <1>3, ByBetterSorts
<1> HIDE DEF t
<1>5. RangeOf(t) = T
  <2>1. \A k \in DOMAIN t : t[k] \in T
    BY <1>4
  <2>2. ASSUME NEW x \in T PROVE x \in RangeOf(t)
    <3>1. PICK i \in DOMAIN s : x = s[i]
      BY <1>2 DEF RangeOf
    <3>2. PICK k \in DOMAIN t : t[k] = s[i]
      BY <1>4
    <3> QED
      BY <3>1, <3>2 DEF RangeOf
  <2> QED
    BY <2>1, <2>2 DEF RangeOf
<1>6. t \in Seq(S)
  BY <1>3, <1>4
<1>7. ASSUME t # << >> PROVE IsItems(items, S) /\ IsItems(t, S)
  <2>1. PICK x \in T : TRUE
    <3>1. Len(t) # 0
      BY <1>4, <1>7
    <3>2. t[1] \in T
      BY <1>4, <3>1
    <3> QED
      BY <3>2
  <2>2. items # << >>
    <3>1. x \in RangeOf(items)
      BY <1>1
    <3> QED
      BY <3>1 DEF RangeOf
  <2>3. IsItems(items, S)
    BY <2>2
  <2>4. \A y \in S : IsCandidate(y)
    BY <2>3 DEF IsItems
  <2> QED
    BY <1>4, <1>6, <1>7, <2>3, <2>4 DEF IsItems
<1> QED
  BY <1>1, <1>5, <1>6, <1>7 DEF BetterFirst, t, s, T

(* The list begins with the best choice and leaves out no other.           *)
LEMMA PriceQuotesAreChoices ==
    ASSUME NEW S, NEW choices, IsItems(choices, S), NEW best,
           best = NoChoice \/ best \in RangeOf(choices)
    PROVE  /\ PriceQuotes(choices, best) \in Seq(S)
           /\ RangeOf(PriceQuotes(choices, best)) \subseteq RangeOf(choices)
           /\ PriceQuotes(choices, best) # << >>
           /\ best # NoChoice =>
                 /\ PriceQuotes(choices, best)[1] = best
                 /\ \A x \in RangeOf(choices) :
                       \/ SameChannel(x, best)
                       \/ x \in RangeOf(PriceQuotes(choices, best))
<1>1. CASE best = NoChoice
  BY <1>1 DEF PriceQuotes, IsItems
<1>2. CASE best # NoChoice
  <2> DEFINE among == {i \in DOMAIN choices : ~SameChannel(choices[i], best)}
             rest == Only(choices, among)
             list == <<best>> \o rest
  <2>1. list = PriceQuotes(choices, best)
    BY <1>2 DEF PriceQuotes
  <2>2. rest \in Seq(S) /\ RangeOf(rest) = {choices[i] : i \in among}
    <3>1. among \subseteq DOMAIN choices
      OBVIOUS
    <3> HIDE DEF among
    <3> QED
      BY <3>1, OnlyOfItems
  <2>3. best \in S /\ best \in RangeOf(choices)
    BY <1>2, ItemsType DEF RangeOf
  <2>4. \A x \in RangeOf(choices) : SameChannel(x, best) \/ x \in RangeOf(rest)
    BY <2>2 DEF RangeOf
  <2>5. RangeOf(rest) \subseteq RangeOf(choices)
    BY <2>2 DEF RangeOf
  <2> HIDE DEF rest
  <2>6. /\ list \in Seq(S) /\ Len(list) = 1 + Len(rest) /\ list[1] = best
        /\ \A k \in 1 .. Len(rest) : list[k + 1] = rest[k]
        /\ \A k \in 2 .. Len(list) : list[k] = rest[k - 1]
    BY <2>2, <2>3
  <2>7. Len(rest) \in Nat /\ DOMAIN rest = 1 .. Len(rest) /\ DOMAIN list = 1 .. Len(list)
    BY <2>2, <2>6
  <2> HIDE DEF list
  <2>8. list # << >>
    <3>1. Len(<< >>) = 0
      OBVIOUS
    <3> QED
      BY <2>6, <2>7, <3>1
  <2>9. RangeOf(list) = {best} \cup RangeOf(rest)
    <3>1. ASSUME NEW k \in DOMAIN list PROVE list[k] \in {best} \cup RangeOf(rest)
      <4>1. CASE k = 1
        BY <2>6, <4>1
      <4>2. CASE k # 1
        <5>1. k \in 2 .. Len(list) /\ k - 1 \in DOMAIN rest
          BY <2>6, <2>7, <4>2
        <5> QED
          BY <2>6, <5>1 DEF RangeOf
      <4> QED
        BY <4>1, <4>2
    <3>2. ASSUME NEW k \in DOMAIN rest PROVE rest[k] \in RangeOf(list)
      <4>1. k + 1 \in DOMAIN list /\ list[k + 1] = rest[k]
        BY <2>6, <2>7
      <4> QED
        BY <4>1 DEF RangeOf
    <3>3. best \in RangeOf(list)
      <4>1. 1 \in DOMAIN list
        BY <2>6, <2>7
      <4> QED
        BY <2>6, <4>1 DEF RangeOf
    <3> QED
      BY <3>1, <3>2, <3>3 DEF RangeOf
  <2> QED
    BY <2>1, <2>3, <2>4, <2>5, <2>6, <2>8, <2>9
<1> QED
  BY <1>1, <1>2

(* Where all warehouses use carrier priorities, the choice has the best    *)
(* priority of all that are within their window.                           *)
LEMMA NearChoiceIsLeast ==
    ASSUME NEW S, NEW items, IsItems(items, S),
           \A i \in DOMAIN items : items[i].rules.mode = WithinDelta
    PROVE  \E m \in DOMAIN items :
              /\ NearChoice(items) = items[m] /\ Near(items, m)
              /\ \A k \in DOMAIN items : Near(items, k) =>
                    EffectivePriority(items[m]) <= EffectivePriority(items[k])
<1> DEFINE near == {i \in DOMAIN items : Near(items, i)}
           W == {p \in near \X near : Preferred(items[p[1]], items[p[2]])}
           E == {p \in near \X near : p[1] < p[2]}
           R == Stable(W, E, near)
<1>1. PICK m \in DOMAIN items :
         /\ NearChoice(items) = items[m] /\ Near(items, m)
         /\ \A j \in DOMAIN items :
               j < m /\ Near(items, j) => Preferred(items[m], items[j])
         /\ \A i \in DOMAIN items :
               i > m /\ Near(items, i) =>
                   \E j \in DOMAIN items :
                       j < i /\ Near(items, j) /\ ~Preferred(items[i], items[j])
  BY NearChoiceIsPreferred
<1>2. /\ IsFiniteSet(near) /\ near \subseteq Nat /\ m \in near
      /\ \A i \in near : /\ IsCandidate(items[i]) /\ items[i].rules.mode = WithinDelta
                         /\ EffectivePriority(items[i]) \in Nat
  BY <1>1, ItemsType, FS_Subset, EffectivePriorityType
<1>3. \A i, j \in near :
         /\ <<i, j>> \in W <=> Preferred(items[i], items[j])
         /\ <<i, j>> \in E <=> i < j
  OBVIOUS
<1>4. IsOrder(R, near)
  <2> HIDE DEF W, E, near
  <2>1. IsWeakOrder(W, near)
    BY <1>2, <1>3, PreferredIsWeakOrder DEF IsWeakOrder
  <2>2. IsOrder(E, near)
    BY <1>2, <1>3 DEF IsOrder
  <2> QED
    BY <2>1, <2>2, StableIsOrder
<1>5. \A i, j \in near :
         <<i, j>> \in R => \/ Preferred(items[i], items[j])
                           \/ ~Preferred(items[j], items[i]) /\ i < j
  <2> HIDE DEF W, E, near
  <2> QED
    BY <1>3 DEF Stable
<1>6. PICK x \in near : \A y \in near : y = x \/ <<x, y>> \in R
  <2> HIDE DEF R, near
  <2> QED
    BY <1>2, <1>4, FirstExists
<1>7. \A y \in near : ~Preferred(items[y], items[x])
  <2> SUFFICES ASSUME NEW y \in near, Preferred(items[y], items[x]) PROVE FALSE
    OBVIOUS
  <2>1. y # x
    BY <1>2, PreferredIsWeakOrder
  <2>2. Preferred(items[x], items[y])
    BY <1>5, <1>6, <2>1
  <2> QED
    BY <1>2, <2>2, PreferredIsWeakOrder
<1>8. x <= m
  <2> SUFFICES ASSUME x > m PROVE FALSE
    BY <1>2
  <2>1. PICK j \in near : j < x /\ ~Preferred(items[x], items[j])
    BY <1>1
  <2>2. <<x, j>> \in R
    BY <1>2, <1>6, <2>1
  <2> QED
    BY <1>2, <1>5, <2>1, <2>2
<1>9. x = m
  <2> SUFFICES ASSUME x < m PROVE FALSE
    BY <1>2, <1>8
  <2>1. Preferred(items[m], items[x])
    BY <1>1
  <2> QED
    BY <1>2, <1>7, <2>1
<1>10. \A k \in near : EffectivePriority(items[m]) <= EffectivePriority(items[k])
  BY <1>2, <1>7, <1>9 DEF Preferred
<1> QED
  BY <1>1, <1>10

(* The currencies of some of the items are among those of all.             *)
LEMMA FewerCurrencies ==
    ASSUME NEW S, NEW items, IsItems(items, S),
           NEW T, NEW part, IsItems(part, T), RangeOf(part) \subseteq RangeOf(items),
           Cardinality(Currencies(items)) <= 1
    PROVE  ~(Cardinality(Currencies(part)) > 1)
<1>1. IsFiniteSet(Currencies(items))
  <2> DEFINE f == [i \in DOMAIN items |-> items[i].channel.currency]
             C == {f[i] : i \in DOMAIN items}
  <2>1. IsFiniteSet(C)
    <3>1. IsFiniteSet(DOMAIN items)
      BY ItemsType
    <3> HIDE DEF f
    <3> QED
      BY <3>1, ImageIsFinite
  <2>2. Currencies(items) \in SUBSET C
    BY DEF Currencies
  <2> HIDE DEF C
  <2> QED
    BY <2>1, <2>2, FS_Subset
<1>2. Currencies(part) \in SUBSET Currencies(items)
  BY DEF Currencies, RangeOf
<1>3. /\ Cardinality(Currencies(part)) <= Cardinality(Currencies(items))
      /\ Cardinality(Currencies(part)) \in Nat /\ Cardinality(Currencies(items)) \in Nat
  BY <1>1, <1>2, FS_Subset, FS_CardinalityType
<1> QED
  BY <1>3

(* Where all warehouses use carrier priorities and one currency, something *)
(* is chosen by them.                                                      *)
LEMMA SomethingIsChosen ==
    ASSUME NEW S, NEW items, IsItems(items, S),
           \A i \in DOMAIN items : items[i].rules.mode = WithinDelta,
           ~(Cardinality(Currencies(items)) > 1)
    PROVE  SelectAutomaticChannel(items, 0) = NearChoice(items)
<1>1. items # << >> /\ 1 \in DOMAIN items
  BY ItemsType DEF IsItems
<1>2. AutomaticChoice(items) = NearChoice(items)
  BY <1>1 DEF AutomaticChoice, WithinDelta, Gofo
<1> QED
  BY <1>1, <1>2 DEF SelectAutomaticChannel

(* The options a substitution lists, where all warehouses use carrier      *)
(* priorities and one currency: the first is dearer than no channel by     *)
(* more than the windows of the two warehouses, and no other has a better  *)
(* priority, but those that are not within their window.                   *)
THEOREM OptionsAreJustified ==
    ASSUME NEW S, NEW items, IsItems(items, S), NoChoice \notin S,
           \A i \in DOMAIN items : items[i].rules.mode = WithinDelta,
           \A i, j \in DOMAIN items :
              items[i].warehouse = items[j].warehouse => items[i].rules = items[j].rules,
           Cardinality(Currencies(items)) <= 1
    PROVE  LET listed == PriceQuotes(BetterFirst(items),
                                     SelectAutomaticChannel(BetterFirst(items), 0))
           IN  /\ listed \in Seq(S) /\ listed # << >>
               /\ RangeOf(listed) \subseteq RangeOf(items)
               /\ \A i \in DOMAIN items :
                     listed[1].channel.amount <=
                         items[i].channel.amount + Window(listed[1]) + Window(items[i])
               /\ \A i \in DOMAIN listed :
                     EffectivePriority(listed[i]) < EffectivePriority(listed[1]) =>
                         \E j \in DOMAIN listed :
                             listed[i].channel.amount >
                                 listed[j].channel.amount + Window(listed[i])
<1> DEFINE choices == BetterFirst(items)
           best == SelectAutomaticChannel(choices, 0)
           listed == PriceQuotes(choices, best)
           part(i) == Only(items, OfWarehouse(items, items[i].warehouse))
<1>1. \A i \in DOMAIN items : /\ IsCandidate(items[i])
                              /\ items[i].channel.amount \in Nat
                              /\ Window(items[i]) \in Nat /\ items[i] \in S
  BY ItemsType DEF IsCandidate, Window
(* Each warehouse chooses something within the window.                     *)
<1>2. ASSUME NEW i \in DOMAIN items
      PROVE  \E k \in DOMAIN items :
                /\ items[k] \in ChosenAt(items)
                /\ items[k].channel.amount <= items[i].channel.amount + Window(items[i])
  <2> DEFINE among == OfWarehouse(items, items[i].warehouse)
             p == Only(items, among)
  <2>1. among \subseteq DOMAIN items /\ i \in among
    BY DEF OfWarehouse
  <2>2. IsItems(p, S) /\ RangeOf(p) = {items[k] : k \in among}
    <3> HIDE DEF among
    <3> QED
      BY <2>1, OnlyOfItems
  <2>3. \A k \in DOMAIN p : \E l \in among : p[k] = items[l]
    <3> HIDE DEF p, among
    <3> QED
      BY <2>2 DEF RangeOf
  <2>4. SelectAutomaticChannel(p, 0) = NearChoice(p)
    <3>1. \A k \in DOMAIN p : p[k].rules.mode = WithinDelta
      <4> HIDE DEF p, among
      <4> QED
        BY <2>1, <2>3
    <3>2. RangeOf(p) \subseteq RangeOf(items)
      <4> HIDE DEF p, among
      <4> QED
        BY <2>1, <2>2 DEF RangeOf
    <3> HIDE DEF p
    <3>3. ~(Cardinality(Currencies(p)) > 1)
      BY <2>2, <3>2, FewerCurrencies
    <3> QED
      BY <2>2, <3>1, <3>3, SomethingIsChosen
  <2>5. p = part(i)
    OBVIOUS
  <2> HIDE DEF p
  <2>6. PICK m \in DOMAIN p : NearChoice(p) = p[m] /\ Near(p, m)
    BY <2>2, NearChoiceIsPreferred
  <2>7. PICK k \in among : p[m] = items[k]
    <3> HIDE DEF among
    <3> QED
      BY <2>3
  <2>8. PICK l \in DOMAIN p : p[l] = items[i]
    <3>1. items[i] \in RangeOf(p)
      <4> HIDE DEF among
      <4> QED
        BY <2>1, <2>2
    <3> QED
      BY <3>1 DEF RangeOf
  <2>9. k \in DOMAIN items /\ items[k].warehouse = items[i].warehouse
    BY DEF OfWarehouse
  <2>10. items[k].channel.amount <= items[i].channel.amount + Window(items[i])
    <3>1. p[1].channel.amount <= items[i].channel.amount /\ p[1].channel.amount \in Nat
      BY <2>2, <2>8, ItemsType DEF IsCandidate
    <3>2. Window(items[k]) = Window(items[i])
      BY <2>9 DEF Window
    <3>3. items[k].channel.amount <= p[1].channel.amount + Window(items[i])
      BY <2>6, <2>7, <3>2 DEF Near
    <3> QED
      BY <1>1, <2>9, <3>1, <3>3
  <2>11. items[k] \in ChosenAt(items)
    <3>1. SelectAutomaticChannel(part(i), 0) = items[k]
      BY <2>4, <2>5, <2>6, <2>7
    <3>2. items[k] # NoChoice
      BY <1>1, <2>9
    <3> QED
      BY <3>1, <3>2, ChosenAtItems
  <2> QED
    BY <2>9, <2>10, <2>11
<1>3. /\ choices \in Seq(S) /\ RangeOf(choices) = ChosenAt(items)
      /\ choices # << >> => IsItems(choices, S)
      /\ ChosenAt(items) \subseteq RangeOf(items)
  BY ChoicesAreItems
<1> HIDE DEF choices
<1>4. IsItems(choices, S)
  <2>1. PICK k \in DOMAIN items : items[k] \in ChosenAt(items)
    BY <1>2, ItemsType
  <2>2. PICK n \in DOMAIN choices : choices[n] = items[k]
    BY <1>3, <2>1 DEF RangeOf
  <2>3. choices # << >>
    BY <2>2
  <2> QED
    BY <1>3, <2>3
<1>5. \A n \in DOMAIN choices : \E i \in DOMAIN items : choices[n] = items[i]
  BY <1>3 DEF RangeOf
<1>6. \A n \in DOMAIN choices : choices[n].rules.mode = WithinDelta
  BY <1>5
<1>7. best = NearChoice(choices)
  <2>1. ~(Cardinality(Currencies(choices)) > 1)
    BY <1>3, <1>4, FewerCurrencies
  <2> QED
    BY <1>4, <1>6, <2>1, SomethingIsChosen
<1>8. PICK m \in DOMAIN choices :
         /\ best = choices[m] /\ Near(choices, m)
         /\ \A k \in DOMAIN choices : Near(choices, k) =>
               EffectivePriority(choices[m]) <= EffectivePriority(choices[k])
  <2> HIDE DEF best
  <2> QED
    BY <1>4, <1>6, <1>7, NearChoiceIsLeast
<1> HIDE DEF best
<1>9. best \in RangeOf(choices) /\ best # NoChoice /\ best \in S
  BY <1>4, <1>8, ItemsType DEF RangeOf
<1>10. /\ listed \in Seq(S) /\ listed # << >>
       /\ RangeOf(listed) \subseteq RangeOf(choices)
       /\ listed[1] = best
       /\ \A x \in RangeOf(choices) : SameChannel(x, best) \/ x \in RangeOf(listed)
  BY <1>4, <1>9, PriceQuotesAreChoices
<1> HIDE DEF listed
<1>11. 1 \in DOMAIN listed
  BY <1>10
(* Two choices of one warehouse are the same.                              *)
<1>12. \A x \in RangeOf(choices) : x \in RangeOf(listed)
  <2> SUFFICES ASSUME NEW x \in RangeOf(choices), SameChannel(x, best)
               PROVE  x \in RangeOf(listed)
    BY <1>10
  <2>1. x = SelectAutomaticChannel(Only(items, OfWarehouse(items, x.warehouse)), 0)
    BY <1>3, ChosenAtItems
  <2>2. best = SelectAutomaticChannel(Only(items, OfWarehouse(items, best.warehouse)), 0)
    BY <1>3, <1>9, ChosenAtItems
  <2>3. x = best
    BY <2>1, <2>2 DEF SameChannel
  <2> QED
    BY <1>10, <1>11, <2>3 DEF RangeOf
<1>13. ASSUME NEW i \in DOMAIN items
       PROVE  best.channel.amount <=
                  items[i].channel.amount + Window(best) + Window(items[i])
  <2>1. PICK k \in DOMAIN items :
           /\ items[k] \in ChosenAt(items)
           /\ items[k].channel.amount <= items[i].channel.amount + Window(items[i])
    BY <1>2
  <2>2. PICK n \in DOMAIN choices : choices[n] = items[k]
    BY <1>3, <2>1 DEF RangeOf
  <2>3. choices[1].channel.amount <= items[k].channel.amount
    BY <1>4, <2>2, ItemsType
  <2>4. best.channel.amount <= choices[1].channel.amount + Window(best)
    BY <1>8 DEF Near
  <2>5. /\ choices[1].channel.amount \in Nat /\ best.channel.amount \in Nat
        /\ Window(best) \in Nat
    BY <1>4, <1>8, ItemsType DEF IsCandidate, Window
  <2> QED
    BY <1>1, <2>1, <2>3, <2>4, <2>5
<1>14. ASSUME NEW i \in DOMAIN listed,
              EffectivePriority(listed[i]) < EffectivePriority(best)
       PROVE  \E j \in DOMAIN listed :
                  listed[i].channel.amount > listed[j].channel.amount + Window(listed[i])
  <2>1. PICK k \in DOMAIN choices : listed[i] = choices[k]
    BY <1>10 DEF RangeOf
  <2>2. EffectivePriority(choices[k]) \in Nat /\ EffectivePriority(best) \in Nat
    BY <1>4, <1>8, ItemsType, EffectivePriorityType
  <2>3. ~Near(choices, k)
    BY <1>8, <1>14, <2>1, <2>2
  <2>4. choices[1] \in RangeOf(choices)
    BY <1>4, ItemsType DEF RangeOf
  <2>5. PICK j \in DOMAIN listed : listed[j] = choices[1]
    BY <1>12, <2>4 DEF RangeOf
  <2>6. /\ choices[1].channel.amount \in Nat /\ choices[k].channel.amount \in Nat
        /\ Window(choices[k]) \in Nat
    BY <1>4, ItemsType DEF IsCandidate, Window
  <2> QED
    BY <2>1, <2>3, <2>5, <2>6 DEF Near
<1>15. RangeOf(listed) \subseteq RangeOf(items)
  BY <1>3, <1>10
<1> QED
  BY <1>10, <1>13, <1>14, <1>15 DEF listed, best, choices
============================================================================
