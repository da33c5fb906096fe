--------------------------- MODULE RIDLookupProofs ---------------------------
(***************************************************************************)
(* Proofs about RIDLookup for every width, table size and set of routes:   *)
(* the search returns the route its documentation describes, of nested     *)
(* regions the most specific, and the code's two prefix tests agree.       *)
(***************************************************************************)
EXTENDS RIDLookup, SequenceTheorems, WellFoundedInduction, TLAPS

\* Between lookups the loop's variables have their initial values.
AtRest == query = None => i = 0 /\ best = 0 /\ bestKey = NoKey

Seen(j) == j \in 1..i /\ Candidate(rid_routes[j], query)

\* The loop has a best row exactly when it has seen a candidate; no candidate
\* it has seen beats that row, and those before it are beaten by it.
LoopInv ==
  query # None =>
    /\ best = 0 => bestKey = NoKey /\ \A j \in Nat : ~Seen(j)
    /\ best # 0 => /\ Seen(best) /\ bestKey = Key(rid_routes[best])
                   /\ \A j \in Nat : Seen(j) =>
                        /\ ~Improves(Key(rid_routes[j]), bestKey)
                        /\ j < best => Improves(bestKey, Key(rid_routes[j]))

IInv == TypeOK /\ AtRest /\ LoopInv
-----------------------------------------------------------------------------
(* Facts about keys.                                                       *)

KeyType == [product : Int, x_mask : Int, y_mask : Int]

LEMMA ProductNat == ASSUME NEW a \in Nat, NEW b \in Nat PROVE a * b \in Nat
  OBVIOUS

LEMMA KeyInt ==
  ASSUME NEW r \in Route
  PROVE  /\ Key(r) \in KeyType /\ Key(r).product \in Nat
         /\ r.x_mask_bits \in Nat /\ r.y_mask_bits \in Nat
<1>1. r.x_mask_bits \in Nat /\ r.y_mask_bits \in Nat
  BY ConfigTypes DEF Route, Mask
<1>2. r.x_mask_bits * r.y_mask_bits \in Nat
  BY <1>1, ProductNat
<1>3. QED
  BY <1>1, <1>2 DEF Key, KeyType

\* Every route beats "no route so far", one with masks of 0 included.
LEMMA BeatsNoKey == ASSUME NEW r \in Route PROVE Improves(Key(r), NoKey)
  BY KeyInt DEF Improves, NoKey, KeyType

LEMMA ImprovesOrder ==
  ASSUME NEW a \in KeyType, NEW b \in KeyType, NEW c \in KeyType
  PROVE  /\ ~Improves(a, a)
         /\ Improves(a, b) /\ Improves(b, c) => Improves(a, c)
         /\ ~Improves(a, b) /\ Improves(c, b) => ~Improves(a, c)
         /\ Improves(a, b) /\ ~Improves(c, b) => Improves(a, c)
         /\ Improves(a, b) => ~Improves(b, a)
  BY DEF Improves, KeyType
-----------------------------------------------------------------------------
LEMMA WithoutRowType ==
  ASSUME NEW t \in Seq(Route), NEW j \in DOMAIN t
  PROVE  WithoutRow(t, j) \in Seq(Route)
<1>1. Len(t) \in Nat /\ j \in 1..Len(t)
  OBVIOUS
<1>2. SubSeq(t, 1, j - 1) \in Seq(Route) /\ SubSeq(t, j + 1, Len(t)) \in Seq(Route)
  <2>1. \A k \in 1..Len(t) : t[k] \in Route
    OBVIOUS
  <2>2. QED
    BY <1>1, <2>1, SubSeqProperties
<1>3. QED
  BY <1>2, ConcatProperties DEF WithoutRow

LEMMA InitInv == Init => IInv
  BY DEF Init, IInv, TypeOK, AtRest, LoopInv, NoKey

LEMMA StepInv == IInv /\ [Next]_vars => IInv'
<1> SUFFICES ASSUME IInv, [Next]_vars PROVE IInv'
  OBVIOUS
<1> USE DEF IInv
<1>1. ASSUME NEW r \in Route, RouteAdd(r) PROVE IInv'
  <2>1. rid_routes' \in Seq(Route) /\ Len(rid_routes') \in Nat
    BY <1>1, AppendProperties DEF RouteAdd, TypeOK
  <2>2. query' = None /\ i' = 0 /\ best' = 0 /\ bestKey' = NoKey
    BY <1>1 DEF RouteAdd, searchVars, AtRest
  <2>3. QED
    BY <2>1, <2>2 DEF TypeOK, AtRest, LoopInv, NoKey
<1>2. ASSUME NEW r \in Route, RouteRemove(r) PROVE IInv'
  <2>1. rid_routes' \in Seq(Route) /\ Len(rid_routes') \in Nat
    BY <1>2, WithoutRowType DEF RouteRemove, TypeOK
  <2>2. query' = None /\ i' = 0 /\ best' = 0 /\ bestKey' = NoKey
    BY <1>2 DEF RouteRemove, searchVars, AtRest
  <2>3. QED
    BY <2>1, <2>2 DEF TypeOK, AtRest, LoopInv, NoKey
<1>3. ASSUME NEW q \in Query, Lookup(q) PROVE IInv'
  <2>1. query' = q /\ q # None /\ i' = 0 /\ best' = 0 /\ bestKey' = NoKey
        /\ rid_routes' = rid_routes
    BY <1>3, NoneIsNoQuery DEF Lookup, AtRest
  <2>2. QED
    BY <2>1 DEF TypeOK, AtRest, LoopInv, Seen, NoKey
<1>4. ASSUME LookupStep PROVE IInv'
  <2> DEFINE r == rid_routes[i + 1]
  <2>1. /\ query # None /\ query' = query /\ rid_routes' = rid_routes
        /\ i' = i + 1 /\ i \in Nat /\ i < Len(rid_routes) /\ best \in 0..i
        /\ Len(rid_routes) \in Nat
    BY <1>4 DEF LookupStep, TypeOK
  <2>2. r \in Route
    BY <2>1 DEF TypeOK
  <2>3. \A j \in Nat : Seen(j) => j \in 1..i /\ rid_routes[j] \in Route
    BY <2>1 DEF TypeOK, Seen
  <2>4. \A j \in Nat : Seen(j)' <=> Seen(j) \/ (j = i + 1 /\ Candidate(r, query))
    BY <2>1 DEF Seen
  <2>5. CASE Candidate(r, query) /\ Improves(Key(r), bestKey)
    <3>1. best' = i + 1 /\ bestKey' = Key(r)
      BY <1>4, <2>5 DEF LookupStep
    <3>2. TypeOK' /\ AtRest'
      BY <2>1, <2>2, <3>1, KeyInt DEF TypeOK, AtRest, KeyType
    <3>3. Seen(best)' /\ bestKey' = Key(rid_routes[best])'
      BY <2>1, <2>5, <3>1 DEF Seen
    <3>4. ASSUME NEW j \in Nat, Seen(j)
          PROVE  ~Improves(Key(rid_routes[j]), Key(r)) /\ Improves(Key(r), Key(rid_routes[j]))
      <4>1. best # 0 /\ ~Improves(Key(rid_routes[j]), bestKey)
        BY <2>1, <3>4 DEF LoopInv
      <4>2. Key(rid_routes[j]) \in KeyType /\ Key(r) \in KeyType /\ bestKey \in KeyType
        BY <2>2, <2>3, <3>4, KeyInt DEF TypeOK, KeyType
      <4>3. QED
        BY <2>5, <4>1, <4>2, ImprovesOrder
    <3>5. ~Improves(Key(r), Key(r))
      BY <2>2, KeyInt, ImprovesOrder
    <3>6. \A j \in Nat : Seen(j)' =>
             /\ ~Improves(Key(rid_routes[j]), bestKey)'
             /\ j < best' => Improves(bestKey, Key(rid_routes[j]))'
      <4> SUFFICES ASSUME NEW j \in Nat, Seen(j)'
                   PROVE  /\ ~Improves(Key(rid_routes[j]), Key(r))
                          /\ j < i + 1 => Improves(Key(r), Key(rid_routes[j]))
        BY <2>1, <3>1 DEF Improves, Key
      <4>1. CASE Seen(j)
        BY <3>4, <4>1
      <4>2. CASE j = i + 1
        BY <3>5, <4>2, <2>1
      <4>3. QED
        BY <2>4, <4>1, <4>2
    <3>7. best' # 0
      BY <2>1, <3>1
    <3>8. LoopInv'
      BY <3>3, <3>6, <3>7 DEF LoopInv
    <3>9. QED
      BY <3>2, <3>8
  <2>6. CASE ~(Candidate(r, query) /\ Improves(Key(r), bestKey))
    <3>1. best' = best /\ bestKey' = bestKey
      BY <1>4, <2>6 DEF LookupStep
    <3>2. TypeOK' /\ AtRest'
      BY <2>1, <3>1 DEF TypeOK, AtRest
    <3>3. CASE best = 0
      <4>1. bestKey = NoKey /\ \A j \in Nat : ~Seen(j)
        BY <2>1, <3>3 DEF LoopInv
      <4>2. ~Candidate(r, query)
        BY <2>2, <2>6, <4>1, BeatsNoKey
      <4>3. \A j \in Nat : ~Seen(j)'
        BY <2>4, <4>1, <4>2
      <4>4. QED
        BY <3>1, <3>2, <3>3, <4>1, <4>3 DEF LoopInv
    <3>4. CASE best # 0
      <4>1. /\ Seen(best) /\ bestKey = Key(rid_routes[best])
            /\ \A j \in Nat : Seen(j) =>
                 /\ ~Improves(Key(rid_routes[j]), bestKey)
                 /\ j < best => Improves(bestKey, Key(rid_routes[j]))
        BY <2>1, <3>4 DEF LoopInv
      <4>2. Seen(best)' /\ bestKey' = Key(rid_routes[best])'
        BY <2>1, <3>1, <4>1 DEF Seen
      <4>3. \A j \in Nat : Seen(j)' =>
               /\ ~Improves(Key(rid_routes[j]), bestKey)'
               /\ j < best' => Improves(bestKey, Key(rid_routes[j]))'
        <5> SUFFICES ASSUME NEW j \in Nat, Seen(j)'
                     PROVE  /\ ~Improves(Key(rid_routes[j]), bestKey)
                            /\ j < best => Improves(bestKey, Key(rid_routes[j]))
          BY <2>1, <3>1 DEF Improves, Key
        <5>1. CASE Seen(j)
          BY <4>1, <5>1
        <5>2. CASE j = i + 1 /\ Candidate(r, query)
          BY <2>1, <2>6, <5>2
        <5>3. QED
          BY <2>4, <5>1, <5>2
      <4>4. LoopInv'
        BY <3>1, <3>4, <4>2, <4>3 DEF LoopInv
      <4>5. QED
        BY <3>2, <4>4
    <3>5. QED
      BY <3>3, <3>4
  <2>7. QED
    BY <2>5, <2>6
<1>5. ASSUME LookupReturn PROVE IInv'
  BY <1>5 DEF LookupReturn, TypeOK, AtRest, LoopInv, NoKey
<1>6. ASSUME UNCHANGED vars PROVE IInv'
  BY <1>6 DEF vars, searchVars, TypeOK, AtRest, LoopInv, Seen
<1>7. QED
  BY <1>1, <1>2, <1>3, <1>4, <1>5, <1>6 DEF Next

LEMMA IInvAlways == Spec => []IInv
  BY InitInv, StepInv, PTL DEF Spec
-----------------------------------------------------------------------------
(* What the invariant says of a finished search.                           *)

LEMMA CandidatesSeen == TypeOK /\ Finished => \A j : j \in Candidates <=> j \in Nat /\ Seen(j)
  BY DEF TypeOK, Finished, Candidates, Seen

LEMMA CandidateRoutes ==
  TypeOK => \A j \in Candidates : j \in Nat /\ rid_routes[j] \in Route
  BY DEF TypeOK, Candidates

LEMMA FinishedBest ==
  ASSUME IInv, Finished, best # 0
  PROVE  /\ best \in Candidates
         /\ \A j \in Candidates :
              /\ ~Improves(Key(rid_routes[j]), Key(rid_routes[best]))
              /\ j < best => Improves(Key(rid_routes[best]), Key(rid_routes[j]))
<1>1. best \in Nat /\ query # None
  BY DEF IInv, TypeOK, Finished
<1>2. QED
  BY <1>1, CandidatesSeen DEF IInv, LoopInv

LEMMA InvLookupCorrect == IInv => LookupCorrect
<1> SUFFICES ASSUME IInv, Finished
             PROVE  IF Candidates = {} THEN best = 0
                    ELSE best \in LargestY /\ \A j \in LargestY : best <= j
  BY DEF LookupCorrect
<1>1. CASE best = 0
  <2>1. \A j \in Nat : ~Seen(j)
    BY <1>1 DEF IInv, LoopInv, Finished
  <2>2. Candidates = {}
    BY <2>1, CandidatesSeen DEF IInv
  <2>3. QED
    BY <1>1, <2>2
<1>2. CASE best # 0
  <2> DEFINE K(j) == Key(rid_routes[j])
  <2>1. best \in Candidates /\ \A j \in Candidates :
          ~Improves(K(j), K(best)) /\ (j < best => Improves(K(best), K(j)))
    BY <1>2, FinishedBest
  <2>2. \A j \in Candidates :
          /\ j \in Nat /\ K(j).product \in Int
          /\ rid_routes[j].x_mask_bits \in Int /\ rid_routes[j].y_mask_bits \in Int
          /\ K(j).x_mask = rid_routes[j].x_mask_bits
          /\ K(j).y_mask = rid_routes[j].y_mask_bits
    BY CandidateRoutes, KeyInt DEF IInv, KeyType, Key
  <2> HIDE DEF K
  <2>3. best \in LargestProduct
    BY <2>1, <2>2 DEF Improves, LargestProduct, K
  <2>4. \A j \in LargestProduct : j \in Candidates /\ K(j).product = K(best).product
    BY <2>2, <2>3 DEF LargestProduct, K
  <2>5. best \in LargestX
    BY <2>1, <2>2, <2>3, <2>4 DEF Improves, LargestX
  <2>6. \A j \in LargestX : j \in LargestProduct /\ K(j).x_mask = K(best).x_mask
    BY <2>2, <2>4, <2>5 DEF LargestX
  <2>7. best \in LargestY
    BY <2>1, <2>2, <2>4, <2>5, <2>6 DEF Improves, LargestY
  <2>8. ASSUME NEW j \in LargestY PROVE best <= j
    <3>1. j \in Candidates /\ j \in LargestX /\ best \in Candidates
      BY <2>1, <2>4, <2>6 DEF LargestY
    <3>2. K(j).product = K(best).product /\ K(j).x_mask = K(best).x_mask
          /\ rid_routes[j].y_mask_bits >= rid_routes[best].y_mask_bits
      BY <2>4, <2>5, <2>6, <3>1 DEF LargestY
    <3>3. ~Improves(K(best), K(j))
      BY <2>2, <3>1, <3>2 DEF Improves
    <3>4. QED
      BY <2>1, <2>2, <3>1, <3>3
  <2>9. QED
    BY <2>1, <2>7, <2>8
<1>3. QED
  BY <1>1, <1>2

\* Products are monotone in both factors.
LEMMA ProductMonotone ==
  ASSUME NEW a \in Nat, NEW b \in Nat, NEW c \in Nat, NEW d \in Nat, a >= c, b >= d
  PROVE  a * b >= c * d
<1>1. PICK e \in Nat, f \in Nat : a = c + e /\ b = d + f
  <2>1. a - c \in Nat /\ b - d \in Nat /\ a = c + (a - c) /\ b = d + (b - d)
    OBVIOUS
  <2>2. QED
    BY <2>1
<1>2. a * b = c * d + c * f + e * d + e * f
  BY <1>1
<1>3. c * d \in Nat /\ c * f \in Nat /\ e * d \in Nat /\ e * f \in Nat
  BY ProductNat
<1>4. QED
  BY <1>2, <1>3

\* Narrower regions rank higher.
LEMMA NarrowerImproves ==
  ASSUME NEW r \in Route, NEW q \in Route, Narrower(r, q)
  PROVE  Improves(Key(r), Key(q))
<1>1. /\ r.x_mask_bits \in Nat /\ r.y_mask_bits \in Nat
      /\ q.x_mask_bits \in Nat /\ q.y_mask_bits \in Nat
  BY KeyInt
<1>2. r.x_mask_bits >= q.x_mask_bits /\ r.y_mask_bits >= q.y_mask_bits
      /\ (r.x_mask_bits # q.x_mask_bits \/ r.y_mask_bits # q.y_mask_bits)
  BY DEF Narrower
<1>3. Key(r).product >= Key(q).product
  BY <1>1, <1>2, ProductMonotone DEF Key
<1>4. Key(r).product \in Nat /\ Key(q).product \in Nat
  BY KeyInt
<1>5. Key(r).x_mask = r.x_mask_bits /\ Key(q).x_mask = q.x_mask_bits
      /\ Key(r).y_mask = r.y_mask_bits /\ Key(q).y_mask = q.y_mask_bits
  BY DEF Key
<1>6. QED
  BY <1>1, <1>2, <1>3, <1>4, <1>5 DEF Improves

LEMMA InvMostSpecificWins == IInv => MostSpecificWins
<1> SUFFICES ASSUME IInv, Finished, best # 0, NEW j \in Candidates,
                    Narrower(rid_routes[j], rid_routes[best])
             PROVE  FALSE
  BY DEF MostSpecificWins
<1>1. best \in Candidates /\ ~Improves(Key(rid_routes[j]), Key(rid_routes[best]))
  BY FinishedBest
<1>2. rid_routes[j] \in Route /\ rid_routes[best] \in Route
  BY <1>1, CandidateRoutes DEF IInv
<1>3. QED
  BY <1>1, <1>2, NarrowerImproves

-----------------------------------------------------------------------------
(* The two tests for a prefix.  Once two numbers are equal after a shift   *)
(* they stay equal under longer ones, so that the least shift that makes   *)
(* them equal, which the lookup computes, decides whether a given shift    *)
(* does, which RIDSpace.contains asks.                                     *)

\* A non-empty set of naturals has a least element.
LEMMA LeastOfNat ==
  ASSUME NEW T \in SUBSET Nat, T # {}
  PROVE  \E x \in T : \A y \in T : x <= y
<1>1. PICK x \in T : \A y \in T : ~(<<y, x>> \in OpToRel(<, Nat))
  BY NatLessThanWellFounded, WFMin
<1>2. \A y \in T : ~(y < x)
  BY <1>1 DEF OpToRel
<1>3. QED
  BY <1>2

\* The recursion of Shifted: its value at k, from its values F below k.
Halved(a, F, k) == IF k = 0 THEN a ELSE F[k - 1] \div 2

\* It has a solution up to every number of bits.
LEMMA ShiftExists ==
  ASSUME NEW a, NEW n \in Nat
  PROVE  \E F : F = [k \in 0..n |-> Halved(a, F, k)]
<1> DEFINE T == {m \in Nat : ~\E F : F = [k \in 0..m |-> Halved(a, F, k)]}
<1> SUFFICES ASSUME T # {} PROVE FALSE
  OBVIOUS
<1>1. PICK m \in T : \A y \in T : m <= y
  BY LeastOfNat
<1>2. m # 0
  <2>1. PICK F : F = [k \in 0..0 |-> a]
    OBVIOUS
  <2>2. F = [k \in 0..0 |-> Halved(a, F, k)]
    BY <2>1 DEF Halved
  <2>3. QED
    BY <2>2
<1>3. m - 1 \in Nat /\ m - 1 \notin T
  BY <1>1, <1>2
<1>4. PICK F : F = [k \in 0..(m - 1) |-> Halved(a, F, k)]
  BY <1>3
<1> DEFINE G == [k \in 0..m |-> IF k = m THEN Halved(a, F, m) ELSE F[k]]
<1>5. G = [k \in 0..m |-> Halved(a, G, k)]
  <2>1. ASSUME NEW k \in 0..m PROVE G[k] = Halved(a, G, k)
    <3>1. CASE k = m
      <4>1. G[m - 1] = F[m - 1]
        BY <1>2
      <4>2. QED
        BY <1>2, <3>1, <4>1 DEF Halved
    <3>2. CASE k # m /\ k = 0
      BY <1>4, <3>2 DEF Halved
    <3>3. CASE k # m /\ k # 0
      <4>1. G[k - 1] = F[k - 1] /\ G[k] = F[k] /\ k \in 0..(m - 1)
        BY <3>3
      <4>2. F[k] = Halved(a, F, k)
        BY <1>4, <4>1
      <4>3. QED
        BY <3>3, <4>1, <4>2 DEF Halved
    <3>4. QED
      BY <3>1, <3>2, <3>3
  <2> HIDE DEF G
  <2>2. G = [k \in 0..m |-> G[k]]
    BY DEF G
  <2>3. QED
    BY <2>1, <2>2
<1> HIDE DEF G
<1>6. m \notin T
  BY <1>5
<1>7. QED
  BY <1>6

\* So a shift by one more bit halves.
LEMMA ShiftedHalves ==
  ASSUME NEW a, NEW k \in 1..Width
  PROVE  Shifted(a)[k] = Shifted(a)[k - 1] \div 2
<1> DEFINE F == CHOOSE F : F = [l \in 0..Width |-> Halved(a, F, l)]
<1>1. F = [l \in 0..Width |-> Halved(a, F, l)]
  <2> HIDE DEF F
  <2>1. \E H : H = [l \in 0..Width |-> Halved(a, H, l)]
    BY ConfigTypes, ShiftExists
  <2>2. QED
    BY <2>1 DEF F
<1>2. Shifted(a) = F
  BY DEF Shifted, Halved
<1> HIDE DEF F
<1>3. F[k] = Halved(a, F, k)
  BY <1>1, ConfigTypes
<1>4. QED
  BY <1>2, <1>3 DEF Halved

\* Numbers that are equal after a shift are equal after every longer one.
LEMMA StayEqual ==
  ASSUME NEW a, NEW b, NEW j \in 0..Width, NEW k \in j..Width,
         Shifted(a)[j] = Shifted(b)[j]
  PROVE  Shifted(a)[k] = Shifted(b)[k]
<1> DEFINE T == {l \in j..Width : Shifted(a)[l] # Shifted(b)[l]}
<1> SUFFICES ASSUME T # {} PROVE FALSE
  OBVIOUS
<1>1. Width \in Nat
  BY ConfigTypes
<1>2. T \in SUBSET Nat
  BY <1>1
<1>3. PICK m \in T : \A l \in T : m <= l
  <2> HIDE DEF T
  <2>1. QED
    BY <1>2, LeastOfNat
<1>4. m \in j..Width /\ Shifted(a)[m] # Shifted(b)[m] /\ m # j
  OBVIOUS
<1>5. m \in 1..Width /\ m - 1 \in j..Width /\ m - 1 \notin T
  BY <1>1, <1>3, <1>4
<1>6. Shifted(a)[m - 1] = Shifted(b)[m - 1]
  BY <1>5
<1>7. Shifted(a)[m] = Shifted(a)[m - 1] \div 2 /\ Shifted(b)[m] = Shifted(b)[m - 1] \div 2
  BY <1>5, ShiftedHalves
<1>8. QED
  BY <1>4, <1>6, <1>7

\* The common prefix of two coordinates has at least so many bits exactly if
\* they are equal in that many.
LEMMA PrefixIsShared ==
  ASSUME NEW a \in Coord, NEW b \in Coord, NEW bits \in Mask
  PROVE  CommonPrefixBits(a, b) >= bits <=> SharesPrefix(a, b, bits)
<1> DEFINE equal == {k \in 0..Width : Shifted(a)[k] = Shifted(b)[k]}
           least == CHOOSE k \in equal : \A l \in equal : k <= l
<1>1. Width \in Nat /\ bits \in 0..Width
  BY ConfigTypes DEF Mask
<1>2. Width \in equal
  BY <1>1, ConfigTypes
<1>3. \A k \in equal : k \in 0..Width /\ Shifted(a)[k] = Shifted(b)[k]
  OBVIOUS
<1>4. \A k \in 0..Width : Shifted(a)[k] = Shifted(b)[k] => k \in equal
  OBVIOUS
<1>5. CommonPrefixBits(a, b) = Width - least
  BY DEF CommonPrefixBits
<1> HIDE DEF equal
<1>6. least \in equal /\ \A l \in equal : least <= l
  <2>1. equal \in SUBSET Nat
    BY <1>1, <1>3
  <2>2. \E k \in equal : \A l \in equal : k <= l
    BY <1>2, <2>1, LeastOfNat
  <2>3. QED
    BY <2>2
<1> HIDE DEF least
<1>7. ASSUME CommonPrefixBits(a, b) >= bits
      PROVE  SharesPrefix(a, b, bits)
  <2>1. Width - bits \in least..Width /\ least \in 0..Width
    BY <1>1, <1>3, <1>5, <1>6, <1>7
  <2>2. Shifted(a)[Width - bits] = Shifted(b)[Width - bits]
    BY <1>3, <1>6, <2>1, StayEqual
  <2>3. QED
    BY <2>2 DEF SharesPrefix
<1>8. ASSUME SharesPrefix(a, b, bits), bits > 0
      PROVE  CommonPrefixBits(a, b) >= bits
  <2>1. Width - bits \in 0..Width
    BY <1>1
  <2>2. Width - bits \in equal
    BY <1>4, <1>8, <2>1 DEF SharesPrefix
  <2>3. least <= Width - bits /\ least \in 0..Width
    BY <1>3, <1>6, <2>2
  <2>4. QED
    BY <1>1, <1>5, <2>3
<1>9. CASE bits = 0
  <2>1. least \in 0..Width
    BY <1>3, <1>6
  <2>2. CommonPrefixBits(a, b) >= bits
    BY <1>1, <1>5, <1>9, <2>1
  <2>3. QED
    BY <1>7, <2>2
<1>10. bits > 0 \/ bits = 0
  BY <1>1
<1>11. QED
  BY <1>7, <1>8, <1>9, <1>10

LEMMA InvPrefixTest == TypeOK => PrefixTestIsContains
<1> SUFFICES ASSUME TypeOK, query # None, NEW j \in DOMAIN rid_routes
             PROVE  Matches(rid_routes[j], query.dst_rid)
                      <=> Contains(rid_routes[j], query.dst_rid)
  BY DEF PrefixTestIsContains
<1>1. rid_routes[j] \in Route
  BY DEF TypeOK
<1>2. query.dst_rid \in RID
  BY DEF TypeOK, Query
<1>3. /\ query.dst_rid.x \in Coord /\ query.dst_rid.y \in Coord
      /\ rid_routes[j].x \in Coord /\ rid_routes[j].y \in Coord
      /\ rid_routes[j].x_mask_bits \in Mask /\ rid_routes[j].y_mask_bits \in Mask
  BY <1>1, <1>2 DEF Route, RID
<1>4. QED
  BY <1>3, PrefixIsShared DEF Matches, Contains

-----------------------------------------------------------------------------
\* Every variable of the table and of the search keeps its type, and the loop
\* never looks past the table.
THEOREM TypeCorrect == Spec => []TypeOK
  BY IInvAlways, PTL DEF IInv

\* rid_lookup returns the route its docstring describes, and None only when no
\* route of the space covers the destination.
THEOREM LookupCorrectAlways == Spec => []LookupCorrect
  BY IInvAlways, InvLookupCorrect, PTL

\* With nested regions rid_lookup is longest-prefix match.
THEOREM MostSpecificAlways == Spec => []MostSpecificWins
  BY IInvAlways, InvMostSpecificWins, PTL

\* The lookup's test for a match and the test for the router's own spaces are
\* the same test, for every width of coordinates, region and destination.
THEOREM PrefixTestAlways == Spec => []PrefixTestIsContains
  BY IInvAlways, InvPrefixTest, PTL DEF IInv
=============================================================================
