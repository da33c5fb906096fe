------------------------------ MODULE RIDLookup ------------------------------
(***************************************************************************)
(* The RID routing table of a core router and the search for the route of  *)
(* a destination: among the routes of a space whose region covers the      *)
(* destination, the one with the largest product of prefix lengths.  The   *)
(* search is written as the loop the code runs, with its running best.     *)
(***************************************************************************)
EXTENDS Integers, Sequences

CONSTANTS
  Width,      \* bits of a coordinate, 32 in the code
  Coord,      \* the coordinates that occur
  Space,      \* space ids
  Hop,        \* next-hop RIDs
  None,       \* no lookup
  MaxRoutes   \* bound on the table

\* Shifted(a)[k] is a >> k: every shift by one drops the lowest bit.
Shifted(a) ==
  LET shift[k \in 0..Width] == IF k = 0 THEN a ELSE shift[k - 1] \div 2 IN shift

\* A coordinate is a number of Width bits.
ASSUME ConfigTypes ==
  /\ Width \in Nat /\ MaxRoutes \in Nat
  /\ Coord \subseteq Nat /\ \A a \in Coord : Shifted(a)[Width] = 0

Mask == 0..Width

\* RIDRouteEntry with its RIDSpace.
Route == [space_id : Space, x : Coord, y : Coord,
          x_mask_bits : Mask, y_mask_bits : Mask, next_hop_rid : Hop]

RID == [x : Coord, y : Coord]
Query == [dst_rid : RID, space_id : Space]

ASSUME NoneIsNoQuery == None \notin Query

VARIABLES
  rid_routes,  \* tables.rid_routes
  query,       \* arguments of the lookup that runs, or None
  i,           \* number of rows its loop has looked at
  best,        \* row of the best route so far, 0 for None
  bestKey      \* best_product, best_x_mask and best_y_mask

searchVars == <<query, i, best, bestKey>>
vars == <<rid_routes, searchVars>>
-----------------------------------------------------------------------------
(* RID.common_prefix_bits and the test for a match.                         *)

\* The bit length of a XOR b is the least shift that makes them equal.
CommonPrefixBits(a, b) ==
  LET equal == {k \in 0..Width : Shifted(a)[k] = Shifted(b)[k]}
  IN Width - CHOOSE k \in equal : \A l \in equal : k <= l

\* Mutant: the mask bits must be exceeded, not reached.
MatchesMore(r, d) ==
  /\ CommonPrefixBits(d.x, r.x) > r.x_mask_bits
  /\ CommonPrefixBits(d.y, r.y) > r.y_mask_bits

Matches(r, d) ==
  /\ CommonPrefixBits(d.x, r.x) >= r.x_mask_bits
  /\ CommonPrefixBits(d.y, r.y) >= r.y_mask_bits

Candidate(r, q) == r.space_id = q.space_id /\ Matches(r, q.dst_rid)

Key(r) == [product |-> r.x_mask_bits * r.y_mask_bits,
           x_mask |-> r.x_mask_bits, y_mask |-> r.y_mask_bits]

NoKey == [product |-> -1, x_mask |-> -1, y_mask |-> -1]

\* Mutant: equally good routes replace each other.
ImprovesOrEquals(k, b) ==
  \/ k.product > b.product
  \/ k.product = b.product /\ k.x_mask > b.x_mask
  \/ k.product = b.product /\ k.x_mask = b.x_mask /\ k.y_mask >= b.y_mask

\* Mutant: only the product counts.
ImprovesByProduct(k, b) == k.product > b.product

\* A larger product wins, then a larger X mask, then a larger Y mask.
Improves(k, b) ==
  \/ k.product > b.product
  \/ k.product = b.product /\ k.x_mask > b.x_mask
  \/ k.product = b.product /\ k.x_mask = b.x_mask /\ k.y_mask > b.y_mask
-----------------------------------------------------------------------------
Init ==
  /\ rid_routes = <<>> /\ query = None
  /\ i = 0 /\ best = 0 /\ bestKey = NoKey

\* The handlers of a CR never suspend during a lookup, so the table changes
\* between lookups only.
RouteAdd(r) ==
  /\ query = None /\ Len(rid_routes) < MaxRoutes
  /\ rid_routes' = Append(rid_routes, r)
  /\ UNCHANGED searchVars

SameRegion(r, q) ==
  /\ r.space_id = q.space_id /\ r.x = q.x /\ r.y = q.y
  /\ r.x_mask_bits = q.x_mask_bits /\ r.y_mask_bits = q.y_mask_bits

WithoutRow(t, j) == SubSeq(t, 1, j - 1) \o SubSeq(t, j + 1, Len(t))

\* The first row of the region goes.
RouteRemove(r) ==
  /\ query = None
  /\ \E j \in DOMAIN rid_routes :
       /\ SameRegion(rid_routes[j], r)
       /\ \A k \in 1..(j - 1) : ~SameRegion(rid_routes[k], r)
       /\ rid_routes' = WithoutRow(rid_routes, j)
  /\ UNCHANGED searchVars

Lookup(q) ==
  /\ query = None
  /\ query' = q
  /\ UNCHANGED <<rid_routes, i, best, bestKey>>

\* Mutant: a matching row advances the loop twice.
LookupStepTwice ==
  /\ query # None /\ i < Len(rid_routes)
  /\ LET r == rid_routes[i + 1]
     IN IF Candidate(r, query) /\ Improves(Key(r), bestKey)
        THEN i' = i + 2 /\ best' = i + 1 /\ bestKey' = Key(r)
        ELSE i' = i + 1 /\ UNCHANGED <<best, bestKey>>
  /\ UNCHANGED <<rid_routes, query>>

\* The loop looks at the next row.
LookupStep ==
  /\ query # None /\ i < Len(rid_routes)
  /\ i' = i + 1
  /\ LET r == rid_routes[i + 1]
     IN IF Candidate(r, query) /\ Improves(Key(r), bestKey)
        THEN best' = i + 1 /\ bestKey' = Key(r)
        ELSE UNCHANGED <<best, bestKey>>
  /\ UNCHANGED <<rid_routes, query>>

\* The loop has seen every row: best is the result.
Finished == query # None /\ i = Len(rid_routes)

LookupReturn ==
  /\ Finished
  /\ query' = None
  /\ i' = 0 /\ best' = 0 /\ bestKey' = NoKey
  /\ UNCHANGED rid_routes

Next ==
  \/ \E r \in Route : RouteAdd(r)
  \/ \E r \in Route : RouteRemove(r)
  \/ \E q \in Query : Lookup(q)
  \/ LookupStep
  \/ LookupReturn

Spec == Init /\ [][Next]_vars
-----------------------------------------------------------------------------
\* The table holds routes, the loop stays within it, and the running best is
\* a row or None with a key of its type.
TypeOK ==
  /\ rid_routes \in Seq(Route)
  /\ query \in Query \cup {None}
  /\ i \in 0..Len(rid_routes) /\ best \in 0..i
  /\ bestKey \in [product : Int, x_mask : Int, y_mask : Int]

Candidates == {j \in DOMAIN rid_routes : Candidate(rid_routes[j], query)}

\* The candidates with the largest product, of those the ones with the largest
\* X mask, of those the ones with the largest Y mask.
LargestProduct ==
  {j \in Candidates : \A k \in Candidates :
     Key(rid_routes[k]).product <= Key(rid_routes[j]).product}
LargestX ==
  {j \in LargestProduct : \A k \in LargestProduct :
     rid_routes[k].x_mask_bits <= rid_routes[j].x_mask_bits}
LargestY ==
  {j \in LargestX : \A k \in LargestX :
     rid_routes[k].y_mask_bits <= rid_routes[j].y_mask_bits}

\* A lookup finds nothing only when no route of the space covers the
\* destination, not even one with masks of 0; else it returns the best route
\* by product, X mask and Y mask, and of equally good ones the oldest.
LookupCorrect ==
  Finished =>
    IF Candidates = {} THEN best = 0
    ELSE best \in LargestY /\ \A j \in LargestY : best <= j

Narrower(r, q) ==
  /\ r.x_mask_bits >= q.x_mask_bits /\ r.y_mask_bits >= q.y_mask_bits
  /\ <<r.x_mask_bits, r.y_mask_bits>> # <<q.x_mask_bits, q.y_mask_bits>>

\* Ranking by a product of lengths still is longest-prefix match where regions
\* are nested: a route is never preferred to one whose prefixes are at least as
\* long in both coordinates and longer in one.  The product alone does not give
\* this, since it is 0 whenever one mask is.
MostSpecificWins ==
  Finished /\ best # 0 =>
    \A j \in Candidates : ~Narrower(rid_routes[j], rid_routes[best])

\* RIDSpace.contains shifts the coordinates of both by the unmasked bits, and
\* does not compare those of a mask of 0.
SharesPrefix(a, b, bits) ==
  bits > 0 => Shifted(a)[Width - bits] = Shifted(b)[Width - bits]

Contains(r, d) ==
  SharesPrefix(d.x, r.x, r.x_mask_bits) /\ SharesPrefix(d.y, r.y, r.y_mask_bits)

\* The lookup's test for a match, by common prefixes, and RIDSpace.contains, by
\* shifts, which decides whether a destination is in the router's own space,
\* agree on every region, masks of 0 and of all bits included.
PrefixTestIsContains ==
  query # None =>
    \A j \in DOMAIN rid_routes :
      Matches(rid_routes[j], query.dst_rid) <=> Contains(rid_routes[j], query.dst_rid)
=============================================================================
