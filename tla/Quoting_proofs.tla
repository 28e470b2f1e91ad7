--------------------------- MODULE Quoting_proofs ---------------------------
(***************************************************************************)
(* Proofs about Quoting, for any prices, thresholds and books: the plan of *)
(* a pass keeps the two sides within one exposure, and a pass that nothing *)
(* disturbed leaves just its plan.                                         *)
(***************************************************************************)
EXTENDS Quoting, FiniteSetTheorems, SequenceTheorems, WellFoundedInduction, TLAPS

Rungs == [price : Prices, shares : Nat]
AtMostOne(S) == \A x, y \in S : x = y

-----------------------------------------------------------------------------
(* Arithmetic. *)

\* The least of three numbers is one of them and below the others.
LEMMA MinOfThree ==
  ASSUME NEW x \in Int, NEW y \in Int, NEW z \in Int
  PROVE  /\ Min({x, y, z}) \in Int
         /\ Min({x, y, z}) <= x /\ Min({x, y, z}) <= y /\ Min({x, y, z}) <= z
<1>1. \E m \in {x, y, z} : \A n \in {x, y, z} : m <= n
  OBVIOUS
<1>q. QED BY <1>1 DEF Min

\* What the quotient buys costs no more than there is.
LEMMA QuotientFits ==
  ASSUME NEW u \in Int, NEW p \in Nat \ {0}, NEW n \in Nat, n <= u \div p
  PROVE  p * n <= u
<1>1. u \div p \in Int /\ p * (u \div p) <= u
  OBVIOUS
<1>2. p * n <= p * (u \div p)
  BY <1>1
<1>q. QED BY <1>1, <1>2

\* A finite set of naturals that is not empty has a greatest element: the elements
\* above it are a least set of that kind.
LEMMA GreatestExists ==
  ASSUME NEW S \in SUBSET Nat, IsFiniteSet(S), S # {}
  PROVE  Max(S) \in S
<1> DEFINE Above(x) == {y \in S : y > x}
           T == {Above(x) : x \in S}
<1>1. IsWellFoundedOn(StrictSubsetOrdering(S), SUBSET S)
  BY FS_StrictSubsetOrderingWellFounded, FS_FiniteSubsetsOfFinite
<1>2. T \subseteq SUBSET S /\ T # {}
  OBVIOUS
<1>3. PICK U \in T : \A V \in T : <<V, U>> \notin StrictSubsetOrdering(S)
  <2> HIDE DEF T
  <2>q. QED BY <1>1, <1>2, WFMin
<1>4. PICK x \in S : U = Above(x)
  BY <1>3
<1>5. \A y \in S : y <= x
  <2>1. SUFFICES ASSUME NEW y \in S, y > x PROVE FALSE
    OBVIOUS
  <2>2. Above(y) \in T
    OBVIOUS
  <2>3. Above(y) \subseteq Above(x)
    <3>1. x \in Nat /\ y \in Nat /\ \A z \in S : z \in Nat
      OBVIOUS
    <3>2. \A z \in S : z > y => z > x
      BY <2>1, <3>1
    <3>q. QED BY <3>2
  <2>4. y \in Above(x) /\ y \notin Above(y)
    BY <2>1
  <2>5. <<Above(y), U>> \in StrictSubsetOrdering(S)
    BY <2>3, <2>4, <1>4 DEF StrictSubsetOrdering
  <2>q. QED BY <2>2, <2>5, <1>3
<1>6. \E m \in S : \A y \in S : m >= y
  BY <1>5
<1>q. QED BY <1>6 DEF Max

-----------------------------------------------------------------------------
(* The plan. *)

\* Either mode quotes at most one rung a side, at a price an order can have.
LEMMA QuoteIsRung ==
  ASSUME NEW m, NEW book, NEW ask, NEW hs, NEW u \in Nat
  PROVE  Quote(m, book, ask, hs, u) \in SUBSET Rungs /\ AtMostOne(Quote(m, book, ask, hs, u))
<1>1. GapSinglePrices(book, ask, hs) \subseteq Prices /\ AtMostOne(GapSinglePrices(book, ask, hs))
  <2>1. CASE GapSinglePrices(book, ask, hs) = {}
    BY <2>1 DEF AtMostOne
  <2>2. CASE GapSinglePrices(book, ask, hs) # {}
    <3>1. Joinable(book, ask, hs) # {} /\ GapSinglePrices(book, ask, hs) = {Max(Joinable(book, ask, hs))}
      BY <2>2 DEF GapSinglePrices
    <3>2. Joinable(book, ask, hs) \in SUBSET Prices
      BY DEF Joinable, Levels
    <3>3. Joinable(book, ask, hs) \in SUBSET Nat /\ IsFiniteSet(Joinable(book, ask, hs))
      BY <3>2, LadderAssumption, FS_Subset
    <3>4. Max(Joinable(book, ask, hs)) \in Joinable(book, ask, hs)
      BY <3>1, <3>3, GreatestExists
    <3>q. QED BY <3>1, <3>2, <3>4 DEF AtMostOne
  <2>q. QED BY <2>1, <2>2
<1>2. LegacyPrices(book, ask, hs) \subseteq Prices /\ AtMostOne(LegacyPrices(book, ask, hs))
  BY DEF LegacyPrices, Levels, AtMostOne
<1>3. ASSUME NEW p \in Prices PROVE OrderSize(p, u) \in Nat
  <2>1. p \in Nat \ {0} /\ Custom \in Nat /\ MinSize \in Nat
    BY LadderAssumption
  <2>2. u \div p \in Nat /\ Custom \div p \in Nat
    BY <2>1
  <2>q. QED BY <2>1, <2>2 DEF OrderSize
<1>4. TierShares \in Nat
  BY LadderAssumption
<1>5. CASE m = "gap_single"
  BY <1>1, <1>4, <1>5 DEF Quote, Rungs, AtMostOne
<1>6. CASE m # "gap_single"
  <2>1. Quote(m, book, ask, hs, u) =
          {r \in {[price |-> p, shares |-> OrderSize(p, u)] : p \in LegacyPrices(book, ask, hs)} :
            r.shares > 0}
    BY <1>6 DEF Quote
  <2>q. QED BY <2>1, <1>2, <1>3 DEF Rungs, AtMostOne
<1>q. QED BY <1>5, <1>6

\* A capped rung has its price, a size worth placing, and stays within both limits.
LEMMA CappedRung ==
  ASSUME NEW rungs \in SUBSET Rungs, NEW u \in Int, NEW n \in Int,
         NEW r \in Capped(rungs, u, n)
  PROVE  /\ r \in [price : Prices, shares : Nat] /\ r.shares >= MinSize
         /\ r.shares <= n /\ r.price * r.shares <= u
<1>1. PICK q \in rungs :
        r = [price |-> q.price, shares |-> Min({q.shares, u \div q.price, n})] /\ r.shares >= MinSize
  BY DEF Capped
<1>2. q.price \in Nat \ {0} /\ q.price \in Prices /\ q.shares \in Nat
  BY LadderAssumption DEF Rungs
<1>3. u \div q.price \in Int
  BY <1>2
<1>4. r.shares \in Int /\ r.shares <= u \div q.price /\ r.shares <= n
  <2>1. r.shares = Min({q.shares, u \div q.price, n})
    BY <1>1
  <2>2. q.shares \in Int
    BY <1>2
  <2> DEFINE d == u \div q.price
             k == q.shares
  <2>3. d \in Int /\ k \in Int /\ r.shares = Min({k, d, n})
    BY <2>1, <2>2, <1>3
  <2> HIDE DEF d, k
  <2>4. Min({k, d, n}) \in Int /\ Min({k, d, n}) <= d /\ Min({k, d, n}) <= n
    BY <2>3, MinOfThree
  <2>5. r.shares \in Int /\ r.shares <= d /\ r.shares <= n
    BY <2>3, <2>4
  <2>q. QED BY <2>5 DEF d
<1>5. r.shares \in Nat
  BY <1>1, <1>4, LadderAssumption
<1>6. r.price * r.shares <= u
  BY <1>1, <1>2, <1>4, <1>5, QuotientFits
<1>q. QED BY <1>1, <1>2, <1>4, <1>5, <1>6

\* Capping keeps at most one rung a side.
LEMMA CappedOne ==
  ASSUME NEW rungs, AtMostOne(rungs), NEW u, NEW n
  PROVE  AtMostOne(Capped(rungs, u, n))
BY DEF AtMostOne, Capped

\* Two sides planned one after the other share what there is.
LEMMA SharedExposure ==
  ASSUME NEW ra \in SUBSET Rungs, NEW rb \in SUBSET Rungs, AtMostOne(ra), AtMostOne(rb),
         NEW u \in Nat, NEW n \in Nat, NEW fa, NEW fb,
         fa = FirstOrders(ra, u, n), fb = SecondOrders(fa, rb, u, n)
  PROVE  /\ Usd(fa) + Usd(fb) <= u /\ Usd(fb) + Usd(fa) <= u
         /\ Shares(fa) + Shares(fb) <= n /\ Shares(fb) + Shares(fa) <= n
         /\ fa \subseteq [price : Prices, shares : MinSize..n]
         /\ fb \subseteq [price : Prices, shares : MinSize..n]
<1>1. fa = Capped(ra, u, n) /\ AtMostOne(fa)
  BY CappedOne DEF FirstOrders
<1>2. \A r \in fa : /\ r \in [price : Prices, shares : Nat] /\ r.shares >= MinSize
                    /\ r.shares <= n /\ r.price * r.shares <= u
  BY <1>1, CappedRung
<1>3. /\ Usd(fa) \in Nat /\ Usd(fa) <= u
      /\ Shares(fa) \in Nat /\ Shares(fa) <= n
  <2>1. CASE fa = {}
    BY <2>1 DEF Usd, Shares
  <2>2. CASE fa # {}
    <3>1. PICK r \in fa : r = (CHOOSE x \in fa : TRUE)
      BY <2>2
    <3>2. Usd(fa) = r.price * r.shares /\ Shares(fa) = r.shares
      BY <2>2, <3>1 DEF Usd, Shares
    <3>3. r.price \in Nat /\ r.shares \in Nat
      BY <1>2, LadderAssumption
    <3>q. QED BY <3>2, <3>3, <1>2
  <2>q. QED BY <2>1, <2>2
<1> DEFINE v == u - Usd(fa)
           m == n - Shares(fa)
<1>4. v \in Nat /\ m \in Nat /\ v + Usd(fa) = u /\ m + Shares(fa) = n
  BY <1>3
<1>5. fb = Capped(rb, v, m)
  BY DEF SecondOrders
<1> HIDE DEF v, m
<1>6. \A r \in fb : /\ r \in [price : Prices, shares : Nat] /\ r.shares >= MinSize
                    /\ r.shares <= m /\ r.price * r.shares <= v
  BY <1>4, <1>5, CappedRung
<1>7. /\ Usd(fb) \in Nat /\ Usd(fb) <= v
      /\ Shares(fb) \in Nat /\ Shares(fb) <= m
  <2>1. CASE fb = {}
    BY <2>1, <1>4 DEF Usd, Shares
  <2>2. CASE fb # {}
    <3>1. PICK r \in fb : r = (CHOOSE x \in fb : TRUE)
      BY <2>2
    <3>2. Usd(fb) = r.price * r.shares /\ Shares(fb) = r.shares
      BY <2>2, <3>1 DEF Usd, Shares
    <3>3. r.price \in Nat /\ r.shares \in Nat
      BY <1>6, LadderAssumption
    <3>q. QED BY <3>2, <3>3, <1>6
  <2>q. QED BY <2>1, <2>2
<1>8. fa \subseteq [price : Prices, shares : MinSize..n]
  BY <1>2, LadderAssumption
<1>9. fb \subseteq [price : Prices, shares : MinSize..n]
  <2>1. m <= n
    BY <1>3, <1>4
  <2>q. QED BY <1>4, <1>6, <2>1, LadderAssumption
<1>q. QED BY <1>3, <1>4, <1>7, <1>8, <1>9

-----------------------------------------------------------------------------
(* The exposure of a pass. *)

\* What the market may cost is one of the amounts it may be.
WalletInv == usd \in Usds

LEMMA WalletInvHolds == Spec => []WalletInv
<1>1. Init => WalletInv
  BY DEF Init, WalletInv
<1>2. WalletInv /\ [Next]_vars => WalletInv'
  <2> SUFFICES ASSUME WalletInv, [Next]_vars PROVE WalletInv'
    OBVIOUS
  <2> USE DEF WalletInv, vars, worldVars
  <2>1. CASE World
    BY <2>1 DEF World, UsdMoves, SellOut, SpreadMoves, BookMoves, Fill
  <2>2. CASE Monitor \/ Rediscovers
    BY <2>2 DEF Monitor, CancelRemainder, Judge, CancelJudged, CancelFails, Cancelled, Rediscovers
  <2>3. CASE Pass
    BY <2>3 DEF Pass, PassBegins, ReadOrders, ReadFails, DropBuys, Drops, PlanOrders, PlanFrom,
                CancelReplaced, Cancels,
                PlaceMissing, PlaceRejected, NothingMissing, NextSide, PassEnds
  <2>4. CASE UNCHANGED vars
    BY <2>4
  <2>q. QED BY <2>1, <2>2, <2>3, <2>4 DEF Next
<1>q. QED BY <1>1, <1>2, PTL DEF Spec

\* A plan made for any sides that have a book shares what there is.
LEMMA PlanOfShares ==
  ASSUME usd \in Nat, NEW sides
  PROVE  /\ Usd(PlanOf(sides)["a"]) + Usd(PlanOf(sides)["b"]) <= usd
         /\ Shares(PlanOf(sides)["a"]) + Shares(PlanOf(sides)["b"]) <= MaxShares
<1> DEFINE quote(s) == IF s \notin sides THEN {} ELSE Quote(mode, Book(s), Ask[s], terms, usd)
           first == First(sides)
           second == IF first = "a" THEN "b" ELSE "a"
           fa == FirstOrders(quote(first), usd, MaxShares)
           fb == SecondOrders(fa, quote(second), usd, MaxShares)
<1>1. MaxShares \in Nat
  BY QuotingAssumption
<1>2. \A s : quote(s) \in SUBSET Rungs /\ AtMostOne(quote(s))
  <2> TAKE s
  <2>1. CASE s \notin sides BY <2>1 DEF AtMostOne
  <2>2. CASE s \in sides BY <2>2, QuoteIsRung
  <2>q. QED BY <2>1, <2>2
<1>3. /\ Usd(fa) + Usd(fb) <= usd /\ Usd(fb) + Usd(fa) <= usd
      /\ Shares(fa) + Shares(fb) <= MaxShares /\ Shares(fb) + Shares(fa) <= MaxShares
  <2> HIDE DEF quote, first, second
  <2>q. QED BY <1>1, <1>2, SharedExposure
<1>4. CASE first = "a"
  <2>1. PlanOf(sides)["a"] = fa /\ PlanOf(sides)["b"] = fb
    BY <1>4 DEF PlanOf, Sides
  <2>q. QED BY <2>1, <1>3
<1>5. CASE first = "b"
  <2>1. PlanOf(sides)["b"] = fa /\ PlanOf(sides)["a"] = fb
    BY <1>5 DEF PlanOf, Sides
  <2>q. QED BY <2>1, <1>3
<1>q. QED BY <1>4, <1>5 DEF First

\* The two sides of a market share one limit: what place_orders plans for both stays
\* within what there was for the market, in either mode, whatever the books.
THEOREM PlansWithinExposure == Spec => PlanWithinExposure
<1>1. WalletInv /\ [Next]_vars =>
        [PlanOrders => /\ Usd(plan'["a"]) + Usd(plan'["b"]) <= usd
                      /\ Shares(plan'["a"]) + Shares(plan'["b"]) <= MaxShares]_vars
  <2> SUFFICES ASSUME WalletInv, PlanOrders
               PROVE  /\ Usd(plan'["a"]) + Usd(plan'["b"]) <= usd
                      /\ Shares(plan'["a"]) + Shares(plan'["b"]) <= MaxShares
    OBVIOUS
  <2>1. usd \in Nat /\ MaxShares \in Nat
    BY QuotingAssumption DEF WalletInv
  <2>2. plan' = NoRungs \/ \E sides : plan' = PlanOf(sides)
    BY DEF PlanOrders, PlanFrom, PassOver
  <2>3. CASE plan' = NoRungs
    BY <2>1, <2>3 DEF NoRungs, Sides, Usd, Shares
  <2>4. CASE \E sides : plan' = PlanOf(sides)
    BY <2>1, <2>4, PlanOfShares
  <2>q. QED BY <2>2, <2>3, <2>4
<1>q. QED BY <1>1, WalletInvHolds, PTL DEF Spec, PlanWithinExposure
-----------------------------------------------------------------------------
(* Induction over a set of numbers. *)

LEMMA LeastOf ==
  ASSUME NEW S \in SUBSET Nat, S # {}
  PROVE  \E n \in S : \A m \in S : n <= m
<1> DEFINE R == OpToRel(<, Nat)
<1>1. PICK n \in S : \A m \in S : <<m, n>> \notin R
  <2>1. IsWellFoundedOn(R, Nat) BY NatLessThanWellFounded
  <2> HIDE DEF R
  <2>q. QED BY <2>1, WFMin
<1>2. \A m \in S : ~ (m < n)
  BY <1>1 DEF OpToRel
<1>q. QED BY <1>2

LEMMA AllNumbers ==
  ASSUME NEW S, 0 \in S, \A n \in Nat : n \in S => n + 1 \in S
  PROVE  \A n \in Nat : n \in S
<1> SUFFICES ASSUME Nat \ S # {} PROVE FALSE
  OBVIOUS
<1>1. PICK n \in Nat \ S : \A m \in Nat \ S : n <= m
  BY LeastOf
<1>2. n - 1 \in Nat /\ n - 1 \in S
  BY <1>1
<1>q. QED BY <1>1, <1>2

-----------------------------------------------------------------------------
(* What rests of the orders when some are gone. *)

Orders == [id : Ids, price : Prices, left : Nat, hit : BOOLEAN, judged : BOOLEAN]
Distinct(orders) == \A i, j \in 1 .. Len(orders) : orders[i].id = orders[j].id => i = j

\* f[n] is what rests of the first n orders.
IsRest(f, orders, ids) ==
  /\ f \in [0 .. Len(orders) -> Seq(Orders)] /\ f[0] = <<>>
  /\ \A n \in 1 .. Len(orders) :
       f[n] = IF orders[n].id \in ids THEN f[n - 1] ELSE Append(f[n - 1], orders[n])

LEMMA RestExists ==
  ASSUME NEW orders \in Seq(Orders), NEW ids
  PROVE  \E f : IsRest(f, orders, ids)
<1> DEFINE Rests(n, f) ==
             /\ f \in [0 .. n -> Seq(Orders)] /\ f[0] = <<>>
             /\ \A k \in 1 .. n :
                  f[k] = IF orders[k].id \in ids THEN f[k - 1] ELSE Append(f[k - 1], orders[k])
           G == {n \in Nat : n <= Len(orders) => \E f : Rests(n, f)}
<1>0. Len(orders) \in Nat /\ \A k \in 1 .. Len(orders) : orders[k] \in Orders
  OBVIOUS
<1>1. 0 \in G
  <2> DEFINE f == [k \in 0 .. 0 |-> <<>>]
  <2>1. f \in [0 .. 0 -> Seq(Orders)] /\ f[0] = <<>> OBVIOUS
  <2>2. Rests(0, f) BY <2>1
  <2> HIDE DEF f, Rests
  <2>q. QED BY <2>2
<1>2. ASSUME NEW n \in Nat, n \in G PROVE n + 1 \in G
  <2> HIDE DEF Rests
  <2> SUFFICES ASSUME n + 1 <= Len(orders) PROVE \E f : Rests(n + 1, f)
    OBVIOUS
  <2>1. PICK f : Rests(n, f) BY <1>0, <1>2
  <2> USE DEF Rests
  <2> DEFINE next == IF orders[n + 1].id \in ids THEN f[n] ELSE Append(f[n], orders[n + 1])
  <2>2. next \in Seq(Orders) BY <1>0, <2>1
  <2> HIDE DEF next
  <2>3. \A k \in 1 .. n + 1 : k = n + 1 \/ k \in 1 .. n OBVIOUS
  <2> DEFINE g == [k \in 0 .. n + 1 |-> IF k = n + 1 THEN next ELSE f[k]]
  <2>4. g \in [0 .. n + 1 -> Seq(Orders)] /\ g[0] = <<>> /\ g[n + 1] = next
        /\ \A k \in 0 .. n : g[k] = f[k]
    BY <2>1, <2>2
  <2> HIDE DEF g
  <2>5. Rests(n + 1, g)
    <3>1. ASSUME NEW k \in 1 .. n + 1
          PROVE  g[k] = IF orders[k].id \in ids THEN g[k - 1] ELSE Append(g[k - 1], orders[k])
      <4>1. CASE k = n + 1 BY <2>4, <4>1 DEF next
      <4>2. CASE k \in 1 .. n
        <5>1. g[k] = f[k] /\ g[k - 1] = f[k - 1] BY <2>4, <4>2
        <5>q. QED BY <2>1, <4>2, <5>1
      <4>q. QED BY <2>3, <4>1, <4>2
    <3>q. QED BY <2>4, <3>1
  <2> HIDE DEF Rests
  <2>q. QED BY <2>5
<1>3. Len(orders) \in G
  <2> HIDE DEF G
  <2>q. QED BY <1>0, <1>1, <1>2, AllNumbers
<1>4. PICK f : Rests(Len(orders), f)
  <2> HIDE DEF Rests
  <2>q. QED BY <1>0, <1>3
<1>q. QED BY <1>4 DEF IsRest

\* The function that Without defines is the one with these values.
LEMMA WithoutIsRest ==
  ASSUME NEW orders \in Seq(Orders), NEW ids, NEW f, IsRest(f, orders, ids)
  PROVE  Without(orders, ids) = f[Len(orders)]
<1> DEFINE Step(g) == [n \in 0 .. Len(orders) |->
                        IF n = 0 THEN <<>>
                        ELSE IF orders[n].id \in ids THEN g[n - 1] ELSE Append(g[n - 1], orders[n])]
           rest == CHOOSE g : g = Step(g)
<1>0. Len(orders) \in Nat OBVIOUS
<1>1. f = Step(f)
  <2>1. f \in [0 .. Len(orders) -> Seq(Orders)] /\ f[0] = <<>> BY DEF IsRest
  <2>2. \A n \in 0 .. Len(orders) : n = 0 \/ n \in 1 .. Len(orders) BY <1>0
  <2>3. \A n \in 0 .. Len(orders) : f[n] = Step(f)[n]
    BY <2>1, <2>2 DEF IsRest
  <2>q. QED BY <2>1, <2>3
<1>2. rest = Step(rest) BY <1>1
<1> DEFINE G == {n \in Nat : n <= Len(orders) => rest[n] = f[n]}
<1>3. 0 \in G
  <2> HIDE DEF rest
  <2>1. rest[0] = <<>> BY <1>0, <1>2
  <2>q. QED BY <1>0, <2>1 DEF IsRest
<1>4. ASSUME NEW n \in Nat, n \in G PROVE n + 1 \in G
  <2> SUFFICES ASSUME n + 1 <= Len(orders) PROVE rest[n + 1] = f[n + 1]
    OBVIOUS
  <2>1. rest[n + 1] = IF orders[n + 1].id \in ids THEN rest[n] ELSE Append(rest[n], orders[n + 1])
    <3> HIDE DEF rest
    <3>1. n + 1 \in 0 .. Len(orders) /\ n + 1 # 0 /\ (n + 1) - 1 = n BY <1>0
    <3>2. rest[n + 1] = Step(rest)[n + 1] BY <1>2
    <3>q. QED BY <3>1, <3>2
  <2>2. f[n + 1] = IF orders[n + 1].id \in ids THEN f[n] ELSE Append(f[n], orders[n + 1])
    BY <1>0 DEF IsRest
  <2>q. QED BY <1>0, <1>4, <2>1, <2>2
<1>5. Len(orders) \in G
  <2> HIDE DEF G
  <2>q. QED BY <1>0, <1>3, <1>4, AllNumbers
<1>6. Without(orders, ids) = rest[Len(orders)] BY DEF Without
<1>q. QED BY <1>0, <1>5, <1>6

\* What rests are orders, and no two of them the same one.
LEMMA RestIsDistinct ==
  ASSUME NEW orders \in Seq(Orders), NEW ids
  PROVE  /\ Without(orders, ids) \in Seq(Orders)
         /\ Distinct(orders) => Distinct(Without(orders, ids))
<1>0. Len(orders) \in Nat /\ \A k \in 1 .. Len(orders) : orders[k] \in Orders
  OBVIOUS
<1>1. PICK f : IsRest(f, orders, ids) BY RestExists
<1>2. Without(orders, ids) = f[Len(orders)] BY <1>1, WithoutIsRest
<1>3. \A n \in 0 .. Len(orders) : f[n] \in Seq(Orders) BY <1>1 DEF IsRest
<1>4. ASSUME Distinct(orders) PROVE Distinct(f[Len(orders)])
  <2> DEFINE FromFirst(n) == \A i \in 1 .. Len(f[n]) : \E j \in 1 .. n : f[n][i] = orders[j]
             G == {n \in Nat : n <= Len(orders) => Distinct(f[n]) /\ FromFirst(n)}
  <2>1. 0 \in G
    <3>1. f[0] = <<>> BY <1>1 DEF IsRest
    <3>q. QED BY <3>1 DEF Distinct
  <2>2. ASSUME NEW n \in Nat, n \in G PROVE n + 1 \in G
    <3> SUFFICES ASSUME n + 1 <= Len(orders) PROVE Distinct(f[n + 1]) /\ FromFirst(n + 1)
      OBVIOUS
    <3>1. Distinct(f[n]) /\ FromFirst(n) /\ f[n] \in Seq(Orders) /\ orders[n + 1] \in Orders
      BY <1>0, <1>3, <2>2
    <3>2. CASE orders[n + 1].id \in ids
      <4>1. f[n + 1] = f[n] BY <1>0, <1>1, <3>2 DEF IsRest
      <4>q. QED BY <3>1, <4>1
    <3>3. CASE orders[n + 1].id \notin ids
      <4>0. n + 1 \in 1 .. Len(orders) /\ (n + 1) - 1 = n BY <1>0
      <4>1. f[n + 1] = Append(f[n], orders[n + 1]) BY <1>1, <3>3, <4>0 DEF IsRest
      <4>2. /\ Len(f[n]) \in Nat /\ Len(f[n + 1]) = Len(f[n]) + 1
            /\ f[n + 1][Len(f[n]) + 1] = orders[n + 1]
            /\ \A i \in 1 .. Len(f[n]) : f[n + 1][i] = f[n][i]
        BY <3>1, <4>1
      <4> DEFINE L == Len(f[n])
      <4>3. \A i \in 1 .. L : f[n + 1][i].id # orders[n + 1].id
        <5> SUFFICES ASSUME NEW i \in 1 .. L PROVE f[n + 1][i].id # orders[n + 1].id
          OBVIOUS
        <5>1. PICK j \in 1 .. n : f[n][i] = orders[j] BY <3>1
        <5>2. j \in 1 .. Len(orders) /\ n + 1 \in 1 .. Len(orders) /\ j # n + 1 BY <1>0
        <5>3. orders[j].id # orders[n + 1].id BY <1>4, <5>2 DEF Distinct
        <5>q. QED BY <4>2, <5>1, <5>3
      <4>4. FromFirst(n + 1)
        <5> SUFFICES ASSUME NEW i \in 1 .. Len(f[n + 1])
                     PROVE  \E j \in 1 .. n + 1 : f[n + 1][i] = orders[j]
          OBVIOUS
        <5>1. CASE i = L + 1 BY <4>2, <5>1
        <5>2. CASE i \in 1 .. L
          <6>1. PICK j \in 1 .. n : f[n][i] = orders[j] BY <3>1, <5>2
          <6>q. QED BY <4>2, <5>2, <6>1
        <5>q. QED BY <4>2, <5>1, <5>2
      <4>5. Distinct(f[n + 1])
        <5> SUFFICES ASSUME NEW i \in 1 .. L + 1, NEW j \in 1 .. L + 1,
                            f[n + 1][i].id = f[n + 1][j].id
                     PROVE  i = j
          BY <4>2 DEF Distinct
        <5>1. CASE i \in 1 .. L /\ j \in 1 .. L
          <6>1. f[n][i].id = f[n][j].id BY <4>2, <5>1
          <6>q. QED BY <3>1, <5>1, <6>1 DEF Distinct
        <5>2. CASE ~ (i \in 1 .. L /\ j \in 1 .. L)
          <6>1. i = L + 1 \/ j = L + 1 BY <4>2, <5>2
          <6>2. (i = L + 1 \/ i \in 1 .. L) /\ (j = L + 1 \/ j \in 1 .. L) BY <4>2
          <6> HIDE DEF L
          <6>3. f[n + 1][L + 1] = orders[n + 1] BY <4>2 DEF L
          <6>q. QED BY <4>3, <6>1, <6>2, <6>3
        <5>q. QED BY <5>1, <5>2
      <4>q. QED BY <4>4, <4>5
    <3>q. QED BY <3>2, <3>3
  <2>3. Len(orders) \in G
    <3> HIDE DEF G
    <3>q. QED BY <1>0, <2>1, <2>2, AllNumbers
  <2>q. QED BY <1>0, <2>3
<1>q. QED BY <1>0, <1>2, <1>3, <1>4

\* Of orders that all go nothing rests, and of those that go but for one, that one.
LEMMA RestOfNone ==
  ASSUME NEW orders \in Seq(Orders), NEW ids, \A i \in 1 .. Len(orders) : orders[i].id \in ids
  PROVE  Without(orders, ids) = <<>>
<1>0. Len(orders) \in Nat OBVIOUS
<1>1. PICK f : IsRest(f, orders, ids) BY RestExists
<1> DEFINE G == {n \in Nat : n <= Len(orders) => f[n] = <<>>}
<1>2. 0 \in G BY <1>1 DEF IsRest
<1>3. ASSUME NEW n \in Nat, n \in G PROVE n + 1 \in G
  BY <1>0, <1>1, <1>3 DEF IsRest
<1>4. Len(orders) \in G
  <2> HIDE DEF G
  <2>q. QED BY <1>0, <1>2, <1>3, AllNumbers
<1>5. Without(orders, ids) = f[Len(orders)] BY <1>1, WithoutIsRest
<1>q. QED BY <1>0, <1>4, <1>5

LEMMA RestOfOne ==
  ASSUME NEW orders \in Seq(Orders), NEW ids, NEW k \in 1 .. Len(orders),
         \A i \in 1 .. Len(orders) : orders[i].id \in ids <=> i # k
  PROVE  Without(orders, ids) = <<orders[k]>>
<1>0. Len(orders) \in Nat /\ k \in Nat /\ k >= 1 /\ k <= Len(orders) OBVIOUS
<1>1. PICK f : IsRest(f, orders, ids) BY RestExists
<1> DEFINE Kth == <<orders[k]>>
           G == {n \in Nat : n <= Len(orders) => f[n] = IF k <= n THEN Kth ELSE <<>>}
<1>2. 0 \in G BY <1>0, <1>1 DEF IsRest
<1>3. ASSUME NEW n \in Nat, n \in G PROVE n + 1 \in G
  <2> SUFFICES ASSUME n + 1 <= Len(orders) PROVE f[n + 1] = IF k <= n + 1 THEN Kth ELSE <<>>
    OBVIOUS
  <2>1. f[n + 1] = IF n + 1 # k THEN f[n] ELSE Append(f[n], orders[n + 1])
    BY <1>0, <1>1 DEF IsRest
  <2>2. f[n] = IF k <= n THEN Kth ELSE <<>> BY <1>0, <1>3
  <2>3. Append(<<>>, orders[k]) = Kth OBVIOUS
  <2> HIDE DEF Kth
  <2>4. CASE n + 1 = k BY <1>0, <2>1, <2>2, <2>3, <2>4
  <2>5. CASE n + 1 # k BY <1>0, <2>1, <2>2, <2>5
  <2>q. QED BY <2>4, <2>5
<1>4. Len(orders) \in G
  <2> HIDE DEF G
  <2>q. QED BY <1>0, <1>2, <1>3, AllNumbers
<1>5. Without(orders, ids) = f[Len(orders)] BY <1>1, WithoutIsRest
<1>q. QED BY <1>0, <1>4, <1>5

-----------------------------------------------------------------------------
(* Types: what a pass plans is a rung a side, and no two orders of a side are the *)
(* same one.                                                                      *)

QuotingTypes ==
  /\ mode \in Modes /\ others \in [Sides -> Books] /\ usd \in Usds /\ held \in BOOLEAN
  /\ spread \in Spreads /\ pooled \in Spreads /\ terms \in Spreads \cup {0}
  /\ mine \in [Sides -> Seq(Orders)] /\ \A s \in Sides : Distinct(mine[s])
  /\ pc \in {"idle", "orders", "drop", "plan", "cancel", "place", "end"}
  /\ live \subseteq Sides /\ side \in Sides
  /\ snap \in [Sides -> Seq(Orders)] /\ heldSnap \in BOOLEAN
  /\ plan \in [Sides -> SUBSET Rungs] /\ \A s \in Sides : AtMostOne(plan[s])
  /\ moves \in 0 .. MaxMoves /\ clean \in BOOLEAN /\ calm \in [Sides -> 0 .. 2]

LEMMA PlanOfRungs ==
  ASSUME usd \in Nat, NEW sides
  PROVE  /\ PlanOf(sides) \in [Sides -> SUBSET Rungs]
         /\ \A s \in Sides : AtMostOne(PlanOf(sides)[s])
<1> DEFINE quote(s) == IF s \notin sides THEN {} ELSE Quote(mode, Book(s), Ask[s], terms, usd)
           first == First(sides)
           fa == FirstOrders(quote(first), usd, MaxShares)
           fb(s) == SecondOrders(fa, quote(s), usd, MaxShares)
<1>1. MaxShares \in Nat
  BY QuotingAssumption
<1>2. \A s : quote(s) \in SUBSET Rungs /\ AtMostOne(quote(s))
  <2> TAKE s
  <2>1. CASE s \notin sides BY <2>1 DEF AtMostOne
  <2>2. CASE s \in sides BY <2>2, QuoteIsRung
  <2>q. QED BY <2>1, <2>2
<1>3. AtMostOne(fa) /\ \A s : AtMostOne(fb(s))
  <2> HIDE DEF quote, first
  <2>q. QED BY <1>2, CappedOne DEF FirstOrders, SecondOrders
<1>4. \A s : /\ fa \subseteq [price : Prices, shares : MinSize..MaxShares]
             /\ fb(s) \subseteq [price : Prices, shares : MinSize..MaxShares]
  <2> HIDE DEF quote, first
  <2>q. QED BY <1>1, <1>2, SharedExposure
<1>5. [price : Prices, shares : MinSize..MaxShares] \subseteq Rungs
  BY <1>1, LadderAssumption DEF Rungs
<1>6. fa \in SUBSET Rungs /\ \A s : fb(s) \in SUBSET Rungs
  <2> HIDE DEF fa, fb
  <2>q. QED BY <1>4, <1>5
<1>7. PlanOf(sides) = [s \in Sides |-> IF s = first THEN fa ELSE fb(s)]
  BY DEF PlanOf
<1> HIDE DEF first, fa, fb
<1>q. QED BY <1>3, <1>6, <1>7

\* An order that is placed has an id of its own.
LEMMA FreshIsUnused ==
  ASSUME Ids \ Used # {}
  PROVE  Fresh \in Ids /\ \A s \in Sides : \A i \in DOMAIN mine[s] : mine[s][i].id # Fresh
<1> DEFINE S == Ids \ Used
<1>1. S \in SUBSET Nat /\ S # {}
  BY QuotingAssumption DEF Ids
<1> HIDE DEF S
<1>2. \E n \in S : \A m \in S : n <= m
  BY <1>1, LeastOf
<1>3. Min(S) \in S
  BY <1>2 DEF Min
<1>4. \A s \in Sides : \A i \in DOMAIN mine[s] : mine[s][i].id \in Used
  BY DEF Used, IdsOf, Range
<1>q. QED BY <1>3, <1>4 DEF S, Fresh

LEMMA PlacedIsDistinct ==
  ASSUME NEW orders \in Seq(Orders), Distinct(orders), NEW o \in Orders,
         \A i \in 1 .. Len(orders) : orders[i].id # o.id
  PROVE  Append(orders, o) \in Seq(Orders) /\ Distinct(Append(orders, o))
<1> DEFINE new == Append(orders, o)
           L == Len(orders)
<1>1. /\ L \in Nat /\ new \in Seq(Orders) /\ Len(new) = L + 1 /\ new[L + 1] = o
      /\ \A i \in 1 .. L : new[i] = orders[i]
  OBVIOUS
<1> HIDE DEF new, L
<1>2. \A i \in 1 .. L : new[i].id # o.id
  BY <1>1 DEF L
<1>3. ASSUME NEW i \in 1 .. L, NEW j \in 1 .. L, new[i].id = new[j].id PROVE i = j
  BY <1>1, <1>3 DEF Distinct, L
<1>4. Distinct(new)
  <2> SUFFICES ASSUME NEW i \in 1 .. L + 1, NEW j \in 1 .. L + 1, new[i].id = new[j].id
               PROVE  i = j
    BY <1>1 DEF Distinct
  <2>1. (i = L + 1 \/ i \in 1 .. L) /\ (j = L + 1 \/ j \in 1 .. L) BY <1>1
  <2>q. QED BY <1>1, <1>2, <1>3, <2>1
<1>q. QED BY <1>1, <1>4 DEF new

LEMMA FilledIsDistinct ==
  ASSUME NEW orders \in Seq(Orders), Distinct(orders), NEW i \in DOMAIN orders,
         NEW k \in 1 .. orders[i].left
  PROVE  Filled(orders, i, k) \in Seq(Orders) /\ Distinct(Filled(orders, i, k))
<1> DEFINE new == Filled(orders, i, k)
<1>0. CASE k = orders[i].left
  BY <1>0, RestIsDistinct DEF Filled
<1> SUFFICES ASSUME k # orders[i].left PROVE new \in Seq(Orders) /\ Distinct(new)
  BY <1>0
<1>1. /\ Len(orders) \in Nat /\ DOMAIN orders = 1 .. Len(orders)
      /\ \A j \in 1 .. Len(orders) : orders[j] \in Orders
  OBVIOUS
<1>2. orders[i].left - k \in Nat
  BY <1>1 DEF Orders
<1> DEFINE left == orders[i].left - k
           o == [id |-> orders[i].id, price |-> orders[i].price, left |-> left, hit |-> TRUE,
                 judged |-> orders[i].judged]
<1>3. o \in Orders
  <2>1. orders[i].id \in Ids /\ orders[i].price \in Prices /\ orders[i].judged \in BOOLEAN
    BY <1>1 DEF Orders
  <2> HIDE DEF left
  <2>2. left \in Nat BY <1>2 DEF left
  <2>q. QED BY <2>1, <2>2 DEF Orders
<1>4. new = [orders EXCEPT ![i] = o]
  <2>0. new = [orders EXCEPT ![i].left = @ - k, ![i].hit = TRUE] BY DEF Filled
  <2> HIDE DEF new
  <2>1. DOMAIN new = DOMAIN orders BY <1>1, <2>0
  <2>2. new[i] = o
    <3>1. new[i] = [orders[i] EXCEPT !.left = @ - k, !.hit = TRUE] BY <1>1, <2>0
    <3>2. orders[i] \in Orders BY <1>1
    <3>q. QED BY <3>1, <3>2 DEF Orders
  <2>3. \A j \in DOMAIN orders \ {i} : new[j] = orders[j] BY <1>1, <2>0
  <2>4. new = [j \in DOMAIN orders |-> new[j]] BY <1>1, <2>0
  <2> HIDE DEF o
  <2>q. QED BY <1>1, <2>1, <2>2, <2>3, <2>4
<1>5. o.id = orders[i].id
  OBVIOUS
<1> HIDE DEF o, new
<1>6. new \in Seq(Orders) /\ Len(new) = Len(orders)
  <2>1. i \in 1 .. Len(orders) BY <1>1
  <2>2. [orders EXCEPT ![i] = o] \in Seq(Orders) /\ Len([orders EXCEPT ![i] = o]) = Len(orders)
    BY <1>3, <2>1, ExceptSeq, Zenon
  <2>q. QED BY <1>4, <2>2
<1>7. \A j \in 1 .. Len(orders) : new[j].id = orders[j].id
  BY <1>1, <1>4, <1>5
<1>q. QED BY <1>6, <1>7 DEF Distinct

LEMMA MarkedIsDistinct ==
  ASSUME NEW orders \in Seq(Orders), Distinct(orders), NEW id, NEW judged \in BOOLEAN
  PROVE  Marked(orders, id, judged) \in Seq(Orders) /\ Distinct(Marked(orders, id, judged))
<1> DEFINE new == Marked(orders, id, judged)
<1>1. /\ Len(orders) \in Nat /\ DOMAIN orders = 1 .. Len(orders)
      /\ \A i \in 1 .. Len(orders) : orders[i] \in Orders
  OBVIOUS
<1>2. /\ DOMAIN new = 1 .. Len(orders)
      /\ \A i \in 1 .. Len(orders) : new[i] \in Orders /\ new[i].id = orders[i].id
  BY <1>1 DEF Marked, Orders
<1>3. new = [i \in 1 .. Len(orders) |-> new[i]]
  BY <1>1 DEF Marked
<1> HIDE DEF new
<1>4. new \in [1 .. Len(orders) -> Orders]
  BY <1>2, <1>3
<1>5. new \in Seq(Orders) /\ Len(new) = Len(orders)
  BY <1>1, <1>4
<1>q. QED BY <1>2, <1>5 DEF Distinct, new

\* Whatever orders are gone, those that rest are still orders and distinct.
LEMMA GoneIsTyped ==
  ASSUME NEW f \in [Sides -> Seq(Orders)], \A s \in Sides : Distinct(f[s]), NEW t \in Sides,
         NEW ids
  PROVE  /\ [f EXCEPT ![t] = Without(@, ids)] \in [Sides -> Seq(Orders)]
         /\ \A s \in Sides : Distinct([f EXCEPT ![t] = Without(@, ids)][s])
<1>1. Without(f[t], ids) \in Seq(Orders) /\ Distinct(Without(f[t], ids))
  BY RestIsDistinct
<1>q. QED BY <1>1

LEMMA NothingIsTyped ==
  /\ NoOrders \in [Sides -> Seq(Orders)] /\ \A s \in Sides : Distinct(NoOrders[s])
  /\ NoRungs \in [Sides -> SUBSET Rungs] /\ \A s \in Sides : AtMostOne(NoRungs[s])
<1>1. <<>> \in Seq(Orders) /\ Distinct(<<>>)
  BY DEF Distinct
<1>q. QED BY <1>1 DEF NoOrders, NoRungs, AtMostOne

LEMMA FillTypes ==
  ASSUME QuotingTypes, NEW s \in Sides, NEW i \in DOMAIN mine[s], Fill(s, i)
  PROVE  mine' \in [Sides -> Seq(Orders)] /\ \A t \in Sides : Distinct(mine'[t])
<1>0. mine \in [Sides -> Seq(Orders)] /\ \A t \in Sides : Distinct(mine[t])
  BY DEF QuotingTypes
<1>1. PICK k \in 1 .. mine[s][i].left : mine' = [mine EXCEPT ![s] = Filled(@, i, k)]
  BY DEF Fill
<1>2. Filled(mine[s], i, k) \in Seq(Orders) /\ Distinct(Filled(mine[s], i, k))
  BY <1>0, FilledIsDistinct
<1>q. QED BY <1>0, <1>1, <1>2

LEMMA PlaceTypes ==
  ASSUME QuotingTypes, PlaceMissing
  PROVE  mine' \in [Sides -> Seq(Orders)] /\ \A t \in Sides : Distinct(mine'[t])
<1>0. /\ mine \in [Sides -> Seq(Orders)] /\ \A t \in Sides : Distinct(mine[t])
      /\ side \in Sides /\ plan[side] \subseteq Rungs
  BY DEF QuotingTypes
<1>1. PICK r \in Missing :
        /\ Ids \ Used # {}
        /\ mine' = [mine EXCEPT ![side] =
             Append(@, Placed(r))]
  BY DEF PlaceMissing
<1>2. r \in Rungs
  BY <1>0 DEF Missing, ToPlace
<1> DEFINE o == Placed(r)
<1>3. /\ Fresh \in Ids
      /\ \A i \in DOMAIN mine[side] : mine[side][i].id # Fresh
  BY <1>0, <1>1, FreshIsUnused
<1>4. o \in Orders
  BY <1>2, <1>3 DEF Orders, Rungs, Placed
<1>5. \A i \in 1 .. Len(mine[side]) : mine[side][i].id # o.id
  BY <1>0, <1>3 DEF Placed
<1> HIDE DEF o
<1>6. Append(mine[side], o) \in Seq(Orders) /\ Distinct(Append(mine[side], o))
  BY <1>0, <1>4, <1>5, PlacedIsDistinct
<1>7. mine' = [mine EXCEPT ![side] = Append(mine[side], o)]
  BY <1>0, <1>1 DEF o
<1>q. QED BY <1>0, <1>6, <1>7

LEMMA QuotingStepTypes ==
  ASSUME QuotingTypes, [Next]_vars
  PROVE  QuotingTypes'
<1>m. MaxMoves \in Nat /\ Usds \subseteq Nat
  BY QuotingAssumption
<1>1. CASE UNCHANGED vars
  BY <1>1 DEF QuotingTypes, vars, worldVars, passVars
<1>d. Disturbed => clean' = FALSE /\ calm' \in [Sides -> 0 .. 2]
  BY DEF Disturbed
<1>v. Moves => moves' \in 0 .. MaxMoves /\ clean' = FALSE /\ calm' \in [Sides -> 0 .. 2]
  BY <1>m, <1>d DEF Moves, QuotingTypes
<1>2. CASE World
  <2>1. CASE UsdMoves
    BY <1>v, <2>1 DEF UsdMoves, passVars, QuotingTypes
  <2>2. CASE SellOut
    BY <1>v, <2>2 DEF SellOut, passVars, QuotingTypes
  <2>3. ASSUME NEW s \in Sides, BookMoves(s) PROVE QuotingTypes'
    <3>1. others' \in [Sides -> Books]
      BY <2>3, QuotingAssumption DEF BookMoves, QuotingTypes
    <3>q. QED BY <1>v, <2>3, <3>1 DEF BookMoves, passVars, QuotingTypes
  <2>4. ASSUME NEW s \in Sides, NEW i \in DOMAIN mine[s], Fill(s, i) PROVE QuotingTypes'
    <3>1. mine' \in [Sides -> Seq(Orders)] /\ \A t \in Sides : Distinct(mine'[t])
      BY <2>4, FillTypes
    <3>2. /\ held' = TRUE /\ Moves /\ UNCHANGED <<mode, others, usd, spread, pooled, passVars>>
      BY <2>4 DEF Fill
    <3>q. QED BY <1>v, <3>1, <3>2 DEF passVars, QuotingTypes
  <2>5. CASE SpreadMoves
    BY <1>v, <2>5 DEF SpreadMoves, passVars, QuotingTypes
  <2>q. QED BY <1>2, <2>1, <2>2, <2>3, <2>4, <2>5 DEF World
<1>r. CASE Rediscovers
  BY <1>d, <1>r DEF Rediscovers, passVars, QuotingTypes
<1>3. CASE Monitor
  <2>0. PICK s \in Sides : \E o \in OrdersOf(s) :
          CancelRemainder(s, o) \/ Judge(s, o) \/ CancelJudged(s, o) \/ CancelFails(s, o)
    BY <1>3 DEF Monitor
  <2>1. PICK o \in OrdersOf(s) :
          CancelRemainder(s, o) \/ Judge(s, o) \/ CancelJudged(s, o) \/ CancelFails(s, o)
    BY <2>0
  <2>2. Disturbed /\ UNCHANGED <<worldVars, moves, passVars>>
    BY <2>1 DEF CancelRemainder, Judge, CancelJudged, CancelFails, Cancelled
  <2>3. \/ mine' = [mine EXCEPT ![s] = Without(@, {o.id})]
        \/ \E judged \in BOOLEAN : mine' = [mine EXCEPT ![s] = Marked(@, o.id, judged)]
    BY <2>1 DEF CancelRemainder, Judge, CancelJudged, CancelFails, Cancelled
  <2>4. mine \in [Sides -> Seq(Orders)] /\ \A t \in Sides : Distinct(mine[t])
    BY DEF QuotingTypes
  <2>5. mine' \in [Sides -> Seq(Orders)] /\ \A t \in Sides : Distinct(mine'[t])
    <3>1. CASE mine' = [mine EXCEPT ![s] = Without(@, {o.id})]
      BY <2>4, <3>1, GoneIsTyped
    <3>2. ASSUME NEW judged \in BOOLEAN, mine' = [mine EXCEPT ![s] = Marked(@, o.id, judged)]
          PROVE  mine' \in [Sides -> Seq(Orders)] /\ \A t \in Sides : Distinct(mine'[t])
      <4>1. Marked(mine[s], o.id, judged) \in Seq(Orders) /\ Distinct(Marked(mine[s], o.id, judged))
        BY <2>4, MarkedIsDistinct
      <4>q. QED BY <2>4, <3>2, <4>1
    <3>q. QED BY <2>3, <3>1, <3>2
  <2>q. QED BY <1>d, <2>2, <2>5 DEF worldVars, passVars, QuotingTypes
<1>o. PassOver => /\ pc' = "idle" /\ live' = {} /\ terms' = 0 /\ side' = "a" /\ heldSnap' = FALSE
                  /\ snap' \in [Sides -> Seq(Orders)]
                  /\ plan' \in [Sides -> SUBSET Rungs] /\ \A s \in Sides : AtMostOne(plan'[s])
  BY NothingIsTyped DEF PassOver
<1>n. ASSUME NextSide
      PROVE  /\ side' \in Sides /\ pc' \in {"cancel", "end"}
             /\ snap' \in [Sides -> Seq(Orders)]
             /\ UNCHANGED <<worldVars, moves, live, terms, heldSnap, plan, calm>>
  <2>1. <<>> \in Seq(Orders) OBVIOUS
  <2>q. QED BY <1>n, <2>1 DEF NextSide, QuotingTypes, Sides
<1>4. CASE Pass
  <2>1. CASE PassBegins
    BY <2>1 DEF PassBegins, worldVars, QuotingTypes
  <2>2. CASE ReadOrders
    BY <2>2 DEF ReadOrders, worldVars, QuotingTypes
  <2>3. CASE ReadFails
    BY <1>o, <2>3 DEF ReadFails, worldVars, QuotingTypes, Sides
  <2>4. CASE DropBuys
    <3>1. PICK gone : Drops(gone)
      BY <2>4 DEF DropBuys
    <3>2. \A s \in Sides : mine'[s] \in Seq(Orders) /\ Distinct(mine'[s])
      BY <3>1, RestIsDistinct DEF Drops, QuotingTypes
    <3>3. mine' \in [Sides -> Seq(Orders)]
      BY <3>1, <3>2 DEF Drops
    <3>4. clean' \in BOOLEAN
      BY <3>1 DEF Drops, QuotingTypes
    <3>q. QED BY <3>1, <3>2, <3>3, <3>4 DEF Drops, worldVars, QuotingTypes
  <2>5. CASE PlanOrders
    <3>1. PICK got \in SUBSET live : PlanFrom(got)
      BY <2>5 DEF PlanOrders
    <3> DEFINE sides == {s \in got : Levels(Book(s)) # {}}
    <3>0. sides \subseteq live
      OBVIOUS
    <3> HIDE DEF sides
    <3>2. clean' \in BOOLEAN /\ UNCHANGED <<worldVars, moves, mine, calm>>
      BY <3>1 DEF PlanFrom, QuotingTypes
    <3>3. CASE PassOver
      BY <1>o, <3>2, <3>3 DEF worldVars, QuotingTypes, Sides
    <3>4. CASE ~ PassOver
      <4>1. /\ live' = sides /\ side' = First(sides) /\ pc' = "cancel"
            /\ plan' = IF heldSnap THEN NoRungs ELSE PlanOf(sides)
            /\ UNCHANGED <<terms, snap, heldSnap>>
        BY <3>1, <3>4 DEF PlanFrom, sides
      <4>2. plan' \in [Sides -> SUBSET Rungs] /\ \A s \in Sides : AtMostOne(plan'[s])
        BY <1>m, <4>1, NothingIsTyped, PlanOfRungs DEF QuotingTypes
      <4>3. side' \in Sides
        BY <4>1 DEF First, Sides
      <4>q. QED BY <3>0, <3>2, <4>1, <4>2, <4>3 DEF worldVars, QuotingTypes
    <3>q. QED BY <3>3, <3>4
  <2>6. CASE CancelReplaced
    <3>1. PICK gone : Cancels(gone)
      BY <2>6 DEF CancelReplaced
    <3>2. mine' \in [Sides -> Seq(Orders)] /\ \A t \in Sides : Distinct(mine'[t])
      BY <3>1, GoneIsTyped DEF Cancels, QuotingTypes
    <3>3. clean' \in BOOLEAN
      BY <3>1 DEF Cancels, QuotingTypes
    <3>q. QED BY <3>1, <3>2, <3>3 DEF Cancels, worldVars, QuotingTypes
  <2>7. CASE PlaceMissing
    <3>1. mine' \in [Sides -> Seq(Orders)] /\ \A t \in Sides : Distinct(mine'[t])
      BY <2>7, PlaceTypes
    <3>2. NextSide /\ clean' = clean
      BY <2>7 DEF PlaceMissing
    <3>q. QED BY <1>n, <3>1, <3>2 DEF worldVars, QuotingTypes
  <2>8. CASE PlaceRejected
    BY <1>n, <2>8 DEF PlaceRejected, worldVars, QuotingTypes
  <2>9. CASE NothingMissing
    BY <1>n, <2>9 DEF NothingMissing, worldVars, QuotingTypes
  <2>10. CASE PassEnds
    <3>1. \A n \in 0 .. 2 : Min({2, n + 1}) \in 0 .. 2
      <4>1. \A n \in 0 .. 2 : \E m \in {2, n + 1} : \A k \in {2, n + 1} : m <= k
        OBVIOUS
      <4>q. QED BY <4>1 DEF Min
    <3>2. calm' \in [Sides -> 0 .. 2]
      <4> DEFINE count(s) == IF ~clean THEN 0 ELSE IF s \in live THEN Min({2, calm[s] + 1}) ELSE calm[s]
      <4>1. \A s \in Sides : calm[s] \in 0 .. 2 BY DEF QuotingTypes
      <4>2. \A s \in Sides : count(s) \in 0 .. 2 BY <3>1, <4>1
      <4>3. calm' = [s \in Sides |-> count(s)] BY <2>10 DEF PassEnds
      <4> HIDE DEF count
      <4>q. QED BY <4>2, <4>3
    <3>q. QED BY <1>o, <2>10, <3>2 DEF PassEnds, worldVars, QuotingTypes, Sides
  <2>q. QED BY <1>4, <2>1, <2>2, <2>3, <2>4, <2>5, <2>6, <2>7, <2>8, <2>9, <2>10 DEF Pass
<1>q. QED BY <1>1, <1>2, <1>r, <1>3, <1>4 DEF Next

LEMMA QuotingStartsTyped == Init => QuotingTypes
<1> SUFFICES ASSUME Init PROVE QuotingTypes
  OBVIOUS
<1>1. others \in [Sides -> Books]
  BY QuotingAssumption DEF Init
<1>2. 0 \in 0 .. MaxMoves
  BY QuotingAssumption
<1>3. /\ mode \in Modes /\ usd \in Usds /\ held = FALSE
      /\ spread \in Spreads /\ pooled \in Spreads /\ terms = 0 /\ mine = NoOrders /\ moves = 0
      /\ pc = "idle" /\ live = {} /\ snap = NoOrders /\ heldSnap = FALSE
      /\ plan = NoRungs /\ side = "a" /\ clean = FALSE /\ calm \in [Sides -> 0 .. 2]
  BY DEF Init
<1>4. side \in Sides
  BY <1>3 DEF Sides
<1>q. QED BY <1>1, <1>2, <1>3, <1>4, NothingIsTyped DEF QuotingTypes

\* The state of the passes is of its types, and every resting buy has an id of its own,
\* however placing, fills, Step 3 and failed cancellations take turns (manager.py
\* 600-724, monitor.py 1600-1650).
THEOREM QuotingTypeCorrect == Spec => []QuotingTypes
<1>1. QuotingTypes /\ [Next]_vars => QuotingTypes'
  BY QuotingStepTypes
<1>q. QED BY <1>1, QuotingStartsTyped, PTL DEF Spec

-----------------------------------------------------------------------------
(* What an undisturbed pass leaves. *)

\* The side rests as it is planned.
Served(s) ==
  /\ Len(mine[s]) = Cardinality(plan[s])
  /\ \A r \in plan[s] : \E o \in OrdersOf(s) : Fits(o, r, SizeTolerance)

\* What a pass that nothing disturbed knows and has done, side by side: before its
\* turn a side rests as the snapshot shows it, after it as it is planned.  Between
\* the cancellation and the order, it does so, or nothing rests and nothing was kept.
TurnsInv ==
  clean =>
    /\ pc \in {"plan", "drop"} => snap = mine
    /\ pc = "drop" => live = {}
    /\ pc = "cancel" => snap[side] = mine[side]
    /\ pc = "place" =>
         IF Missing = {} THEN Served(side) ELSE Missing = plan[side] /\ mine[side] = <<>>
    /\ pc \in {"cancel", "place"} =>
         /\ side \in live
         /\ side = "a" /\ "b" \in live => snap["b"] = mine["b"]
         /\ side = "b" /\ "a" \in live => Served("a")
    /\ pc = "end" => \A s \in live : Served(s)

\* The reconciliation of a side: either no order is kept, and all of the plan is to be
\* placed, or the one that is kept is what the plan asks for, and nothing is.
LEMMA Reconciled ==
  ASSUME NEW orders \in Seq(Orders), Distinct(orders),
         NEW rungs \in SUBSET Rungs, AtMostOne(rungs), NEW tol
  PROVE  LET rest == Without(orders, ToCancel(rungs, orders, tol))
             missing == ToPlace(rungs, orders, tol)
         IN  \/ rest = <<>> /\ missing = rungs
             \/ /\ missing = {}
                /\ \E r \in rungs : \E o \in Orders : rest = <<o>> /\ Fits(o, r, tol)
<1> DEFINE kept == Kept(rungs, orders, tol)
           gone == ToCancel(rungs, orders, tol)
           missing == ToPlace(rungs, orders, tol)
           rest == Without(orders, gone)
<1>0. /\ Len(orders) \in Nat /\ DOMAIN orders = 1 .. Len(orders)
      /\ \A i \in 1 .. Len(orders) : orders[i] \in Orders
  OBVIOUS
<1>1. gone = {orders[i].id : i \in (1 .. Len(orders)) \ kept}
  BY <1>0 DEF ToCancel
<1>2. missing = {r \in rungs : \A i \in kept : orders[i].price # r.price}
  BY DEF ToPlace
<1>3. kept = {i \in 1 .. Len(orders) : \E r \in rungs :
                Fits(orders[i], r, tol) /\ \A j \in 1 .. (i - 1) : ~ Fits(orders[j], r, tol)}
  BY <1>0 DEF Kept
<1> HIDE DEF gone, missing, kept
<1>4. CASE kept = {}
  <2>1. missing = rungs BY <1>2, <1>4
  <2>2. \A i \in 1 .. Len(orders) : orders[i].id \in gone BY <1>1, <1>4
  <2>3. rest = <<>> BY <2>2, RestOfNone
  <2>q. QED BY <2>1, <2>3 DEF gone, missing
<1>5. CASE kept # {}
  <2>1. PICK k \in kept : TRUE BY <1>5
  <2>2. PICK r \in rungs : /\ Fits(orders[k], r, tol)
                           /\ \A j \in 1 .. (k - 1) : ~ Fits(orders[j], r, tol)
    BY <1>3, <2>1
  <2>3. \A q \in rungs : q = r BY DEF AtMostOne
  <2>4. k \in 1 .. Len(orders) BY <1>3, <2>1
  <2>5. \A i \in kept : i = k
    <3> SUFFICES ASSUME NEW i \in kept PROVE i = k
      OBVIOUS
    <3>1. /\ i \in 1 .. Len(orders) /\ Fits(orders[i], r, tol)
          /\ \A j \in 1 .. (i - 1) : ~ Fits(orders[j], r, tol)
      BY <1>3, <2>3
    <3>2. ~ (k < i) BY <2>2, <2>4, <3>1
    <3>3. ~ (i < k) BY <2>2, <2>4, <3>1
    <3>q. QED BY <2>4, <3>1, <3>2, <3>3
  <2>6. \A i \in 1 .. Len(orders) : orders[i].id \in gone <=> i # k
    <3>1. gone = {orders[i].id : i \in (1 .. Len(orders)) \ {k}} BY <1>1, <2>1, <2>5
    <3>q. QED BY <2>4, <3>1 DEF Distinct
  <2>7. rest = <<orders[k]>> BY <2>4, <2>6, RestOfOne
  <2>8. orders[k].price = r.price BY <2>2 DEF Fits
  <2>9. missing = {} BY <1>2, <2>1, <2>3, <2>8
  <2>q. QED BY <1>0, <2>2, <2>4, <2>7, <2>9 DEF gone, missing
<1>q. QED BY <1>4, <1>5

\* Of a plan of at most one rung, one order that fits, or no order if there is none, is
\* all of it.
LEMMA OneOrderServes ==
  ASSUME NEW rungs \in SUBSET Rungs, AtMostOne(rungs), NEW tol, NEW orders,
         \/ orders = <<>> /\ rungs = {}
         \/ \E r \in rungs : \E o \in Orders : orders = <<o>> /\ Fits(o, r, tol)
  PROVE  /\ Len(orders) = Cardinality(rungs)
         /\ \A r \in rungs : \E o \in Range(orders) : Fits(o, r, tol)
<1>1. CASE orders = <<>> /\ rungs = {}
  BY <1>1, FS_EmptySet
<1>2. ASSUME NEW r \in rungs, NEW o \in Orders, orders = <<o>>, Fits(o, r, tol)
      PROVE  /\ Len(orders) = Cardinality(rungs)
             /\ \A q \in rungs : \E p \in Range(orders) : Fits(p, q, tol)
  <2>1. rungs = {r} BY DEF AtMostOne
  <2>2. Cardinality(rungs) = 1 BY <2>1, FS_Singleton
  <2>3. Len(orders) = 1 /\ o \in Range(orders) BY <1>2 DEF Range
  <2>q. QED BY <1>2, <2>1, <2>2, <2>3
<1>q. QED BY <1>1, <1>2

\* An order that is placed fits its rung.
LEMMA PlacedFits ==
  ASSUME NEW r \in Rungs, NEW o, o.price = r.price, o.left = r.shares, NEW tol
  PROVE  Fits(o, r, tol)
<1>1. r.shares \in Nat
  BY DEF Rungs
<1>2. Distance(o.left, r.shares) = 0
  BY <1>1 DEF Distance
<1>q. QED BY <1>2 DEF Fits

LEMMA ServedStays ==
  ASSUME NEW s \in Sides, Served(s), mine'[s] = mine[s], plan' = plan, mode' = mode
  PROVE  Served(s)'
BY DEF Served, OrdersOf, SizeTolerance

\* Once its side is served, a pass goes to the next side, or is over.
LEMMA NextSideStep ==
  ASSUME QuotingTypes, TurnsInv, clean, pc = "place", NextSide,
         NEW s \in Sides, s = side, Served(s)',
         \A t \in Sides : t # s => mine'[t] = mine[t]
  PROVE  TurnsInv'
<1>1. /\ side \in Sides /\ side \in live /\ live \subseteq Sides
      /\ side = "a" /\ "b" \in live => snap["b"] = mine["b"]
      /\ side = "b" /\ "a" \in live => Served("a")
  BY DEF TurnsInv, QuotingTypes
<1>2. /\ plan' = plan /\ live' = live /\ mode' = mode
      /\ snap' = [snap EXCEPT ![side] = <<>>] /\ snap \in [Sides -> Seq(Orders)]
  BY DEF NextSide, worldVars, QuotingTypes
<1>3. CASE side = "a" /\ "b" \in live
  <2>1. side' = "b" /\ pc' = "cancel"
    BY <1>3 DEF NextSide
  <2>2. snap'["b"] = snap["b"] /\ mine'["b"] = mine["b"]
    BY <1>2, <1>3 DEF Sides
  <2>3. Served("a")'
    BY <1>3
  <2>q. QED BY <1>1, <1>2, <1>3, <2>1, <2>2, <2>3 DEF TurnsInv
<1>4. CASE ~ (side = "a" /\ "b" \in live)
  <2>1. pc' = "end"
    BY <1>4 DEF NextSide
  <2>2. ASSUME NEW t \in live PROVE Served(t)'
    <3>1. CASE t = side
      BY <3>1
    <3>2. CASE t # side
      <4>1. t = "a" /\ side = "b"
        BY <1>1, <1>4, <3>2 DEF Sides
      <4>2. Served("a") /\ mine'["a"] = mine["a"] /\ "a" \in Sides
        BY <1>1, <2>2, <4>1 DEF Sides
      <4>q. QED BY <1>2, <4>1, <4>2, ServedStays
    <3>q. QED BY <3>1, <3>2
  <2>3. \A t \in live' : Served(t)'
    BY <1>2, <2>2
  <2>q. QED BY <2>1, <2>3 DEF TurnsInv
<1>q. QED BY <1>3, <1>4

LEMMA CancelTurn ==
  ASSUME QuotingTypes, TurnsInv, CancelReplaced
  PROVE  TurnsInv'
<1> SUFFICES ASSUME clean' PROVE TurnsInv'
  BY DEF TurnsInv
<1>0. /\ clean /\ Cancels(Replaced)
  BY DEF CancelReplaced, Cancels
<1>1. /\ side \in Sides /\ side \in live /\ snap[side] = mine[side]
      /\ side = "a" /\ "b" \in live => snap["b"] = mine["b"]
      /\ side = "b" /\ "a" \in live => Served("a")
  BY <1>0 DEF TurnsInv, QuotingTypes, Cancels
<1>2. /\ mine' = [mine EXCEPT ![side] = Without(@, Replaced)] /\ pc' = "place"
      /\ plan' = plan /\ live' = live /\ mode' = mode /\ snap' = snap /\ side' = side
      /\ mine \in [Sides -> Seq(Orders)]
  BY <1>0 DEF Cancels, worldVars, QuotingTypes
<1>3. PICK s \in Sides : s = side
  BY <1>1
<1> DEFINE rest == Without(mine[s], ToCancel(plan[s], mine[s], SizeTolerance))
           missing == ToPlace(plan[s], mine[s], SizeTolerance)
<1>4. mine'[s] = rest
  BY <1>1, <1>2, <1>3 DEF Replaced
<1>5. SizeTolerance' = SizeTolerance
  BY <1>2 DEF SizeTolerance
<1>6. Missing' = missing
  BY <1>1, <1>2, <1>3, <1>5 DEF Missing
<1>7. /\ mine[s] \in Seq(Orders) /\ Distinct(mine[s])
      /\ plan[s] \in SUBSET Rungs /\ AtMostOne(plan[s])
  BY DEF QuotingTypes
<1>8. \/ rest = <<>> /\ missing = plan[s]
      \/ /\ missing = {}
         /\ \E r \in plan[s] : \E o \in Orders : rest = <<o>> /\ Fits(o, r, SizeTolerance)
  BY <1>7, Reconciled
<1> HIDE DEF rest, missing
<1>9. missing = {} => Served(s)'
  <2> SUFFICES ASSUME missing = {} PROVE Served(s)'
    OBVIOUS
  <2>1. \/ rest = <<>> /\ plan[s] = {}
        \/ \E r \in plan[s] : \E o \in Orders : rest = <<o>> /\ Fits(o, r, SizeTolerance)
    BY <1>8
  <2>2. /\ Len(rest) = Cardinality(plan[s])
        /\ \A r \in plan[s] : \E o \in Range(rest) : Fits(o, r, SizeTolerance)
    <3> DEFINE rungs == plan[s]
               tol == SizeTolerance
    <3>1. /\ rungs \in SUBSET Rungs /\ AtMostOne(rungs)
          /\ \/ rest = <<>> /\ rungs = {}
             \/ \E r \in rungs : \E o \in Orders : rest = <<o>> /\ Fits(o, r, tol)
      BY <1>7, <2>1
    <3> HIDE DEF rungs, tol
    <3>2. /\ Len(rest) = Cardinality(rungs)
          /\ \A r \in rungs : \E o \in Range(rest) : Fits(o, r, tol)
      BY <3>1, OneOrderServes
    <3>q. QED BY <3>2 DEF rungs, tol
  <2>q. QED BY <1>2, <1>4, <1>5, <2>2 DEF Served, OrdersOf
<1>10. missing # {} => missing = plan[s] /\ mine'[s] = <<>>
  BY <1>4, <1>8
<1>11. side' = "b" /\ "a" \in live' => Served("a")'
  <2> SUFFICES ASSUME side = "b", "a" \in live PROVE Served("a")'
    BY <1>2
  <2>1. Served("a") /\ mine'["a"] = mine["a"] /\ "a" \in Sides
    BY <1>1, <1>2 DEF Sides
  <2>q. QED BY <1>2, <2>1, ServedStays
<1>12. side' = "a" /\ "b" \in live' => snap'["b"] = mine'["b"]
  BY <1>1, <1>2 DEF Sides
<1>13. IF Missing' = {} THEN Served(side)'
       ELSE Missing' = plan'[side'] /\ mine'[side'] = <<>>
  <2>1. CASE missing = {}
    <3>1. Served(side)' BY <1>2, <1>3, <1>9, <2>1 DEF Served, OrdersOf
    <3>q. QED BY <1>6, <2>1, <3>1
  <2>2. CASE missing # {}
    BY <1>2, <1>3, <1>6, <1>10, <2>2
  <2>q. QED BY <2>1, <2>2
<1>q. QED BY <1>1, <1>2, <1>11, <1>12, <1>13 DEF TurnsInv

LEMMA PlaceTurn ==
  ASSUME QuotingTypes, TurnsInv, PlaceMissing \/ NothingMissing
  PROVE  TurnsInv'
<1> SUFFICES ASSUME clean' PROVE TurnsInv'
  BY DEF TurnsInv
<1>0. clean /\ pc = "place" /\ NextSide
  BY DEF PlaceMissing, NothingMissing
<1>1. PICK s \in Sides : s = side
  BY DEF QuotingTypes
<1>2. /\ IF Missing = {} THEN Served(side) ELSE Missing = plan[side] /\ mine[side] = <<>>
      /\ plan' = plan /\ mode' = mode
      /\ plan[s] \in SUBSET Rungs /\ AtMostOne(plan[s]) /\ mine \in [Sides -> Seq(Orders)]
  BY <1>0 DEF TurnsInv, QuotingTypes, NextSide, worldVars
<1>3. CASE NothingMissing
  <2>1. mine' = mine /\ Missing = {}
    BY <1>3 DEF NothingMissing
  <2>2. Served(s)
    BY <1>1, <1>2, <2>1
  <2>3. Served(s)'
    BY <1>2, <2>1, <2>2, ServedStays
  <2>q. QED BY <1>0, <1>1, <2>1, <2>3, NextSideStep
<1>4. CASE PlaceMissing
  <2>1. PICK r \in Missing :
          /\ Ids \ Used # {}
          /\ mine' = [mine EXCEPT ![side] =
               Append(@, Placed(r))]
    BY <1>4 DEF PlaceMissing
  <2> DEFINE o == Placed(r)
  <2>2. r \in plan[s] /\ r \in Rungs /\ mine[s] = <<>>
    BY <1>1, <1>2, <2>1
  <2>3. o \in Orders
    BY <2>1, <2>2, FreshIsUnused DEF Orders, Rungs, Placed
  <2>4. Fits(o, r, SizeTolerance)
    BY <2>2, PlacedFits DEF Placed
  <2> HIDE DEF o
  <2>5. mine'[s] = <<o>> /\ \A t \in Sides : t # s => mine'[t] = mine[t]
    <3>1. mine' = [mine EXCEPT ![s] = Append(@, o)]
      BY <1>1, <2>1 DEF o
    <3>2. Append(<<>>, o) = <<o>>
      OBVIOUS
    <3>q. QED BY <1>1, <1>2, <2>2, <3>1, <3>2
  <2>6. /\ Len(<<o>>) = Cardinality(plan[s])
        /\ \A q \in plan[s] : \E p \in Range(<<o>>) : Fits(p, q, SizeTolerance)
    BY <1>2, <2>2, <2>3, <2>4, OneOrderServes
  <2>7. Served(s)'
    BY <1>2, <2>5, <2>6 DEF Served, OrdersOf, SizeTolerance
  <2>q. QED BY <1>0, <1>1, <2>5, <2>7, NextSideStep
<1>q. QED BY <1>3, <1>4

LEMMA TurnsStep ==
  ASSUME QuotingTypes, TurnsInv, [Next]_vars
  PROVE  TurnsInv'
<1>0. ~ clean' => TurnsInv'
  BY DEF TurnsInv
<1>i. pc' = "idle" => TurnsInv'
  BY DEF TurnsInv
<1>1. CASE UNCHANGED vars
  BY <1>1 DEF TurnsInv, Served, OrdersOf, SizeTolerance, Missing, vars, worldVars, passVars
<1>2. CASE World
  BY <1>0, <1>2 DEF World, UsdMoves, SellOut, SpreadMoves, BookMoves, Fill, Moves, Disturbed
<1>3. CASE Monitor \/ Rediscovers
  BY <1>0, <1>3 DEF Monitor, CancelRemainder, Judge, CancelJudged, CancelFails, Cancelled, Disturbed,
                    Rediscovers
<1>4. CASE PassBegins
  BY <1>4 DEF PassBegins, TurnsInv
<1>5. CASE ReadOrders
  BY <1>5 DEF ReadOrders, worldVars, TurnsInv
<1>6. CASE ReadFails \/ PassEnds
  BY <1>i, <1>6 DEF ReadFails, PassEnds, PassOver
<1>7. CASE DropBuys
  <2>1. PICK gone : Drops(gone)
    BY <1>7 DEF DropBuys
  <2>2. pc = "drop" /\ pc' = "end" /\ live' = live /\ (clean' => clean)
    BY <2>1 DEF Drops
  <2>q. QED BY <2>2 DEF TurnsInv
<1>8. CASE PlanOrders
  <2> SUFFICES ASSUME clean', pc' # "idle" PROVE TurnsInv'
    BY <1>0, <1>i
  <2>1. PICK got \in SUBSET live : PlanFrom(got)
    BY <1>8 DEF PlanOrders
  <2> DEFINE sides == {s \in got : Levels(Book(s)) # {}}
  <2>2. sides \subseteq Sides
    BY DEF QuotingTypes
  <2> HIDE DEF sides
  <2>3. /\ sides # {} /\ live' = sides /\ side' = First(sides) /\ pc' = "cancel"
        /\ snap' = snap /\ mine' = mine /\ pc = "plan" /\ clean
    BY <2>1 DEF PlanFrom, PassOver, sides
  <2>4. snap' = mine'
    BY <2>3 DEF TurnsInv
  <2>5. side' \in live' /\ (side' = "b" => "a" \notin live')
    BY <2>2, <2>3 DEF First, Sides
  <2>q. QED BY <2>3, <2>4, <2>5 DEF TurnsInv
<1>9. CASE CancelReplaced
  BY <1>9, CancelTurn
<1>10. CASE PlaceMissing \/ NothingMissing
  BY <1>10, PlaceTurn
<1>11. CASE PlaceRejected
  BY <1>0, <1>11 DEF PlaceRejected
<1>q. QED BY <1>1, <1>2, <1>3, <1>4, <1>5, <1>6, <1>7, <1>8, <1>9, <1>10, <1>11 DEF Next, Pass

\* A pass that nothing disturbed leaves, on each side it quotes, one order for its rung
\* and no other, in either mode, whatever the books and whatever rested before
\* (reconcile_buy_orders, manager.py 600-724).
THEOREM PassesConverge == Spec => Converges
<1>1. Init => TurnsInv
  BY DEF Init, TurnsInv
<1>2. QuotingTypes /\ TurnsInv /\ [Next]_vars => QuotingTypes' /\ TurnsInv'
  BY QuotingStepTypes, TurnsStep
<1>3. TurnsInv /\ [Next]_vars =>
        [PassEnds /\ clean => \A s \in live :
           /\ Len(mine[s]) = Cardinality(plan[s])
           /\ \A r \in plan[s] : \E o \in OrdersOf(s) : Fits(o, r, SizeTolerance)]_vars
  BY DEF PassEnds, TurnsInv, Served
<1>q. QED BY <1>1, <1>2, <1>3, QuotingStartsTyped, PTL DEF Spec, Converges

=============================================================================
