------------------------------- MODULE Ladder -------------------------------
(***************************************************************************)
(* Which buys a market deserves: the price each side gets from its book    *)
(* (engine/laddering.py, engine/legacy_wall.py), the exposure both sides   *)
(* share, and the reconciliation of the target with the orders that rest.  *)
(*                                                                         *)
(* Prices are cents, sizes are shares; the spread of the reward range (hs, *)
(* rewards_max_spread) is in half cents, and the bounds of the range, that *)
(* lie on half cents, are given doubled.  The code rounds away what        *)
(* floating point adds to a price; a book here is exact.  A book is a      *)
(* function from prices to the shares bid there, 0 where there is no level.*)
(***************************************************************************)
EXTENDS Integers, FiniteSets, Sequences, FiniteSetsExt

CONSTANTS
  Prices,        \* the prices an order can have, in cents
  MinSize,       \* rewards_min_size, the size of the tier
  TierShares,    \* shares of the tier: what gap_single asks
  Table,         \* amount_value_table: per upper price, the scaled coefficient of one share,
                 \* 1 / (min_size * value)
  GapWide, GapMid, GapVeto, Probe,   \* template thresholds, in cents
  HighGate, MinCoeff,                \* per rule 1, 2, 3
  FineTick,      \* the market's tick is below a cent
  Wall, Cumulative,                  \* legacy_wall thresholds, in shares
  SizeMode, Custom                   \* order_size_mode and order_size_custom_usd

ASSUME LadderAssumption ==
  /\ IsFiniteSet(Prices) /\ Prices \subseteq Nat \ {0}
  /\ MinSize \in Nat \ {0} /\ TierShares \in Nat \ {0} /\ TierShares >= MinSize
  /\ GapWide \in Nat /\ GapMid \in Nat /\ GapVeto \in Nat /\ Probe \in Nat
  /\ HighGate \in [1..3 -> Nat] /\ MinCoeff \in [1..3 -> Nat]
  /\ FineTick \in BOOLEAN /\ Wall \in Nat /\ Cumulative \in Nat
  /\ SizeMode \in {"min", "custom", "balance"} /\ Custom \in Nat

Books == [Prices -> Nat]
Levels(book) == {p \in Prices : book[p] > 0}

-----------------------------------------------------------------------------
(* The reward range and the two vetoes both modes and Step 3 share. *)

\* reward_price_range, doubled: the midpoint and the spread on either side of it.
RangeMin(book, ask, hs) == Max(Levels(book)) + ask - hs
RangeMax(book, ask, hs) == Max(Levels(book)) + ask + hs
InRange(p, book, ask, hs) ==
  RangeMin(book, ask, hs) <= 2 * p /\ 2 * p <= RangeMax(book, ask, hs)

\* has_cliff_below: no level in the Probe cents below the range.
HasCliffBelow(book, ask, hs) ==
  /\ Probe > 0 /\ Levels(book) # {}
  /\ ~\E p \in Levels(book) :
       RangeMin(book, ask, hs) - 2 * Probe <= 2 * p /\ 2 * p < RangeMin(book, ask, hs)

\* _max_gap_and_split: the widest gap between neighbours, and the level above the
\* highest such gap; a book of one level has no gap and is all above it.
HasBelow(book)     == {p \in Levels(book) : \E q \in Levels(book) : q < p}
NextBelow(book, p) == Max({q \in Levels(book) : q < p})
GapBelow(book, p)  == p - NextBelow(book, p)
MaxGap(book)       == Max({0} \cup {GapBelow(book, p) : p \in HasBelow(book)})
Split(book) ==
  IF HasBelow(book) = {} THEN Min(Levels(book))
  ELSE Max({p \in HasBelow(book) : GapBelow(book, p) = MaxGap(book)})

GapTooWide(book) == GapVeto > 0 /\ MaxGap(book) > GapVeto

-----------------------------------------------------------------------------
(* placement_mode gap_single: explain_gap_single_order. *)

\* amount_value: the row of the least upper bound that covers the price.
Weight(p) ==
  LET rows == {r \in Table : p <= r.upper}
  IN  IF rows = {} THEN 0 ELSE (CHOOSE r \in rows : \A s \in rows : r.upper <= s.upper).weight

Coeff(book, p) == book[p] * Weight(p)

Rule(book) ==
  IF MaxGap(book) > GapWide THEN 1 ELSE IF MaxGap(book) >= GapMid THEN 2 ELSE 3

\* The coefficients above the widest gap, in the range or out of it.
HighSum(book) ==
  MapThenSumSet(LAMBDA p : Coeff(book, p), {p \in Levels(book) : p >= Split(book)})

\* The levels thick enough to join, in the range only.
Joinable(book, ask, hs) ==
  {p \in Levels(book) : InRange(p, book, ask, hs) /\ Coeff(book, p) > MinCoeff[Rule(book)]}

\* Mutated form: a gap is left to the rules, however wide.
GapSinglePrices_NoVeto(book, ask, hs) ==
  IF \/ ~\E p \in Levels(book) : InRange(p, book, ask, hs)
     \/ HasCliffBelow(book, ask, hs)
     \/ HighSum(book) < HighGate[Rule(book)]
     \/ Joinable(book, ask, hs) = {}
  THEN {} ELSE {Max(Joinable(book, ask, hs))}

GapSinglePrices(book, ask, hs) ==
  IF \/ ~\E p \in Levels(book) : InRange(p, book, ask, hs)
     \/ HasCliffBelow(book, ask, hs)
     \/ GapTooWide(book)
     \/ HighSum(book) < HighGate[Rule(book)]
     \/ Joinable(book, ask, hs) = {}
  THEN {} ELSE {Max(Joinable(book, ask, hs))}

-----------------------------------------------------------------------------
(* placement_mode legacy_wall: determine_order_price and explain_legacy_order. *)

SumAbove(book, p) == MapThenSumSet(LAMBDA q : book[q], {q \in Levels(book) : q >= p})

\* The spread the coarse paths use is cut to whole cents.
MinPrice(book, hs) == Max(Levels(book)) - (hs \div 2)

\* The levels that can hide an order: a full stack above, or a wall.
Hides(book, hs) ==
  CASE FineTick -> {p \in Levels(book) : SumAbove(book, p) > Cumulative}
    [] ~FineTick /\ hs \div 2 = 2 -> {p \in {Max(Levels(book))} : book[p] > Wall}
    [] OTHER -> {p \in Levels(book) : p >= MinPrice(book, hs) /\ book[p] > Wall}

\* Mutated form: what is below the range is not looked at.
LegacyPrices_NoCliff(book, ask, hs) ==
  IF Levels(book) = {} \/ Hides(book, hs) = {} THEN {}
  ELSE {p \in Levels(book) :
         /\ \E q \in Levels(book) : q < Max(Hides(book, hs))
         /\ p = NextBelow(book, Max(Hides(book, hs)))
         /\ InRange(p, book, ask, hs)
         /\ ~FineTick /\ hs \div 2 # 2 => p >= MinPrice(book, hs)}

\* Only the first of them counts, and only the level right below it.
LegacyPrices(book, ask, hs) ==
  IF \/ Levels(book) = {}
     \/ HasCliffBelow(book, ask, hs)
     \/ Hides(book, hs) = {}
  THEN {}
  ELSE {p \in Levels(book) :
         /\ \E q \in Levels(book) : q < Max(Hides(book, hs))
         /\ p = NextBelow(book, Max(Hides(book, hs)))
         /\ InRange(p, book, ask, hs)
         /\ ~FineTick /\ hs \div 2 # 2 => p >= MinPrice(book, hs)}

\* compute_order_size; 0 is the None of a market that is skipped.
OrderSize(price, balance) ==
  LET usd    == IF SizeMode = "balance" \/ balance < Custom THEN balance ELSE Custom
      shares == usd \div price
  IN  IF SizeMode = "min" THEN MinSize ELSE IF shares < MinSize THEN 0 ELSE shares

-----------------------------------------------------------------------------
(* The plan of a market: at most one rung [price, shares] a side.  A size that follows
   the balance may as well follow what the market may cost: Capped cuts it to that. *)

Quote(mode, book, ask, hs, balance) ==
  IF mode = "gap_single"
  THEN {[price |-> p, shares |-> TierShares] : p \in GapSinglePrices(book, ask, hs)}
  ELSE {r \in {[price |-> p, shares |-> OrderSize(p, balance)] :
                p \in LegacyPrices(book, ask, hs)} : r.shares > 0}

\* What is left of the exposure, in cents and in shares, cuts a rung; below MinSize
\* it is dropped.
Capped(rungs, usd, shares) ==
  {r \in {[price |-> q.price, shares |-> Min({q.shares, usd \div q.price, shares})] : q \in rungs} :
    r.shares >= MinSize}

Usd(rungs)    == IF rungs = {} THEN 0 ELSE LET r == CHOOSE r \in rungs : TRUE IN r.price * r.shares
Shares(rungs) == IF rungs = {} THEN 0 ELSE (CHOOSE r \in rungs : TRUE).shares

\* Mutated form: each side may use the whole exposure.
SecondOrders_Whole(first, rungs, usd, shares) == Capped(rungs, usd, shares)

\* compute_market_single_orders and compute_market_legacy_orders: the first side
\* takes its share of the market's exposure before the second.
FirstOrders(rungs, usd, shares) == Capped(rungs, usd, shares)
SecondOrders(first, rungs, usd, shares) ==
  Capped(rungs, usd - Usd(first), shares - Shares(first))

-----------------------------------------------------------------------------
(* reconcile_buy_orders: resting is what the snapshot shows of one token, *)
(* tol the tolerance of sizes in percent.                                 *)

Distance(a, b) == IF a < b THEN b - a ELSE a - b

\* The price is right, and what is left of the order is the size, give or take one
\* share or the tolerance.
Fits(o, r, tol) ==
  /\ o.price = r.price
  /\ LET off == Distance(o.left, r.shares) IN off <= 1 \/ 100 * off <= tol * r.shares

\* Mutated form: every order that fits is kept.
Kept_Duplicates(ladder, resting, tol) ==
  {i \in DOMAIN resting : \E r \in ladder : Fits(resting[i], r, tol)}

\* The first order that fits a rung is kept, a second one at its price is not.
Kept(ladder, resting, tol) ==
  {i \in DOMAIN resting : \E r \in ladder :
     Fits(resting[i], r, tol) /\ \A j \in 1..(i - 1) : ~Fits(resting[j], r, tol)}

ToCancel(ladder, resting, tol) == {resting[i].id : i \in DOMAIN resting \ Kept(ladder, resting, tol)}
ToPlace(ladder, resting, tol) ==
  {r \in ladder : \A i \in Kept(ladder, resting, tol) : resting[i].price # r.price}

=============================================================================
