-------------------------- MODULE ExitPricing_proofs --------------------------
(***************************************************************************)
(* Theorems about ExitPricing, for any prices, books, stops and number of  *)
(* trades: its types, that a loss has one of the recorded reasons, what an *)
(* undisturbed tick leaves on sale, and that our own ask moves no exit.    *)
(*                                                                         *)
(* The cost of a position and the lots that are left are recursive         *)
(* functions over the trades.  What they compute is proved by induction    *)
(* over a set of numbers (Inductive), in four steps each: such a function  *)
(* exists, it is the one that is defined, it has its type, and it follows  *)
(* what is appended.                                                       *)
(***************************************************************************)
EXTENDS ExitPricing, TLAPS, WellFoundedInduction, SequenceTheorems, FiniteSetTheorems

-----------------------------------------------------------------------------
(* Induction. *)

\* A set of numbers has a least one, so what holds of 0 and goes from each number to
\* the next holds of all.
LEMMA LeastNatural ==
  ASSUME NEW S, S \subseteq Nat, S # {}
  PROVE  \E n \in S : \A m \in S : n <= m
<1> DEFINE R == OpToRel(<, Nat)
<1>1. IsWellFoundedOn(R, Nat) BY NatLessThanWellFounded
<1>2. PICK n \in S : \A m \in S : <<m, n>> \notin R
  <2> HIDE DEF R
  <2> QED BY <1>1, WFMin
<1>3. \A m \in S : ~ (m < n) BY <1>2 DEF OpToRel
<1> QED BY <1>3

LEMMA Inductive ==
  ASSUME NEW S, 0 \in S, \A n \in Nat : n \in S => n + 1 \in S
  PROVE  \A n \in Nat : n \in S
<1> SUFFICES ASSUME Nat \ S # {} PROVE FALSE OBVIOUS
<1>1. PICK n \in Nat \ S : \A m \in Nat \ S : n <= m BY LeastNatural
<1>2. n - 1 \in Nat /\ n - 1 \in S BY <1>1
<1> QED BY <1>1, <1>2
-----------------------------------------------------------------------------
(* Sums. *)

\* f sums up s.
IsSum(f, s) ==
  /\ f \in [0 .. Len(s) -> Int] /\ f[0] = 0
  /\ \A n \in 1 .. Len(s) : f[n] = f[n - 1] + s[n]

\* There are sums of what has a beginning, and of one more.
LEMMA SumExists ==
  ASSUME NEW s \in Seq(Int)
  PROVE  \E f : IsSum(f, s)
<1> DEFINE Sums(n, f) == /\ f \in [0 .. n -> Int] /\ f[0] = 0
                         /\ \A k \in 1 .. n : f[k] = f[k - 1] + s[k]
           G == {n \in Nat : n <= Len(s) => \E f : Sums(n, f)}
<1>0. Len(s) \in Nat /\ \A k \in 1 .. Len(s) : s[k] \in Int OBVIOUS
<1>1. 0 \in G
  <2> DEFINE f == [k \in 0 .. 0 |-> 0]
  <2>1. f \in [0 .. 0 -> Int] /\ f[0] = 0 OBVIOUS
  <2>2. Sums(0, f) BY <2>1
  <2> HIDE DEF f, Sums
  <2> QED BY <2>2
<1>2. ASSUME NEW n \in Nat, n \in G PROVE n + 1 \in G
  <2> HIDE DEF Sums
  <2> SUFFICES ASSUME n + 1 <= Len(s) PROVE \E f : Sums(n + 1, f) OBVIOUS
  <2>1. PICK f : Sums(n, f) BY <1>0, <1>2
  <2> USE DEF Sums
  <2>2. Sums(n + 1, [k \in 0 .. n + 1 |-> IF k = n + 1 THEN f[n] + s[n + 1] ELSE f[k]])
    BY <1>0, <2>1
  <2> HIDE DEF Sums
  <2> QED BY <2>2
<1>3. Len(s) \in G
  <2> HIDE DEF G
  <2> QED BY <1>0, <1>1, <1>2, Inductive
<1>4. PICK f : Sums(Len(s), f) 
  <2> HIDE DEF Sums
  <2> QED BY <1>0, <1>3
<1> QED BY <1>4 DEF IsSum

\* The function that Total defines is the one with these values.
LEMMA TotalIsSum ==
  ASSUME NEW s \in Seq(Int), NEW f, IsSum(f, s)
  PROVE  Total(s) = f[Len(s)]
<1> DEFINE Step(g) == [n \in 0 .. Len(s) |-> IF n = 0 THEN 0 ELSE g[n - 1] + s[n]]
           sum == CHOOSE g : g = Step(g)
<1>0. Len(s) \in Nat OBVIOUS
<1>1. f = Step(f) BY <1>0 DEF IsSum
<1>2. sum = Step(sum) BY <1>1
<1> DEFINE G == {n \in Nat : n <= Len(s) => sum[n] = f[n]}
<1>3. 0 \in G
  <2> HIDE DEF sum
  <2>1. sum[0] = 0 BY <1>0, <1>2
  <2> QED BY <1>0, <2>1 DEF IsSum
<1>4. ASSUME NEW n \in Nat, n \in G PROVE n + 1 \in G
  <2> SUFFICES ASSUME n + 1 <= Len(s) PROVE sum[n + 1] = f[n + 1] OBVIOUS
  <2>1. sum[n + 1] = sum[n] + s[n + 1]
    <3> HIDE DEF sum
    <3> QED BY <1>0, <1>2
  <2>2. f[n + 1] = f[n] + s[n + 1] BY <1>0 DEF IsSum
  <2> QED BY <1>0, <1>4, <2>1, <2>2
<1>5. Len(s) \in G
  <2> HIDE DEF G
  <2> QED BY <1>0, <1>3, <1>4, Inductive
<1>6. Total(s) = sum[Len(s)] BY DEF Total
<1> QED BY <1>0, <1>5, <1>6

LEMMA TotalType == ASSUME NEW s \in Seq(Int) PROVE Total(s) \in Int
<1>1. PICK f : IsSum(f, s) BY SumExists
<1>2. Total(s) = f[Len(s)] BY <1>1, TotalIsSum
<1>3. Len(s) \in 0 .. Len(s) OBVIOUS
<1> QED BY <1>1, <1>2, <1>3 DEF IsSum

LEMMA TotalEmpty == Total(<<>>) = 0
<1>1. <<>> \in Seq(Int) /\ Len(<<>>) = 0 OBVIOUS
<1>2. PICK f : IsSum(f, <<>>) BY <1>1, SumExists
<1>3. Total(<<>>) = f[Len(<<>>)] BY <1>1, <1>2, TotalIsSum
<1> QED BY <1>1, <1>2, <1>3 DEF IsSum

LEMMA TotalAppend ==
  ASSUME NEW s \in Seq(Int), NEW x \in Int
  PROVE  Total(Append(s, x)) = Total(s) + x
<1> DEFINE t == Append(s, x)
<1>1. t \in Seq(Int) /\ Len(t) = Len(s) + 1 /\ Len(s) \in Nat
      /\ t[Len(s) + 1] = x /\ \A n \in 1 .. Len(s) : t[n] = s[n]
  OBVIOUS
<1> HIDE DEF t
<1>2. PICK f : IsSum(f, t) BY <1>1, SumExists
<1> DEFINE h == [n \in 0 .. Len(s) |-> f[n]]
<1>3. IsSum(h, s) BY <1>1, <1>2 DEF IsSum
<1>4. Total(s) = h[Len(s)] BY <1>3, TotalIsSum
<1>5. Total(t) = f[Len(t)] BY <1>1, <1>2, TotalIsSum
<1>6. f[Len(t)] = f[Len(s)] + x BY <1>1, <1>2 DEF IsSum
<1> QED BY <1>1, <1>4, <1>5, <1>6 DEF t

\* The other way round, from the head.
LEMMA TotalCons ==
  ASSUME NEW s \in Seq(Int), s # <<>>
  PROVE  Total(s) = Head(s) + Total(Tail(s))
<1> DEFINE t == Tail(s)
<1>1. /\ t \in Seq(Int) /\ Len(s) \in Nat \ {0} /\ Len(t) = Len(s) - 1 /\ Head(s) = s[1]
      /\ s[1] \in Int /\ \A n \in 1 .. Len(t) : t[n] = s[n + 1] /\ s[n + 1] \in Int
  OBVIOUS
<1> HIDE DEF t
<1>2. PICK f : IsSum(f, s) BY SumExists
<1> DEFINE h == [n \in 0 .. Len(t) |-> f[n + 1] - s[1]]
<1>3. IsSum(h, t)
  <2>1. h[0] = 0 BY <1>1, <1>2 DEF IsSum
  <2>2. h \in [0 .. Len(t) -> Int] BY <1>1, <1>2 DEF IsSum
  <2>3. ASSUME NEW n \in 1 .. Len(t) PROVE h[n] = h[n - 1] + t[n]
    <3>1. f[n + 1] = f[n] + s[n + 1] BY <1>1, <1>2 DEF IsSum
    <3>2. n \in 0 .. Len(s) /\ s[n + 1] \in Int BY <1>1
    <3>3. f[n] \in Int BY <1>2, <3>2 DEF IsSum
    <3> QED BY <1>1, <3>1, <3>2, <3>3
  <2> QED BY <2>1, <2>2, <2>3 DEF IsSum
<1>4. Total(t) = h[Len(t)] BY <1>1, <1>3, TotalIsSum
<1>5. Total(s) = f[Len(s)] BY <1>2, TotalIsSum
<1>6. f[Len(s)] \in Int BY <1>1, <1>2 DEF IsSum
<1> QED BY <1>1, <1>4, <1>5, <1>6 DEF t

\* A total is at least as many times the least of its parts.
LEMMA TotalAtLeast ==
  ASSUME NEW s \in Seq(Int), NEW p \in Int, \A i \in 1 .. Len(s) : s[i] >= p
  PROVE  Total(s) >= p * Len(s)
<1>0. Len(s) \in Nat /\ \A i \in 1 .. Len(s) : s[i] \in Int OBVIOUS
<1>1. PICK f : IsSum(f, s) BY SumExists
<1> DEFINE G == {n \in Nat : n <= Len(s) => f[n] >= p * n}
<1>2. 0 \in G BY <1>1 DEF IsSum
<1>3. ASSUME NEW n \in Nat, n \in G PROVE n + 1 \in G
  <2> SUFFICES ASSUME n + 1 <= Len(s) PROVE f[n + 1] >= p * (n + 1) OBVIOUS
  <2>0. n \in 0 .. Len(s) /\ n + 1 \in 1 .. Len(s) /\ (n + 1) - 1 = n BY <1>0
  <2>1. f[n + 1] = f[n] + s[n + 1] /\ f[n] \in Int BY <1>1, <2>0 DEF IsSum
  <2>2. s[n + 1] >= p /\ f[n] >= p * n BY <1>0, <1>3
  <2>3. p * (n + 1) = p * n + p /\ p * n \in Int OBVIOUS
  <2> QED BY <1>0, <2>1, <2>2, <2>3
<1>4. Len(s) \in G
  <2> HIDE DEF G
  <2> QED BY <1>0, <1>2, <1>3, Inductive
<1> QED BY <1>0, <1>1, <1>4, TotalIsSum
-----------------------------------------------------------------------------
(* The queue of lots. *)

\* A trade is of one lot, and a lot is known by the price it was bought at.
Trade == [side : {"buy", "sell"}, price : Nat \ {0}]
Lots == Seq(Nat \ {0})

\* f holds the queue after each of the trades t.
IsReplay(f, t) ==
  /\ f \in [0 .. Len(t) -> Lots] /\ f[0] = <<>>
  /\ \A n \in 1 .. Len(t) : f[n] = Replayed(f[n - 1], t[n])

LEMMA ReplayedType ==
  ASSUME NEW q \in Lots, NEW t \in Trade
  PROVE  Replayed(q, t) \in Lots
BY DEF Replayed, Trade, Lots

LEMMA ReplayExists ==
  ASSUME NEW t \in Seq(Trade)
  PROVE  \E f : IsReplay(f, t)
<1> DEFINE Queues(n, f) == /\ f \in [0 .. n -> Lots] /\ f[0] = <<>>
                           /\ \A k \in 1 .. n : f[k] = Replayed(f[k - 1], t[k])
           G == {n \in Nat : n <= Len(t) => \E f : Queues(n, f)}
<1>0. Len(t) \in Nat /\ \A k \in 1 .. Len(t) : t[k] \in Trade OBVIOUS
<1>1. 0 \in G
  <2> DEFINE f == [k \in 0 .. 0 |-> <<>>]
  <2>1. f \in [0 .. 0 -> Lots] /\ f[0] = <<>> BY DEF Lots
  <2>2. Queues(0, f) BY <2>1
  <2> HIDE DEF f, Queues
  <2> QED BY <2>2
<1>2. ASSUME NEW n \in Nat, n \in G PROVE n + 1 \in G
  <2> HIDE DEF Queues
  <2> SUFFICES ASSUME n + 1 <= Len(t) PROVE \E f : Queues(n + 1, f) OBVIOUS
  <2>1. PICK f : Queues(n, f) BY <1>0, <1>2
  <2> USE DEF Queues
  <2>2. Replayed(f[n], t[n + 1]) \in Lots BY <1>0, <2>1, ReplayedType
  <2>3. Queues(n + 1, [k \in 0 .. n + 1 |-> IF k = n + 1 THEN Replayed(f[n], t[n + 1]) ELSE f[k]])
    BY <1>0, <2>1, <2>2
  <2> HIDE DEF Queues
  <2> QED BY <2>3
<1>3. Len(t) \in G
  <2> HIDE DEF G
  <2> QED BY <1>0, <1>1, <1>2, Inductive
<1>4. PICK f : Queues(Len(t), f)
  <2> HIDE DEF Queues
  <2> QED BY <1>0, <1>3
<1> QED BY <1>4 DEF IsReplay

LEMMA ReplayIsReplay ==
  ASSUME NEW t \in Seq(Trade), NEW f, IsReplay(f, t)
  PROVE  Replay(t) = f[Len(t)]
<1> DEFINE Step(g) == [n \in 0 .. Len(t) |-> IF n = 0 THEN <<>> ELSE Replayed(g[n - 1], t[n])]
           queue == CHOOSE g : g = Step(g)
<1>0. Len(t) \in Nat OBVIOUS
<1>1. f = Step(f) BY <1>0 DEF IsReplay
<1>2. queue = Step(queue) BY <1>1
<1> DEFINE G == {n \in Nat : n <= Len(t) => queue[n] = f[n]}
<1>3. 0 \in G
  <2> HIDE DEF queue
  <2>1. queue[0] = <<>> BY <1>0, <1>2
  <2> QED BY <1>0, <2>1 DEF IsReplay
<1>4. ASSUME NEW n \in Nat, n \in G PROVE n + 1 \in G
  <2> SUFFICES ASSUME n + 1 <= Len(t) PROVE queue[n + 1] = f[n + 1] OBVIOUS
  <2>1. queue[n + 1] = Replayed(queue[n], t[n + 1])
    <3> HIDE DEF queue
    <3> QED BY <1>0, <1>2
  <2>2. f[n + 1] = Replayed(f[n], t[n + 1]) BY <1>0 DEF IsReplay
  <2> QED BY <1>0, <1>4, <2>1, <2>2
<1>5. Len(t) \in G
  <2> HIDE DEF G
  <2> QED BY <1>0, <1>3, <1>4, Inductive
<1>6. Replay(t) = queue[Len(t)] BY DEF Replay
<1> QED BY <1>0, <1>5, <1>6

LEMMA ReplayType == ASSUME NEW t \in Seq(Trade) PROVE Replay(t) \in Lots
<1>1. PICK f : IsReplay(f, t) BY ReplayExists
<1>2. Replay(t) = f[Len(t)] BY <1>1, ReplayIsReplay
<1>3. Len(t) \in 0 .. Len(t) OBVIOUS
<1> QED BY <1>1, <1>2, <1>3 DEF IsReplay

LEMMA ReplayEmpty == Replay(<<>>) = <<>>
<1>1. <<>> \in Seq(Trade) /\ Len(<<>>) = 0 OBVIOUS
<1>2. PICK f : IsReplay(f, <<>>) BY <1>1, ReplayExists
<1>3. Replay(<<>>) = f[Len(<<>>)] BY <1>1, <1>2, ReplayIsReplay
<1> QED BY <1>1, <1>2, <1>3 DEF IsReplay

LEMMA ReplayAppend ==
  ASSUME NEW s \in Seq(Trade), NEW x \in Trade
  PROVE  Replay(Append(s, x)) = Replayed(Replay(s), x)
<1> DEFINE t == Append(s, x)
<1>1. t \in Seq(Trade) /\ Len(t) = Len(s) + 1 /\ Len(s) \in Nat
      /\ t[Len(s) + 1] = x /\ \A n \in 1 .. Len(s) : t[n] = s[n]
  OBVIOUS
<1> HIDE DEF t
<1>2. PICK f : IsReplay(f, t) BY <1>1, ReplayExists
<1> DEFINE h == [n \in 0 .. Len(s) |-> f[n]]
<1>3. IsReplay(h, s) BY <1>1, <1>2 DEF IsReplay
<1>4. Replay(s) = h[Len(s)] BY <1>3, ReplayIsReplay
<1>5. Replay(t) = f[Len(t)] BY <1>1, <1>2, ReplayIsReplay
<1>6. f[Len(t)] = Replayed(f[Len(s)], x) BY <1>1, <1>2 DEF IsReplay
<1> QED BY <1>1, <1>4, <1>5, <1>6 DEF t

-----------------------------------------------------------------------------
(* The plan and the book. *)

LEMMA MaxOfTwo ==
  ASSUME NEW x \in Int, NEW y \in Int
  PROVE  Max({x, y}) = IF x >= y THEN x ELSE y
<1>1. \E m \in {x, y} : \A z \in {x, y} : m >= z OBVIOUS
<1> QED BY <1>1 DEF Max

LEMMA MinOfTwo ==
  ASSUME NEW x \in Int, NEW y \in Int
  PROVE  Min({x, y}) = IF x <= y THEN x ELSE y
<1>1. \E m \in {x, y} : \A z \in {x, y} : m <= z OBVIOUS
<1> QED BY <1>1 DEF Min

\* ceil_to_tick of the average covers the cost (take_profit.py 45-64).
LEMMA CostFloorCovers ==
  ASSUME NEW q \in Lots, q # <<>>
  PROVE  /\ CostFloor(q) \in Nat \ {0}
         /\ Total(q) <= CostFloor(q) * Len(q)
<1>1. q \in Seq(Int) /\ Len(q) \in Nat \ {0} /\ \A i \in 1 .. Len(q) : q[i] >= 1
  BY DEF Lots
<1>2. Total(q) \in Int /\ Total(q) >= 1 * Len(q) BY <1>1, TotalType, TotalAtLeast
<1> DEFINE T == Total(q)
           L == Len(q)
           c == (T + L - 1) \div L
<1>3. T \in Nat /\ L \in Nat \ {0} /\ T >= L BY <1>1, <1>2
<1> HIDE DEF T, L
<1>4. c \in Nat /\ c >= 1 /\ T <= c * L BY <1>3
<1> QED BY <1>4 DEF CostFloor, T, L

\* A plan that lets a sell rest asks for no less than the cost.
LEMMA PlanRests ==
  ASSUME NEW q \in Lots, q # <<>>, NEW bid \in Nat, NEW a \in Nat, NEW m, NEW s
  PROVE  /\ PlanExit(q, bid, a, m, s) \in [action : {"noop", "rest", "B0", "A_market"}, price : Nat]
         /\ PlanExit(q, bid, a, m, s).action = "rest" =>
              PlanExit(q, bid, a, m, s).price >= CostFloor(q)
<1>1. CostFloor(q) \in Nat \ {0} BY CostFloorCovers
<1>2. Max({a, CostFloor(q)}) = IF a >= CostFloor(q) THEN a ELSE CostFloor(q) BY <1>1, MaxOfTwo
<1> QED BY <1>1, <1>2 DEF PlanExit, Rest, ToMarket, Noop

\* The book as it is read with an ask of ours at p in it.
WithOurs(a, p) == IF a = 0 THEN p ELSE Min({a, p})

\* Our own ask moves no exit: what rests at the price the plan asks for is asked for
\* again when the book is read with it.
LEMMA OwnAskMovesNothing ==
  ASSUME NEW q \in Lots, q # <<>>, NEW bid \in Nat, NEW a \in Nat, NEW old \in Nat,
         NEW p \in Nat, NEW m, NEW s, NEW sees \in {a, WithOurs(a, old)},
         PlanExit(q, bid, sees, m, s) = Rest(p)
  PROVE  p > 0 /\ PlanExit(q, bid, WithOurs(a, p), m, s) = Rest(p)
<1> DEFINE c == CostFloor(q)
<1>1. c \in Nat \ {0} BY CostFloorCovers
<1>2. \A x \in Nat : Max({x, c}) = IF x >= c THEN x ELSE c BY <1>1, MaxOfTwo
<1>3. \A x \in Nat : WithOurs(a, x) = IF a = 0 THEN x ELSE IF a <= x THEN a ELSE x
  BY MinOfTwo DEF WithOurs
<1> HIDE DEF c
<1>4. CASE bid > 0 /\ InProfit(q, bid, m)
  <2>0. PlanExit(q, bid, sees, m, s) =
          IF m = "market" THEN ToMarket("A_market") ELSE Rest(Max({sees, c}))
    BY <1>4 DEF PlanExit, c
  <2>1. p = Max({sees, c}) /\ m # "market" BY <2>0 DEF Rest, ToMarket
  <2>2. Max({WithOurs(a, p), c}) = p BY <1>1, <1>2, <1>3, <2>1
  <2> QED BY <1>1, <1>2, <1>3, <1>4, <2>1, <2>2 DEF PlanExit, Rest, c
<1>5. CASE ~ (bid > 0 /\ InProfit(q, bid, m))
  <2>1. p = c /\ ~ (bid > 0 /\ StopDue(q, bid, s)) BY <1>5 DEF PlanExit, Rest, ToMarket, Noop, c
  <2>2. WithOurs(a, p) # 0 BY <1>1, <1>3, <2>1
  <2> QED BY <1>1, <1>5, <2>1, <2>2 DEF PlanExit, Rest, c
<1> QED BY <1>4, <1>5

\* The best bids come first.
Descending(b) == \A i, j \in DOMAIN b : i <= j => b[i] >= b[j]

\* The bids that reach a limit are the first ones.
LEMMA BidsTaken ==
  ASSUME NEW b \in Seq(Nat \ {0}), Descending(b), NEW size \in Nat, NEW limit \in Nat
  PROVE  LET n == Cardinality({i \in 1 .. Min({size, Len(b)}) : b[i] >= limit})
         IN  /\ n \in Nat /\ n <= size /\ n <= Len(b)
             /\ \A i \in 1 .. n : b[i] >= limit
             /\ n < size /\ n < Len(b) => b[n + 1] < limit
<1> DEFINE L == Len(b)
           m == Min({size, L})
           S == {i \in 1 .. m : b[i] >= limit}
           Ends == {k \in Nat : k + 1 \notin S}
<1>1. L \in Nat /\ DOMAIN b = 1 .. L /\ \A i \in 1 .. L : b[i] \in Nat OBVIOUS
<1> HIDE DEF L
<1>2. m \in Nat /\ m <= size /\ m <= L /\ (m = size \/ m = L) BY <1>1, MinOfTwo
<1> HIDE DEF m
<1>3. m \in Ends BY <1>2
<1>4. PICK n \in Ends : \A k \in Ends : n <= k
  <2> HIDE DEF Ends
  <2>1. Ends \subseteq Nat BY DEF Ends
  <2> QED BY <1>3, <2>1, LeastNatural
<1>5. n \in Nat /\ n <= m /\ n <= size /\ n <= L /\ n + 1 \notin S
  <2>1. n \in Nat /\ n + 1 \notin S BY <1>4
  <2>2. n <= m
    <3> HIDE DEF Ends
    <3> QED BY <1>3, <1>4
  <2> HIDE DEF S, Ends
  <2> QED BY <1>1, <1>2, <2>1, <2>2
<1>6. ASSUME NEW i \in 1 .. n PROVE i \in S
  <2>1. i - 1 \in Nat /\ i - 1 < n /\ (i - 1) + 1 = i BY <1>5
  <2>2. i - 1 \notin Ends
    <3> HIDE DEF Ends
    <3> QED BY <1>4, <1>5, <2>1
  <2> QED BY <2>1, <2>2
<1>7. ASSUME NEW i \in S PROVE i \in 1 .. n
  <2> SUFFICES ASSUME i > n PROVE FALSE BY <1>2, <1>5
  <2>1. i \in 1 .. m /\ n + 1 \in 1 .. m /\ n + 1 <= i BY <1>2, <1>5
  <2>2. n + 1 \in 1 .. L /\ i \in 1 .. L
    <3> HIDE DEF S, Ends
    <3> QED BY <1>1, <1>2, <1>5, <2>1
  <2>3. b[n + 1] >= b[i] /\ b[i] >= limit BY <1>1, <2>1, <2>2 DEF Descending
  <2>4. b[n + 1] >= limit BY <1>1, <2>2, <2>3
  <2> QED BY <1>5, <2>1, <2>4
<1>8. S = 1 .. n BY <1>6, <1>7
<1>9. Cardinality(1 .. n) = n BY <1>5, FS_Interval
<1>10. ASSUME n < size, n < L PROVE b[n + 1] < limit
  <2>1. n + 1 \in 1 .. m /\ n + 1 \in 1 .. L
    <3> HIDE DEF S, Ends
    <3> QED BY <1>1, <1>2, <1>5, <1>10
  <2> QED BY <1>1, <1>5, <2>1
<1>11. Cardinality(S) = n BY <1>8, <1>9
<1>12. \A i \in 1 .. n : b[i] >= limit BY <1>6
<1>13. /\ n \in Nat /\ n <= size /\ n <= L
       /\ \A i \in 1 .. n : b[i] >= limit
       /\ n < size /\ n < L => b[n + 1] < limit
  BY <1>5, <1>10, <1>12
<1> QED BY <1>11, <1>13 DEF m, L

-----------------------------------------------------------------------------
(* Sales, and what they bring in. *)

Sale(p) == [side |-> "sell", price |-> p]
\* n lots sold to the bids b, the best first.
Sold(b, n) == [i \in 1 .. n |-> Sale(b[i])]

\* A sale of n lots is n sales of one, each after the other.
LEMMA SoldStep ==
  ASSUME NEW t \in Seq(Trade), NEW b \in Seq(Nat \ {0})
  PROVE  /\ t \o Sold(b, 0) = t
         /\ \A k \in 0 .. Len(b) :
              t \o Sold(b, k) \in Seq(Trade) /\ Len(t \o Sold(b, k)) = Len(t) + k
         /\ \A k \in Nat : k < Len(b) =>
              Sale(b[k + 1]) \in Trade
              /\ t \o Sold(b, k + 1) = Append(t \o Sold(b, k), Sale(b[k + 1]))
<1>1. Len(b) \in Nat /\ \A i \in 1 .. Len(b) : Sale(b[i]) \in Trade
  BY DEF Sale, Trade
<1>2. \A k \in 0 .. Len(b) : Sold(b, k) \in Seq(Trade) /\ Len(Sold(b, k)) = k
  BY <1>1 DEF Sold
<1>3. Sold(b, 0) = <<>> BY <1>1, <1>2
<1>4. ASSUME NEW k \in Nat, k < Len(b)
      PROVE  Sale(b[k + 1]) \in Trade /\ t \o Sold(b, k + 1) = Append(t \o Sold(b, k), Sale(b[k + 1]))
  <2>1. Sold(b, k + 1) = Append(Sold(b, k), Sale(b[k + 1]))
    BY <1>1, <1>2, <1>4 DEF Sold
  <2>2. Sold(b, k) \in Seq(Trade) /\ Sale(b[k + 1]) \in Trade BY <1>1, <1>2, <1>4
  <2>3. t \o Append(Sold(b, k), Sale(b[k + 1])) = Append(t \o Sold(b, k), Sale(b[k + 1]))
    BY <2>2
  <2> QED BY <2>1, <2>2, <2>3
<1>5. t \o Sold(b, 0) = t BY <1>3
<1>6. ASSUME NEW k \in 0 .. Len(b)
      PROVE  t \o Sold(b, k) \in Seq(Trade) /\ Len(t \o Sold(b, k)) = Len(t) + k
  <2>1. Sold(b, k) \in Seq(Trade) /\ Len(Sold(b, k)) = k BY <1>2
  <2> QED BY <2>1, ConcatProperties
<1> QED BY <1>4, <1>5, <1>6

\* First in, first out.
LEMMA SaleTakesTheOldest ==
  ASSUME NEW t \in Seq(Trade), NEW p \in Nat \ {0}, Replay(t) # <<>>
  PROVE  /\ Append(t, Sale(p)) \in Seq(Trade)
         /\ Replay(Append(t, Sale(p))) = Tail(Replay(t))
<1>1. Sale(p) \in Trade BY DEF Sale, Trade
<1>2. Replay(Append(t, Sale(p))) = Replayed(Replay(t), Sale(p)) BY <1>1, ReplayAppend
<1> QED BY <1>1, <1>2 DEF Replayed, Sale

LEMMA SoldQueue ==
  ASSUME NEW t \in Seq(Trade), NEW b \in Seq(Nat \ {0}),
         NEW n \in 0 .. Len(b), n <= Len(Replay(t))
  PROVE  Replay(t \o Sold(b, n)) = SubSeq(Replay(t), n + 1, Len(Replay(t)))
<1> DEFINE q == Replay(t)
           G == {k \in Nat : k <= n => Replay(t \o Sold(b, k)) = SubSeq(q, k + 1, Len(q))}
<1>0. q \in Lots /\ q \in Seq(Nat \ {0}) /\ Len(q) \in Nat /\ Len(b) \in Nat /\ n \in Nat
  BY ReplayType DEF Lots
<1> HIDE DEF q
<1>1. 0 \in G
  <2>1. SubSeq(q, 1, Len(q)) = q BY <1>0
  <2>2. t \o Sold(b, 0) = t BY SoldStep
  <2>3. Replay(t \o Sold(b, 0)) = SubSeq(q, 0 + 1, Len(q)) 
    <3>1. 0 + 1 = 1 OBVIOUS
    <3> QED BY <2>1, <2>2, <3>1, Zenon DEF q
  <2> QED BY <2>3
<1>2. ASSUME NEW k \in Nat, k \in G PROVE k + 1 \in G
  <2> SUFFICES ASSUME k + 1 <= n
               PROVE  Replay(t \o Sold(b, k + 1)) = SubSeq(q, k + 2, Len(q))
    OBVIOUS
  <2>1. k < Len(b) /\ k \in 0 .. Len(b) /\ k + 1 \in 1 .. Len(b) /\ k + 1 <= Len(q)
    BY <1>0 DEF q
  <2>2. Replay(t \o Sold(b, k)) = SubSeq(q, k + 1, Len(q)) BY <1>0, <1>2
  <2>3. t \o Sold(b, k) \in Seq(Trade)
        /\ t \o Sold(b, k + 1) = Append(t \o Sold(b, k), Sale(b[k + 1]))
    BY <2>1, SoldStep
  <2>4. SubSeq(q, k + 1, Len(q)) # <<>>
        /\ Tail(SubSeq(q, k + 1, Len(q))) = SubSeq(q, k + 2, Len(q))
    <3>1. k + 1 \in 1 .. Len(q) /\ Len(q) \in k + 1 .. Len(q) BY <1>0, <2>1
    <3>2. Tail(SubSeq(q, k + 1, Len(q))) = SubSeq(q, (k + 1) + 1, Len(q))
      BY <1>0, <3>1, HeadTailOfSubSeq
    <3>3. Len(SubSeq(q, k + 1, Len(q))) \in Nat \ {0} BY <1>0, <3>1
    <3>4. (k + 1) + 1 = k + 2 OBVIOUS
    <3>5. SubSeq(q, k + 1, Len(q)) # <<>>
      <4>1. Len(SubSeq(q, k + 1, Len(q))) # 0 BY <3>3
      <4>2. Len(<<>>) = 0 OBVIOUS
      <4> QED BY <4>1, <4>2, Zenon
    <3> QED BY <3>2, <3>4, <3>5
  <2>5. b[k + 1] \in Nat \ {0} BY <2>1
  <2> QED BY <2>2, <2>3, <2>4, <2>5, SaleTakesTheOldest
<1>3. n \in G
  <2> HIDE DEF G
  <2> QED BY <1>0, <1>1, <1>2, Inductive
<1> QED BY <1>0, <1>3 DEF q

\* What was paid, or earned, in each trade; and Gain, of any trades.
Moved(t, side) == [i \in DOMAIN t |-> IF t[i].side = side THEN t[i].price ELSE 0]
GainOf(t) == Total(Moved(t, "sell")) + Total(Replay(t)) - Total(Moved(t, "buy"))

LEMMA GainIs == Gain = GainOf(trades)
BY DEF Gain, GainOf, Moved, Queue

LEMMA MovedType ==
  ASSUME NEW t \in Seq(Trade), NEW side
  PROVE  Moved(t, side) \in Seq(Int)
<1>1. ASSUME NEW i \in 1 .. Len(t) PROVE t[i].price \in Int
  <2>1. t[i] \in Trade BY ElementOfSeq
  <2> QED BY <2>1 DEF Trade
<1> QED BY <1>1 DEF Moved

LEMMA GainType ==
  ASSUME NEW t \in Seq(Trade)
  PROVE  GainOf(t) \in Int
<1>1. Replay(t) \in Seq(Int) BY ReplayType DEF Lots
<1> QED BY <1>1, MovedType, TotalType DEF GainOf

LEMMA MovedAppend ==
  ASSUME NEW t \in Seq(Trade), NEW x \in Trade, NEW side
  PROVE  Total(Moved(Append(t, x), side)) =
           Total(Moved(t, side)) + IF x.side = side THEN x.price ELSE 0
<1> DEFINE y == IF x.side = side THEN x.price ELSE 0
<1>1. y \in Int BY DEF Trade
<1>2. Moved(Append(t, x), side) = Append(Moved(t, side), y)
  <2>1. Moved(t, side) \in Seq(Int) /\ Moved(Append(t, x), side) \in Seq(Int)
    <3>1. Append(t, x) \in Seq(Trade) OBVIOUS
    <3> QED BY <3>1, MovedType
  <2>2. Len(Moved(Append(t, x), side)) = Len(t) + 1 /\ Len(Moved(t, side)) = Len(t)
    BY DEF Moved
  <2>3. \A i \in 1 .. Len(t) + 1 :
           Moved(Append(t, x), side)[i] = Append(Moved(t, side), y)[i]
    BY DEF Moved
  <2> QED BY <1>1, <2>1, <2>2, <2>3
<1> QED BY <1>1, <1>2, MovedType, TotalAppend

\* A buy brings in what it costs, a sale its price for the cost of the oldest lot.
LEMMA BuyGain ==
  ASSUME NEW t \in Seq(Trade), NEW p \in Nat \ {0}
  PROVE  LET u == Append(t, [side |-> "buy", price |-> p])
         IN  u \in Seq(Trade) /\ Replay(u) = Append(Replay(t), p) /\ GainOf(u) = GainOf(t)
<1> DEFINE x == [side |-> "buy", price |-> p]
<1>1. x \in Trade /\ x.side = "buy" /\ x.price = p BY DEF Trade
<1> HIDE DEF x
<1>2. Replay(Append(t, x)) = Append(Replay(t), p) BY <1>1, ReplayAppend DEF Replayed
<1>3. Replay(t) \in Seq(Int) BY ReplayType DEF Lots
<1>4. Total(Append(Replay(t), p)) = Total(Replay(t)) + p BY <1>3, TotalAppend
<1>5. /\ Total(Moved(Append(t, x), "buy")) = Total(Moved(t, "buy")) + p
      /\ Total(Moved(Append(t, x), "sell")) = Total(Moved(t, "sell"))
  BY <1>1, MovedAppend, MovedType, TotalType
<1>6. GainOf(Append(t, x)) = GainOf(t)
  BY <1>2, <1>3, <1>4, <1>5, MovedType, TotalType DEF GainOf
<1> QED BY <1>1, <1>2, <1>6 DEF x

LEMMA SaleGain ==
  ASSUME NEW t \in Seq(Trade), NEW p \in Nat \ {0}, Replay(t) # <<>>
  PROVE  GainOf(Append(t, Sale(p))) = GainOf(t) + p - Head(Replay(t))
<1>1. Sale(p) \in Trade /\ Sale(p).side = "sell" /\ Sale(p).price = p BY DEF Trade, Sale
<1>2. Replay(Append(t, Sale(p))) = Tail(Replay(t)) BY SaleTakesTheOldest
<1>3. Replay(t) \in Seq(Int) /\ Tail(Replay(t)) \in Seq(Int) /\ Head(Replay(t)) \in Int
  BY ReplayType DEF Lots
<1>4. Total(Replay(t)) = Head(Replay(t)) + Total(Tail(Replay(t))) BY <1>3, TotalCons
<1>5. /\ Total(Moved(Append(t, Sale(p)), "sell")) = Total(Moved(t, "sell")) + p
      /\ Total(Moved(Append(t, Sale(p)), "buy")) = Total(Moved(t, "buy"))
  BY <1>1, MovedAppend, MovedType, TotalType
<1>6. /\ Total(Moved(t, "sell")) \in Int /\ Total(Moved(t, "buy")) \in Int
      /\ Total(Tail(Replay(t))) \in Int
  BY <1>3, MovedType, TotalType
<1> QED BY <1>2, <1>3, <1>4, <1>5, <1>6 DEF GainOf

LEMMA TimesGrows ==
  ASSUME NEW x \in Int, NEW y \in Int, NEW n \in Nat, x >= y
  PROVE  x * n >= y * n
<1> DEFINE G == {k \in Nat : x * k >= y * k}
<1>1. 0 \in G OBVIOUS
<1>2. ASSUME NEW k \in Nat, k \in G PROVE k + 1 \in G
  <2>1. x * (k + 1) = x * k + x /\ y * (k + 1) = y * k + y OBVIOUS
  <2>2. x * k \in Int /\ y * k \in Int /\ x * k >= y * k BY <1>2
  <2>3. x * k + x >= y * k + y BY <2>2
  <2> QED BY <2>1, <2>3
<1>3. n \in G
  <2> HIDE DEF G
  <2> QED BY <1>1, <1>2, Inductive
<1> QED BY <1>3

Ascending(q) == \A i, j \in 1 .. Len(q) : i <= j => q[i] <= q[j]

\* Nothing was lost, and nothing is when the first n lots of q are sold at p.
Safe(gain, q, n, p) == gain >= 0 /\ gain + p * n - Total(SubSeq(q, 1, n)) >= 0

\* Of lots bought at rising prices the oldest is the cheapest.
LEMMA TailAscends ==
  ASSUME NEW q \in Lots, q # <<>>, Ascending(q)
  PROVE  /\ Tail(q) \in Lots /\ Len(Tail(q)) = Len(q) - 1 /\ Ascending(Tail(q))
         /\ \A i \in 1 .. Len(q) : Head(q) <= q[i]
<1> DEFINE n == Len(q)
           t == Tail(q)
<1>1. n \in Nat \ {0} /\ Head(q) = q[1] /\ \A i \in 1 .. n : q[i] \in Nat BY DEF Lots
<1>2. t \in Lots /\ Len(t) = n - 1 /\ \A i \in 1 .. n - 1 : t[i] = q[i + 1] BY DEF Lots
<1>3. \A i, j \in 1 .. n : i <= j => q[i] <= q[j] BY DEF Ascending
<1> HIDE DEF n, t
<1>4. Ascending(t) BY <1>1, <1>2, <1>3 DEF Ascending
<1> QED BY <1>1, <1>2, <1>3, <1>4 DEF n, t

LEMMA SaleSums ==
  ASSUME NEW g \in Int, NEW b \in Int, NEW p \in Int, NEW h \in Int, NEW rest \in Int,
         NEW m \in Nat, g >= 0, b >= p, g + p * (m + 1) - (h + rest) >= 0, rest >= h * m
  PROVE  g + b - h >= 0 /\ (g + b - h) + p * m - rest >= 0
<1> DEFINE x == p * m
           y == h * m
<1>1. p * (m + 1) = x + p /\ x \in Int /\ y \in Int OBVIOUS
<1>2. h >= p => y >= x BY TimesGrows
<1>3. rest >= y OBVIOUS
<1>4. g + (x + p) - (h + rest) >= 0 BY <1>1
<1> HIDE DEF x, y
<1>5. (g + b - h) + x - rest >= 0 BY <1>1, <1>4
<1>6. g + b - h >= 0 BY <1>1, <1>2, <1>3, <1>4
<1> QED BY <1>5, <1>6 DEF x

\* A sell that is safe stays so when one of its lots goes, at its price or above:
\* whatever is lost on the later lots is no more than what the oldest brings in.
LEMMA SellOne ==
  ASSUME NEW q \in Lots, Ascending(q), NEW n \in 1 .. Len(q), NEW p \in Nat, NEW b \in Nat,
         b >= p, NEW gain \in Int, Safe(gain, q, n, p)
  PROVE  Safe(gain + b - Head(q), Tail(q), n - 1, p)
<1> DEFINE s == SubSeq(q, 1, n)
           r == SubSeq(Tail(q), 1, n - 1)
           h == Head(q)
<1>0. q # <<>> /\ Len(q) \in Nat \ {0} /\ n \in Nat /\ q \in Seq(Nat \ {0}) BY DEF Lots
<1>1. h \in Nat /\ h = q[1] /\ \A i \in 1 .. Len(q) : h <= q[i] /\ q[i] \in Nat
  BY <1>0, TailAscends DEF Lots
<1>2. s \in Seq(Int) /\ Len(s) = n /\ \A i \in 1 .. n : s[i] = q[i]
  BY <1>0
<1>3. Tail(q) \in Seq(Nat \ {0}) /\ Len(Tail(q)) = Len(q) - 1
      /\ \A i \in 1 .. Len(q) - 1 : Tail(q)[i] = q[i + 1]
  BY <1>0
<1>4. r \in Seq(Int) /\ Len(r) = n - 1 /\ \A i \in 1 .. n - 1 : r[i] = q[i + 1]
  BY <1>0, <1>3
<1>5. s # <<>> /\ Head(s) = h BY <1>0, <1>1, <1>2
<1>6. Tail(s) = r
  <2>1. Tail(s) \in Seq(Int) /\ Len(Tail(s)) = n - 1 /\ \A i \in 1 .. n - 1 : Tail(s)[i] = s[i + 1]
    BY <1>0, <1>2, <1>5
  <2>2. \A i \in 1 .. n - 1 : Tail(s)[i] = r[i] BY <1>0, <1>2, <1>4, <2>1
  <2> QED BY <1>4, <2>1, <2>2, SeqEqual
<1>7. Total(s) = h + Total(r) BY <1>2, <1>5, <1>6, TotalCons
<1>8. Total(r) \in Int /\ Total(r) >= h * (n - 1)
  <2>1. \A i \in 1 .. Len(r) : r[i] >= h
    <3>1. \A i \in 1 .. Len(r) : i + 1 \in 1 .. Len(q) /\ r[i] = q[i + 1] BY <1>0, <1>4
    <3> HIDE DEF r, h
    <3> QED BY <1>1, <3>1
  <2> HIDE DEF r, h
  <2>2. h \in Int /\ r \in Seq(Int) /\ Len(r) = n - 1 BY <1>1, <1>4
  <2>4. Total(r) >= h * Len(r) BY <2>1, <2>2, TotalAtLeast
  <2>3. Total(r) \in Int BY <1>4, TotalType
  <2> QED BY <2>2, <2>3, <2>4
<1>9. gain >= 0 /\ gain + p * n - Total(s) >= 0 BY DEF Safe
<1> HIDE DEF s, r, h
<1> DEFINE m == n - 1
<1>10. m \in Nat /\ m + 1 = n BY <1>0
<1>11. gain + p * (m + 1) - (h + Total(r)) >= 0 BY <1>7, <1>9, <1>10
<1> HIDE DEF m
<1>12. gain + b - h >= 0 /\ (gain + b - h) + p * m - Total(r) >= 0
  <2>1. Total(r) >= h * m BY <1>8 DEF m
  <2>2. gain \in Int /\ b \in Int /\ p \in Int /\ h \in Int /\ Total(r) \in Int BY <1>1, <1>8
  <2> QED BY <1>9, <1>10, <1>11, <2>1, <2>2, SaleSums
<1> QED BY <1>12 DEF Safe, r, h, m

\* And when as many go as the bids take.
LEMMA SoldSafe ==
  ASSUME NEW t \in Seq(Trade), NEW b \in Seq(Nat \ {0}), NEW n \in 0 .. Len(b),
         NEW size \in Nat, n <= size, size <= Len(Replay(t)), NEW p \in Nat,
         \A i \in 1 .. n : b[i] >= p, Ascending(Replay(t)), Safe(GainOf(t), Replay(t), size, p)
  PROVE  /\ Ascending(Replay(t \o Sold(b, n)))
         /\ Safe(GainOf(t \o Sold(b, n)), Replay(t \o Sold(b, n)), size - n, p)
<1> DEFINE u(k) == t \o Sold(b, k)
           Claim(k) == /\ Len(Replay(u(k))) >= size - k /\ Ascending(Replay(u(k)))
                       /\ Safe(GainOf(u(k)), Replay(u(k)), size - k, p)
           G == {k \in Nat : k <= n => Claim(k)}
<1>0. Len(b) \in Nat /\ n \in Nat /\ Len(Replay(t)) \in Nat
  BY ReplayType DEF Lots
<1>1. 0 \in G
  <2>1. u(0) = t BY SoldStep
  <2>2. size - 0 = size OBVIOUS
  <2> HIDE DEF u
  <2>3. Claim(0) BY <1>0, <2>1, <2>2
  <2> QED BY <2>3
<1>2. ASSUME NEW k \in Nat, k \in G PROVE k + 1 \in G
  <2> SUFFICES ASSUME k + 1 <= n PROVE Claim(k + 1) OBVIOUS
  <2>1. Claim(k) BY <1>0, <1>2
  <2>2. k < Len(b) /\ k \in 0 .. Len(b) /\ k + 1 \in 1 .. n /\ k + 1 \in 1 .. Len(b)
        /\ size - k \in Nat \ {0}
    BY <1>0
  <2>3. u(k) \in Seq(Trade) /\ u(k + 1) = Append(u(k), Sale(b[k + 1])) BY <2>2, SoldStep
  <2>4. b[k + 1] \in Nat \ {0} /\ b[k + 1] >= p BY <2>2
  <2> DEFINE q == Replay(u(k))
  <2> HIDE DEF u
  <2>5. q \in Lots /\ q \in Seq(Nat \ {0}) /\ Len(q) \in Nat BY <2>3, ReplayType DEF Lots
  <2>6. q # <<>>
    <3>1. Len(q) # 0 BY <2>1, <2>2, <2>5
    <3>2. Len(<<>>) = 0 OBVIOUS
    <3> QED BY <3>1, <3>2, Zenon
  <2>7. Replay(u(k + 1)) = Tail(q) BY <2>3, <2>4, <2>6, SaleTakesTheOldest
  <2>8. GainOf(u(k + 1)) = GainOf(u(k)) + b[k + 1] - Head(q) BY <2>3, <2>4, <2>6, SaleGain
  <2>9. GainOf(u(k)) \in Int BY <2>3, GainType
  <2>10. Ascending(q) /\ Safe(GainOf(u(k)), q, size - k, p) /\ size - k \in 1 .. Len(q)
    BY <2>1, <2>2, <2>5
  <2>11. Safe(GainOf(u(k)) + b[k + 1] - Head(q), Tail(q), (size - k) - 1, p)
    BY <2>4, <2>5, <2>9, <2>10, SellOne
  <2>12. (size - k) - 1 = size - (k + 1) OBVIOUS
  <2>13. Ascending(Tail(q)) /\ Len(Tail(q)) >= size - (k + 1)
    BY <2>2, <2>5, <2>6, <2>10, TailAscends
  <2> HIDE DEF q
  <2> QED BY <2>7, <2>8, <2>11, <2>12, <2>13
<1>3. n \in G
  <2> HIDE DEF G
  <2> QED BY <1>0, <1>1, <1>2, Inductive
<1> QED BY <1>0, <1>3

-----------------------------------------------------------------------------
(* Type correctness of ExitPricing. *)

\* What plan_exit and the forced exits can be.
Goals == [action : {"noop", "rest", "B0", "A_market", "forced"}, price : Nat]

\* The world keeps its types, and our sell rests above the bids for lots that are held.
WorldTypes ==
  /\ <<mode, stop>> \in Settings
  /\ trades \in Seq(Trade) /\ listed \in 0 .. Len(trades) /\ shown \in 0 .. Len(trades)
  /\ bids \in Seq(Nat \ {0}) /\ Descending(bids)
  /\ ask \in Asks /\ (ask > 0 => Best(bids) < ask)
  /\ sell \in [price : Nat, left : Nat]
  /\ sell # NoSell => sell.left \in 1 .. Held /\ Best(bids) < sell.price
  /\ reasons \subseteq {"stop", "market", "falling", "stale"}

\* What the tick holds.  A sell that the list did not show is not there, and a sell
\* is put to rest at no less than a cost that is known.
TickTypes ==
  /\ pc \in {"idle", "reads", "cancel", "place", "sell"}
  /\ read \subseteq {"position", "trades", "book"}
  /\ snap \in [price : Nat, left : Nat] /\ pos \in Nat /\ lots \in Lots
  /\ seen \in [bid : Nat, ask : Nat] /\ goal \in Goals
  /\ pc # "reads" => read = {}
  /\ pc = "reads" /\ snap = NoSell => sell = NoSell
  /\ pc = "place" => goal.action = "rest" /\ sell = NoSell
  /\ pc \in {"cancel", "place"} /\ goal.action = "rest" =>
       goal.price > 0 /\ CostKnown(lots, pos) /\ Total(lots) <= goal.price * pos

\* The values that are true or false, which a prover of their own deals with.
Flags == resolving \in BOOLEAN /\ clean \in BOOLEAN /\ settled \in BOOLEAN

PricingTypes == WorldTypes /\ TickTypes

\* The best bid is the first, or none.
LEMMA BestBid ==
  ASSUME NEW b \in Seq(Nat \ {0})
  PROVE  /\ Best(b) \in Nat
         /\ Len(b) > 0 => Best(b) = b[1]
         /\ Len(b) = 0 => Best(b) = 0
BY DEF Best

LEMMA QueueType ==
  ASSUME trades \in Seq(Trade)
  PROVE  Queue \in Lots /\ Queue \in Seq(Nat \ {0}) /\ Queue \in Seq(Int) /\ Held \in Nat
         /\ Len(trades) \in Nat
<1>1. Queue \in Lots BY ReplayType DEF Queue
<1> QED BY <1>1 DEF Lots, Held

LEMMA TypesImplyTypeOK == PricingTypes /\ Flags => TypeOK
<1> SUFFICES ASSUME PricingTypes, Flags PROVE TypeOK OBVIOUS
<1>1. \A i \in DOMAIN trades : trades[i].side \in {"buy", "sell"} /\ trades[i].price > 0
  <2> SUFFICES ASSUME NEW i \in DOMAIN trades
               PROVE  trades[i].side \in {"buy", "sell"} /\ trades[i].price > 0
    OBVIOUS
  <2>1. trades \in Seq(Trade) BY DEF PricingTypes, WorldTypes
  <2>2. i \in 1 .. Len(trades) BY <2>1
  <2>3. trades[i] \in Trade BY <2>1, <2>2, ElementOfSeq
  <2> QED BY <2>3 DEF Trade
<1> QED BY <1>1 DEF TypeOK, PricingTypes, Flags, WorldTypes, TickTypes, Goals

\* The bids that a sale takes, and what is left.
LEMMA BidsTakenStep ==
  ASSUME WorldTypes, NEW size \in Nat, size <= Held, NEW limit \in Nat, TakesBids(size, limit)
  PROVE  \E n \in Nat :
           /\ n <= size /\ n <= Len(bids) /\ trades' = trades \o Sold(bids, n)
           /\ trades' \in Seq(Trade) /\ Len(trades') = Len(trades) + n
           /\ Queue' = SubSeq(Queue, n + 1, Held) /\ Held' = Held - n
           /\ bids' \in Seq(Nat \ {0}) /\ Descending(bids)'
           /\ Best(bids)' <= Best(bids) /\ Best(bids)' \in Nat
           /\ \A i \in 1 .. n : bids[i] >= limit
           /\ n < size /\ limit > 0 => Best(bids)' < limit
           /\ n = 0 => trades' = trades /\ bids' = bids
<1> DEFINE n == Cardinality({i \in 1..Min({size, Len(bids)}) : bids[i] >= limit})
<1>1. bids \in Seq(Nat \ {0}) /\ Descending(bids) /\ trades \in Seq(Trade) BY DEF WorldTypes
<1>2. /\ n \in Nat /\ n <= size /\ n <= Len(bids)
      /\ \A i \in 1 .. n : bids[i] >= limit
      /\ n < size /\ n < Len(bids) => bids[n + 1] < limit
  BY <1>1, BidsTaken
<1>3. /\ trades' = trades \o Sold(bids, n) /\ bids' = SubSeq(bids, n + 1, Len(bids))
  BY DEF TakesBids, Sold, Sale
<1> HIDE DEF n
<1>4. n \in 0 .. Len(bids) /\ Len(bids) \in Nat BY <1>1, <1>2
<1>5. trades' \in Seq(Trade) /\ Len(trades') = Len(trades) + n
  BY <1>1, <1>3, <1>4, SoldStep
<1>6. n <= Len(Replay(trades)) /\ Held \in Nat
  BY <1>1, <1>2, QueueType DEF Held, Queue
<1>7. Queue' = SubSeq(Queue, n + 1, Held)
  BY <1>1, <1>3, <1>4, <1>6, SoldQueue DEF Queue, Held
<1>8. Held' = Held - n
  <2>1. Queue \in Seq(Nat \ {0}) /\ Held = Len(Queue) BY <1>1, QueueType DEF Held
  <2>2. Len(SubSeq(Queue, n + 1, Held)) = Held - n
    BY <1>2, <1>6, <2>1
  <2> QED BY <1>7, <2>2 DEF Held
<1>9. /\ bids' \in Seq(Nat \ {0}) /\ Len(bids') = Len(bids) - n
      /\ \A i \in 1 .. Len(bids') : bids'[i] = bids[i + n]
  BY <1>1, <1>3, <1>4
<1>10. Descending(bids)'
  <2> SUFFICES ASSUME NEW i \in 1 .. Len(bids'), NEW j \in 1 .. Len(bids'), i <= j
               PROVE  bids'[i] >= bids'[j]
    BY <1>9 DEF Descending
  <2>1. i + n \in 1 .. Len(bids) /\ j + n \in 1 .. Len(bids) /\ i + n <= j + n
    BY <1>4, <1>9
  <2>2. bids[i + n] >= bids[j + n] BY <1>1, <2>1 DEF Descending
  <2> QED BY <1>9, <2>2
<1>11. \/ Len(bids') = 0 /\ Best(bids') = 0
       \/ Len(bids) > n /\ Best(bids') = bids[n + 1] /\ Best(bids) = bids[1]
  <2>1. CASE Len(bids') = 0 BY <1>9, <2>1, BestBid
  <2>2. CASE Len(bids') # 0
    <3>1. Len(bids') > 0 /\ Len(bids) > n /\ Len(bids) > 0 BY <1>4, <1>9, <2>2
    <3>2. bids'[1] = bids[n + 1] BY <1>4, <1>9, <3>1
    <3> QED BY <1>1, <1>9, <3>1, <3>2, BestBid
  <2> QED BY <2>1, <2>2
<1>12. Best(bids') <= Best(bids) /\ Best(bids') \in Nat
  <2>1. Best(bids) \in Nat /\ Best(bids') \in Nat BY <1>1, <1>9, BestBid
  <2>2. Len(bids) > n => bids[1] >= bids[n + 1]
    <3> SUFFICES ASSUME Len(bids) > n PROVE bids[1] >= bids[n + 1] OBVIOUS
    <3>1. 1 \in DOMAIN bids /\ n + 1 \in DOMAIN bids /\ 1 <= n + 1 BY <1>1, <1>4
    <3> QED BY <1>1, <3>1 DEF Descending
  <2> QED BY <1>11, <2>1, <2>2
<1>13. n < size /\ limit > 0 => Best(bids') < limit
  BY <1>2, <1>4, <1>11
<1>14. n = 0 => trades' = trades /\ bids' = bids
  <2> SUFFICES ASSUME n = 0 PROVE trades' = trades /\ bids' = bids OBVIOUS
  <2>1. SubSeq(bids, 1, Len(bids)) = bids BY <1>1
  <2>2. 0 + 1 = 1 OBVIOUS
  <2>3. trades \o Sold(bids, 0) = trades BY <1>1, SoldStep
  <2> QED BY <1>3, <2>1, <2>2, <2>3, Zenon
<1> QED BY <1>2, <1>3, <1>5, <1>7, <1>8, <1>9, <1>10, <1>12, <1>13, <1>14

\* A sell that is to rest is asked for a cost that is known, and asks for no less.
LEMMA DecisionType ==
  ASSUME TickTypes
  PROVE  /\ Decision \in Goals
         /\ Decision.action = "rest" =>
              /\ ~ Forced /\ CostKnown(lots, pos)
              /\ Decision = PlanExit(lots, seen.bid, seen.ask, mode, stop)
              /\ Decision = Rest(Decision.price)
              /\ Decision.price > 0 /\ Total(lots) <= Decision.price * pos
<1>1. seen.bid \in Nat /\ seen.ask \in Nat /\ lots \in Lots /\ pos \in Nat BY DEF TickTypes
<1>2. CASE Forced BY <1>1, <1>2 DEF Decision, Goals, Noop
<1>3. CASE ~ CostKnown(lots, pos) BY <1>1, <1>3 DEF Decision, Goals, Noop
<1>4. CASE ~ Forced /\ CostKnown(lots, pos)
  <2>1. Len(lots) = pos /\ pos > 0 BY <1>4 DEF CostKnown
  <2>2. lots # <<>>
    <3>1. Len(<<>>) = 0 OBVIOUS
    <3>2. Len(lots) # 0 BY <2>1
    <3> QED BY <3>1, <3>2, Zenon
  <2> DEFINE d == PlanExit(lots, seen.bid, seen.ask, mode, stop)
  <2>3. Decision = d BY <1>4 DEF Decision
  <2>4. /\ d \in [action : {"noop", "rest", "B0", "A_market"}, price : Nat]
        /\ d.action = "rest" => d.price >= CostFloor(lots)
    BY <1>1, <2>2, PlanRests
  <2>5. CostFloor(lots) \in Nat \ {0} /\ Total(lots) <= CostFloor(lots) * Len(lots)
    BY <1>1, <2>2, CostFloorCovers
  <2> HIDE DEF d
  <2>6. lots \in Seq(Int) BY <1>1 DEF Lots
  <2>7. Total(lots) \in Int BY <2>6, TotalType
  <2>8. ASSUME d.action = "rest" PROVE d.price > 0 /\ Total(lots) <= d.price * pos
    <3> DEFINE c == CostFloor(lots)
               p == d.price
    <3>1. p \in Nat /\ c \in Nat \ {0} /\ p >= c BY <2>4, <2>5, <2>8
    <3>2. Total(lots) <= c * pos BY <2>1, <2>5
    <3> HIDE DEF c, p
    <3>3. p * pos >= c * pos /\ p * pos \in Int /\ c * pos \in Int BY <1>1, <3>1, TimesGrows
    <3> QED BY <2>7, <3>1, <3>2, <3>3 DEF p
  <2>9. d \in Goals BY <2>4 DEF Goals
  <2>10. d.action = "rest" => d = Rest(d.price) BY <2>4 DEF Rest
  <2> QED BY <1>4, <2>3, <2>8, <2>9, <2>10 DEF d
<1> QED BY <1>2, <1>3, <1>4

\* Sells of ours that fill, one lot at a time.
LEMMA LessOneType ==
  ASSUME NEW s \in [price : Nat, left : Nat], NEW h \in Nat, s.left \in 1 .. h
  PROVE  /\ LessOne(s) \in [price : Nat, left : Nat]
         /\ LessOne(s) # NoSell =>
              /\ LessOne(s).price = s.price /\ LessOne(s).left = s.left - 1
              /\ LessOne(s).left \in 1 .. h - 1
         /\ LessOne(s) = NoSell => s.left = 1
<1>1. CASE s.left > 1
  <2>1. LessOne(s) = [s EXCEPT !.left = s.left - 1] BY <1>1 DEF LessOne
  <2>2. LessOne(s) = [price |-> s.price, left |-> s.left - 1] BY <2>1
  <2>3. LessOne(s).price = s.price /\ LessOne(s).left = s.left - 1 BY <2>2
  <2> QED BY <1>1, <2>2, <2>3 DEF NoSell
<1>2. CASE s.left = 1 BY <1>2 DEF LessOne, NoSell
<1> QED BY <1>1, <1>2

LEMMA SellFillsStep ==
  ASSUME WorldTypes, SellFills
  PROVE  /\ sell.price \in Nat \ {0} /\ sell.left \in 1 .. Held
         /\ trades' = Append(trades, Sale(sell.price)) /\ trades' \in Seq(Trade)
         /\ Queue # <<>> /\ Queue' = Tail(Queue) /\ Held' = Held - 1
<1>1. trades \in Seq(Trade) /\ bids \in Seq(Nat \ {0}) BY DEF WorldTypes
<1>2. Best(bids) \in Nat BY <1>1, BestBid
<1>3. sell.price \in Nat /\ sell.left \in 1 .. Held /\ Best(bids) < sell.price
  BY DEF WorldTypes, SellFills
<1>4. sell.price \in Nat \ {0} BY <1>2, <1>3
<1>5. Queue \in Seq(Nat \ {0}) /\ Held \in Nat /\ Held = Len(Queue)
  BY <1>1, QueueType DEF Held
<1>6. Queue # <<>>
  <2>1. Len(Queue) # 0 BY <1>3, <1>5
  <2>2. Len(<<>>) = 0 OBVIOUS
  <2> QED BY <2>1, <2>2, Zenon
<1>7. trades' = Append(trades, Sale(sell.price)) BY DEF SellFills, Sale
<1>8. trades' \in Seq(Trade) /\ Queue' = Tail(Queue)
  BY <1>1, <1>4, <1>6, <1>7, SaleTakesTheOldest DEF Queue
<1>9. Held' = Held - 1 BY <1>5, <1>6, <1>8 DEF Held
<1> QED BY <1>3, <1>4, <1>6, <1>7, <1>8, <1>9

LEMMA BuyFillsStep ==
  ASSUME WorldTypes, NEW p \in Prices, BuyFills(p)
  PROVE  /\ trades' \in Seq(Trade) /\ Len(trades') = Len(trades) + 1
         /\ Queue' = Append(Queue, p) /\ Held' = Held + 1 /\ Gain' = Gain
<1>1. trades \in Seq(Trade) BY DEF WorldTypes
<1>2. p \in Nat \ {0} BY ExitAssumption
<1>3. trades' = Append(trades, [side |-> "buy", price |-> p]) BY DEF BuyFills
<1>4. trades' \in Seq(Trade) /\ Queue' = Append(Queue, p) /\ GainOf(trades') = GainOf(trades)
  BY <1>1, <1>2, <1>3, BuyGain DEF Queue
<1>5. Held' = Held + 1 BY <1>1, <1>2, <1>4, QueueType DEF Held
<1>6. Gain' = Gain BY <1>4, GainIs DEF Gain, GainOf, Moved, Queue
<1> QED BY <1>1, <1>3, <1>4, <1>5, <1>6

\* What the tick holds when it holds nothing.
LEMMA NothingIsTyped ==
  /\ NoSell \in [price : Nat, left : Nat] /\ NoBook \in [bid : Nat, ask : Nat]
  /\ Noop \in Goals /\ Noop.action # "rest" /\ <<>> \in Lots
BY DEF NoSell, NoBook, Noop, Goals, Lots

LEMMA WorldStep ==
  ASSUME PricingTypes, [World]_vars
  PROVE  PricingTypes'
<1>1. trades \in Seq(Trade) /\ Held \in Nat /\ Len(trades) \in Nat
  BY QueueType DEF PricingTypes, WorldTypes
<1>2. ASSUME UNCHANGED vars PROVE PricingTypes'
  <2>1. Queue' = Queue /\ Held' = Held BY <1>2 DEF vars, worldVars, Queue, Held
  <2>2. WorldTypes' BY <1>2, <2>1 DEF vars, worldVars, PricingTypes, WorldTypes
  <2>3. TickTypes' BY <1>2 DEF vars, worldVars, tickVars, PricingTypes, TickTypes
  <2> QED BY <2>2, <2>3 DEF PricingTypes
<1>3. ASSUME Disturbs, sell = NoSell => sell' = NoSell PROVE TickTypes'
  BY <1>3 DEF Disturbs, tickVars, PricingTypes, TickTypes
<1>4. ASSUME NEW p \in Prices, BuyFills(p) PROVE PricingTypes'
  <2>1. /\ trades' \in Seq(Trade) /\ Len(trades') = Len(trades) + 1 /\ Held' = Held + 1
    BY <1>4, BuyFillsStep DEF PricingTypes
  <2>2. WorldTypes' BY <1>1, <1>4, <2>1 DEF BuyFills, Disturbs, PricingTypes, WorldTypes
  <2> QED BY <1>3, <1>4, <2>2 DEF BuyFills, PricingTypes
<1>5. ASSUME SellFills PROVE PricingTypes'
  <2>1. /\ sell.left \in 1 .. Held /\ sell.price \in Nat
        /\ trades' \in Seq(Trade) /\ Held' = Held - 1
        /\ trades' = Append(trades, Sale(sell.price))
    BY <1>5, SellFillsStep DEF PricingTypes
  <2>2. Len(trades') = Len(trades) + 1 BY <1>1, <2>1
  <2>3. sell' = LessOne(sell) /\ sell # NoSell BY <1>5 DEF SellFills
  <2>4. sell \in [price : Nat, left : Nat] BY DEF PricingTypes, WorldTypes
  <2>5. /\ sell' \in [price : Nat, left : Nat]
        /\ sell' # NoSell => sell'.price = sell.price /\ sell'.left \in 1 .. Held - 1
    BY <1>1, <2>1, <2>3, <2>4, LessOneType
  <2>6. WorldTypes'
    BY <1>1, <1>5, <2>1, <2>2, <2>3, <2>5 DEF SellFills, Disturbs, PricingTypes, WorldTypes
  <2> QED BY <1>3, <1>5, <2>3, <2>6 DEF SellFills, PricingTypes
<1>6. ASSUME Publish \/ CatchUp PROVE PricingTypes'
  <2>1. Queue' = Queue /\ Held' = Held BY <1>6 DEF Publish, CatchUp, Queue, Held
  <2>2. listed' \in 0 .. Len(trades) /\ shown' \in 0 .. Len(trades)
        /\ UNCHANGED <<mode, stop, trades, bids, ask, sell, reasons>>
    BY <1>1, <1>6 DEF Publish, CatchUp, Disturbs, PricingTypes, WorldTypes
  <2>3. WorldTypes' BY <2>1, <2>2 DEF PricingTypes, WorldTypes
  <2> QED BY <1>3, <1>6, <2>3 DEF Publish, CatchUp, PricingTypes
<1>7. ASSUME BookMoves PROVE PricingTypes'
  <2>1. Queue' = Queue /\ Held' = Held BY <1>7 DEF BookMoves, Queue, Held
  <2>2. bids' \in Seq(Nat \ {0}) /\ Descending(bids')
    BY <1>7, ExitAssumption DEF BookMoves, Descending
  <2>3. WorldTypes'
    BY <1>1, <1>7, <2>1, <2>2 DEF BookMoves, Disturbs, PricingTypes, WorldTypes, Descending
  <2> QED BY <1>3, <1>7, <2>3 DEF BookMoves, PricingTypes
<1> QED BY <1>2, <1>4, <1>5, <1>6, <1>7 DEF World

LEMMA ReplayOfPrefix ==
  ASSUME WorldTypes, NEW n \in 0 .. Len(trades)
  PROVE  Replay(SubSeq(trades, 1, n)) \in Lots /\ Len(Replay(SubSeq(trades, 1, n))) \in Nat
<1> DEFINE s == SubSeq(trades, 1, n)
<1>1. s \in Seq(Trade) BY DEF WorldTypes
<1> HIDE DEF s
<1>2. Replay(s) \in Lots BY <1>1, ReplayType
<1>3. Len(Replay(s)) \in Nat BY <1>2 DEF Lots
<1> QED BY <1>2, <1>3 DEF s

LEMMA ReadStep ==
  ASSUME PricingTypes, InTick,
         TickBegins \/ ReadPosition \/ ReadTrades \/ ReadBook \/ ReadFails \/ TickIsCut \/ Stays \/ Moves
  PROVE  PricingTypes'
<1>1. Queue' = Queue /\ Held' = Held BY DEF InTick, worldVars, Queue, Held
<1>2. WorldTypes' BY <1>1 DEF InTick, worldVars, PricingTypes, WorldTypes
<1> SUFFICES TickTypes' BY <1>2 DEF PricingTypes
<1>3. UNCHANGED sell BY DEF InTick, worldVars
<1>4. ASSUME TickEnds PROVE TickTypes'
  <2>1. /\ pc' = "idle" /\ read' = {} /\ snap' = NoSell /\ pos' = 0 /\ lots' = <<>>
        /\ seen' = NoBook /\ resolving' = FALSE /\ goal' = Noop
    BY <1>4 DEF TickEnds
  <2> QED BY <1>4, <2>1, NothingIsTyped DEF TickTypes
<1>5. CASE TickBegins
  BY <1>3, <1>5 DEF TickBegins, PricingTypes, TickTypes, WorldTypes
<1>6. CASE ReadPosition
  <2> DEFINE size == Len(Replay(SubSeq(trades, 1, shown)))
  <2>1. size \in Nat BY ReplayOfPrefix DEF PricingTypes, WorldTypes
  <2> HIDE DEF size
  <2>2. pc = "reads" BY <1>6 DEF ReadPosition
  <2>3. CASE TickEnds BY <1>4, <2>2, <2>3 DEF PricingTypes, TickTypes
  <2>4. CASE /\ pos' = size /\ read' = read \cup {"position"} /\ resolving' \in BOOLEAN
             /\ UNCHANGED <<pc, snap, lots, seen, goal>>
    BY <1>3, <2>1, <2>2, <2>4 DEF PricingTypes, TickTypes
  <2> QED BY <1>6, <2>3, <2>4 DEF ReadPosition, size
<1>7. CASE ReadTrades
  <2>1. Replay(SubSeq(trades, 1, listed)) \in Lots BY ReplayOfPrefix DEF PricingTypes, WorldTypes
  <2> QED BY <1>3, <1>7, <2>1 DEF ReadTrades, PricingTypes, TickTypes
<1>8. CASE ReadBook
  <2>1. Best(bids) \in Nat BY BestBid DEF PricingTypes, WorldTypes
  <2>2. ask \in Nat /\ sell.price \in Nat BY ExitAssumption DEF PricingTypes, WorldTypes
  <2>3. Min({ask, sell.price}) \in Nat BY <2>2, MinOfTwo
  <2>4. seen' \in [bid : Nat, ask : Nat] BY <1>8, <2>1, <2>2, <2>3 DEF ReadBook
  <2> QED BY <1>3, <1>8, <2>4 DEF ReadBook, PricingTypes, TickTypes
<1>9. CASE ReadFails
  BY <1>3, <1>9, NothingIsTyped DEF ReadFails, PricingTypes, TickTypes
<1>10. CASE TickIsCut BY <1>4, <1>10 DEF TickIsCut, PricingTypes, TickTypes
<1>11. CASE Stays BY <1>4, <1>11 DEF Stays, PricingTypes, TickTypes
<1>12. CASE Moves
  <2>1. TickTypes BY DEF PricingTypes
  <2>2. /\ Decision \in Goals
        /\ Decision.action = "rest" =>
             /\ CostKnown(lots, pos)
             /\ Decision.price > 0 /\ Total(lots) <= Decision.price * pos
    BY <2>1, DecisionType
  <2>3. /\ pc = "reads" /\ goal' = Decision /\ UNCHANGED <<pos, lots>>
        /\ pc' = IF snap # NoSell THEN "cancel"
                 ELSE IF Decision.action = "rest" THEN "place" ELSE "sell"
        /\ read' = {} /\ snap' = NoSell /\ seen' = NoBook /\ resolving' = FALSE
    BY <1>12 DEF Moves, Decides
  <2>4. sell' = sell /\ (snap = NoSell => sell = NoSell) BY <1>3, <2>1, <2>3 DEF TickTypes
  <2> QED BY <2>1, <2>2, <2>3, <2>4, NothingIsTyped DEF TickTypes
<1> QED BY <1>5, <1>6, <1>7, <1>8, <1>9, <1>10, <1>11, <1>12

LEMMA ActStep ==
  ASSUME PricingTypes, CancelSell \/ CancelFails \/ PlaceSell \/ SellAtMarket
  PROVE  PricingTypes'
<1>t. /\ trades \in Seq(Trade) /\ Held \in Nat /\ Len(trades) \in Nat
      /\ Best(bids) \in Nat /\ ask \in Nat
  BY QueueType, BestBid, ExitAssumption DEF PricingTypes, WorldTypes
<1>1. CASE CancelSell
  <2>1. Queue' = Queue /\ Held' = Held BY <1>1 DEF CancelSell, Queue, Held
  <2>2. WorldTypes'
    BY <1>1, <2>1 DEF CancelSell, Acting, NoSell, PricingTypes, WorldTypes
  <2>3. TickTypes' BY <1>1 DEF CancelSell, PricingTypes, TickTypes
  <2> QED BY <2>2, <2>3 DEF PricingTypes
<1>2. CASE CancelFails
  <2>1. Queue' = Queue /\ Held' = Held BY <1>2 DEF CancelFails, InTick, worldVars, Queue, Held
  <2>2. WorldTypes' BY <1>2, <2>1 DEF CancelFails, InTick, worldVars, PricingTypes, WorldTypes
  <2>3. TickTypes' BY <1>2 DEF CancelFails, InTick, worldVars, PricingTypes, TickTypes
  <2> QED BY <2>2, <2>3 DEF PricingTypes
<1>3. CASE PlaceSell
  <2>1. /\ pc = "place" /\ pos <= Held /\ TakesBids(pos, goal.price) /\ Acting
        /\ sell' = IF pos - (Len(trades') - Len(trades)) = 0 THEN NoSell
                   ELSE [price |-> goal.price, left |-> pos - (Len(trades') - Len(trades))]
        /\ reasons' \in {reasons, reasons \cup {"stale"}}
        /\ settled' = (clean /\ trades' = trades /\ pos = Held)
        /\ TickEnds /\ UNCHANGED clean
    BY <1>3 DEF PlaceSell
  <2>2. pos \in Nat /\ goal.price \in Nat \ {0} BY <2>1 DEF PricingTypes, TickTypes, Goals
  <2>3. PICK n \in Nat :
          /\ n <= pos /\ trades' \in Seq(Trade) /\ Len(trades') = Len(trades) + n
          /\ Held' = Held - n /\ bids' \in Seq(Nat \ {0}) /\ Descending(bids)'
          /\ Best(bids)' <= Best(bids) /\ Best(bids)' \in Nat
          /\ n < pos /\ goal.price > 0 => Best(bids)' < goal.price
    BY <2>1, <2>2, BidsTakenStep DEF PricingTypes
  <2>4. sell' = IF pos - n = 0 THEN NoSell ELSE [price |-> goal.price, left |-> pos - n]
    BY <1>t, <2>1, <2>3
  <2>5. /\ sell' \in [price : Nat, left : Nat]
        /\ sell' # NoSell => sell'.left \in 1 .. Held' /\ Best(bids)' < sell'.price
    BY <1>t, <2>1, <2>2, <2>3, <2>4 DEF NoSell
  <2>6. WorldTypes'
    <3>1. listed' \in 0 .. Len(trades') /\ shown' \in 0 .. Len(trades')
          /\ UNCHANGED <<mode, stop, ask>>
      BY <1>t, <2>1, <2>3 DEF Acting, PricingTypes, WorldTypes
    <3>2. reasons' \subseteq {"stop", "market", "falling", "stale"}
      BY <2>1 DEF PricingTypes, WorldTypes
    <3> QED BY <1>t, <2>3, <2>5, <3>1, <3>2 DEF PricingTypes, WorldTypes
  <2>7. TickTypes'
    <3>1. /\ pc' = "idle" /\ read' = {} /\ snap' = NoSell /\ pos' = 0 /\ lots' = <<>>
          /\ seen' = NoBook /\ resolving' = FALSE /\ goal' = Noop
      BY <2>1 DEF TickEnds
    <3> QED BY <3>1, NothingIsTyped DEF TickTypes
  <2> QED BY <2>6, <2>7 DEF PricingTypes
<1>4. CASE SellAtMarket
  <2>1. /\ pc = "sell" /\ pos <= Held - sell.left /\ TakesBids(pos, 0) /\ Acting
        /\ UNCHANGED <<sell, clean>> /\ settled' = FALSE /\ TickEnds
        /\ reasons' \in {reasons \cup {"market"}, reasons \cup {"stop"}}
    BY <1>4 DEF SellAtMarket
  <2>2. pos \in Nat /\ sell.left \in Nat /\ sell.price \in Nat
    BY DEF PricingTypes, TickTypes, WorldTypes
  <2>3. PICK n \in Nat :
          /\ n <= pos /\ trades' \in Seq(Trade) /\ Len(trades') = Len(trades) + n
          /\ Held' = Held - n /\ bids' \in Seq(Nat \ {0}) /\ Descending(bids)'
          /\ Best(bids)' <= Best(bids) /\ Best(bids)' \in Nat
    <3>1. pos <= Held /\ 0 \in Nat BY <1>t, <2>1, <2>2
    <3> QED BY <2>1, <2>2, <3>1, BidsTakenStep DEF PricingTypes
  <2>4. sell # NoSell => sell.left \in 1 .. Held' /\ Best(bids)' < sell.price
    BY <1>t, <2>1, <2>2, <2>3 DEF PricingTypes, WorldTypes
  <2>5. WorldTypes'
    <3>1. listed' \in 0 .. Len(trades') /\ shown' \in 0 .. Len(trades')
          /\ UNCHANGED <<mode, stop, ask>>
      BY <1>t, <2>1, <2>3 DEF Acting, PricingTypes, WorldTypes
    <3>2. reasons' \subseteq {"stop", "market", "falling", "stale"}
      BY <2>1 DEF PricingTypes, WorldTypes
    <3> QED BY <1>t, <2>1, <2>3, <2>4, <3>1, <3>2 DEF PricingTypes, WorldTypes
  <2>6. TickTypes'
    <3>1. /\ pc' = "idle" /\ read' = {} /\ snap' = NoSell /\ pos' = 0 /\ lots' = <<>>
          /\ seen' = NoBook /\ resolving' = FALSE /\ goal' = Noop
      BY <2>1 DEF TickEnds
    <3> QED BY <3>1, NothingIsTyped DEF TickTypes
  <2> QED BY <2>5, <2>6 DEF PricingTypes
<1> QED BY <1>1, <1>2, <1>3, <1>4

LEMMA PricingStartsTyped == Init => PricingTypes
<1> SUFFICES ASSUME Init PROVE PricingTypes OBVIOUS
<1>1. Queue = <<>> /\ Held = 0 BY ReplayEmpty DEF Init, Queue, Held
<1>2. \E s \in Settings : mode = s[1] /\ stop = s[2] BY DEF Init
<1>3. <<mode, stop>> \in Settings
  BY <1>2, ExitAssumption
<1>4. bids \in Seq(Nat \ {0}) /\ Descending(bids)
  BY ExitAssumption DEF Init, Descending
<1>5. WorldTypes BY <1>1, <1>3, <1>4 DEF Init, WorldTypes, NoSell
<1>6. TickTypes
  BY NothingIsTyped DEF Init, NoTick, TickTypes
<1> QED BY <1>5, <1>6 DEF PricingTypes

LEMMA PricingStepTypes ==
  ASSUME PricingTypes, [Next]_vars
  PROVE  PricingTypes'
<1>1. CASE [World]_vars BY <1>1, WorldStep
<1>2. CASE TickBegins \/ ReadPosition \/ ReadTrades \/ ReadBook \/ ReadFails \/ TickIsCut
           \/ Stays \/ Moves
  <2>1. InTick
    BY <1>2 DEF TickBegins, ReadPosition, ReadTrades, ReadBook, ReadFails, TickIsCut, Stays,
       Moves, Decides
  <2> QED BY <1>2, <2>1, ReadStep
<1>3. CASE CancelSell \/ CancelFails \/ PlaceSell \/ SellAtMarket BY <1>3, ActStep
<1> QED BY <1>1, <1>2, <1>3 DEF Next, Tick

LEMMA FlagsStep ==
  ASSUME Flags, [Next]_vars
  PROVE  Flags'
<1> USE DEF Flags
<1>1. CASE World
  BY <1>1, Zenon DEF World, BuyFills, SellFills, Publish, CatchUp, BookMoves, Disturbs, tickVars
<1>2. ASSUME TickEnds, clean' \in BOOLEAN, settled' \in BOOLEAN PROVE Flags'
  BY <1>2, Zenon DEF TickEnds
<1>3. CASE TickBegins \/ ReadTrades \/ ReadBook \/ ReadFails
  BY <1>3, Zenon DEF TickBegins, ReadTrades, ReadBook, ReadFails
<1>4. CASE ReadPosition BY <1>2, <1>4, Zenon DEF ReadPosition
<1>5. CASE TickIsCut \/ Stays \/ PlaceSell \/ SellAtMarket
  BY <1>2, <1>5, Zenon DEF TickIsCut, Stays, PlaceSell, SellAtMarket
<1>6. CASE Moves \/ CancelSell \/ CancelFails BY <1>6, Zenon DEF Moves, CancelSell, CancelFails
<1>7. CASE UNCHANGED vars BY <1>7, Zenon DEF vars, tickVars
<1> QED BY <1>1, <1>3, <1>4, <1>5, <1>6, <1>7 DEF Next, Tick

\* Every variable of ExitPricing keeps its type; our sell rests above every bid and for
\* no more than is held, whatever fills, and whenever it is placed or replaced.
THEOREM PricingTypeCorrect == Spec => []TypeOK
<1>1. Init => PricingTypes /\ Flags
  BY PricingStartsTyped, Zenon DEF Init, NoTick, Flags
<1>2. PricingTypes /\ Flags /\ [Next]_vars => PricingTypes' /\ Flags'
  BY PricingStepTypes, FlagsStep
<1> QED BY <1>1, <1>2, TypesImplyTypeOK, PTL DEF Spec

-----------------------------------------------------------------------------
(* Losses. *)

\* While there is no reason for a loss: nothing was lost, the lots were bought at rising
\* prices, and what rests can fill without a loss.
MoneyInv ==
  reasons = {} =>
    /\ GainOf(trades) >= 0 /\ Ascending(Queue)
    /\ sell # NoSell => Safe(GainOf(trades), Queue, sell.left, sell.price)

\* A lot that is not cheaper than those held keeps the prices rising.
LEMMA BoughtLast ==
  ASSUME NEW q \in Lots, NEW p \in Nat \ {0}, Ascending(q), \A i \in 1 .. Len(q) : q[i] <= p
  PROVE  Ascending(Append(q, p))
<1> DEFINE r == Append(q, p)
<1>1. /\ Len(q) \in Nat /\ Len(r) = Len(q) + 1 /\ r[Len(q) + 1] = p
      /\ \A i \in 1 .. Len(q) : r[i] = q[i] /\ q[i] \in Nat
  BY DEF Lots
<1> HIDE DEF r
<1>2. Ascending(r)
  <2> SUFFICES ASSUME NEW i \in 1 .. Len(r), NEW j \in 1 .. Len(r), i <= j
               PROVE  r[i] <= r[j]
    BY DEF Ascending
  <2>1. CASE j <= Len(q)
    <3>1. i \in 1 .. Len(q) /\ j \in 1 .. Len(q) BY <1>1, <2>1
    <3>2. q[i] <= q[j] BY <3>1 DEF Ascending
    <3> QED BY <1>1, <3>1, <3>2
  <2>2. CASE j = Len(q) + 1
    <3>1. i \in 1 .. Len(q) \/ i = j BY <1>1, <2>2
    <3> QED BY <1>1, <2>2, <3>1
  <2> QED BY <1>1, <2>1, <2>2
<1> QED BY <1>2 DEF r

\* A lot that is bought is sold after those on sale.
LEMMA SafeIsOfTheFirst ==
  ASSUME NEW q \in Lots, NEW p \in Nat \ {0}, NEW n \in 1 .. Len(q), NEW g, NEW price,
         Safe(g, q, n, price)
  PROVE  Safe(g, Append(q, p), n, price)
<1>1. q \in Seq(Nat \ {0}) BY DEF Lots
<1>2. SubSeq(Append(q, p), 1, n) = SubSeq(q, 1, n) BY <1>1
<1> QED BY <1>2 DEF Safe

LEMMA MoneyStep ==
  ASSUME PricingTypes, MoneyInv, [Next]_vars
  PROVE  MoneyInv'
<1>t. /\ WorldTypes /\ trades \in Seq(Trade) /\ Held \in Nat /\ Held = Len(Queue)
      /\ Queue \in Lots /\ Queue = Replay(trades)
  BY QueueType DEF PricingTypes, WorldTypes, Queue, Held
<1>1. ASSUME trades' = trades, reasons' = reasons, sell' = sell \/ sell' = NoSell
      PROVE  MoneyInv'
  <2>1. Queue' = Queue BY <1>1 DEF Queue
  <2> QED BY <1>1, <2>1 DEF MoneyInv
<1>2. ASSUME NEW p \in Prices, BuyFills(p) PROVE MoneyInv'
  <2> SUFFICES ASSUME reasons' = {}
               PROVE  /\ GainOf(trades') >= 0 /\ Ascending(Queue')
                      /\ sell' # NoSell => Safe(GainOf(trades'), Queue', sell'.left, sell'.price)
    BY DEF MoneyInv
  <2>1. p \in Nat \ {0} BY ExitAssumption
  <2>2. /\ Queue' = Append(Queue, p) /\ GainOf(trades') = GainOf(trades)
    BY <1>t, <1>2, <2>1, BuyGain DEF BuyFills, Queue
  <2>3. reasons = {} /\ sell' = sell /\ ~ \E i \in 1 .. Held : p < Queue[i]
    BY <1>2 DEF BuyFills
  <2>4. \A i \in 1 .. Len(Queue) : Queue[i] <= p BY <1>t, <2>1, <2>3 DEF Lots
  <2>5. Ascending(Queue') BY <1>t, <2>1, <2>2, <2>3, <2>4, BoughtLast DEF MoneyInv
  <2>6. ASSUME sell # NoSell PROVE Safe(GainOf(trades), Append(Queue, p), sell.left, sell.price)
    <3>1. sell.left \in 1 .. Len(Queue) BY <1>t, <2>6 DEF WorldTypes
    <3>2. Safe(GainOf(trades), Queue, sell.left, sell.price) BY <2>3, <2>6 DEF MoneyInv
    <3> QED BY <1>t, <2>1, <3>1, <3>2, SafeIsOfTheFirst
  <2>7. GainOf(trades) >= 0 BY <2>3 DEF MoneyInv
  <2> QED BY <2>2, <2>3, <2>5, <2>6, <2>7
<1>3. ASSUME SellFills PROVE MoneyInv'
  <2> SUFFICES ASSUME reasons' = {}
               PROVE  /\ GainOf(trades') >= 0 /\ Ascending(Queue')
                      /\ sell' # NoSell => Safe(GainOf(trades'), Queue', sell'.left, sell'.price)
    BY DEF MoneyInv
  <2> DEFINE p == sell.price
             n == sell.left
             g == GainOf(trades)
  <2>1. /\ p \in Nat \ {0} /\ n \in 1 .. Held
        /\ trades' = Append(trades, Sale(p)) /\ Queue # <<>> /\ Queue' = Tail(Queue)
    BY <1>t, <1>3, SellFillsStep
  <2>2. reasons = {} /\ sell # NoSell /\ sell' = LessOne(sell) BY <1>3 DEF SellFills
  <2>3. Ascending(Queue) /\ Safe(g, Queue, n, p) BY <2>2 DEF MoneyInv
  <2>4. g \in Int BY <1>t, GainType
  <2>5. GainOf(trades') = g + p - Head(Queue) BY <1>t, <2>1, SaleGain
  <2>6. sell \in [price : Nat, left : Nat] BY <1>t DEF WorldTypes
  <2>7. sell' # NoSell => sell'.price = p /\ sell'.left = n - 1
    BY <1>t, <2>1, <2>2, <2>6, LessOneType
  <2> HIDE DEF p, n, g
  <2>8. Safe(g + p - Head(Queue), Tail(Queue), n - 1, p)
    <3>1. p \in Nat /\ p >= p /\ n \in 1 .. Len(Queue) BY <1>t, <2>1
    <3> QED BY <1>t, <2>3, <2>4, <3>1, SellOne
  <2>9. Ascending(Tail(Queue)) BY <1>t, <2>1, <2>3, TailAscends
  <2>10. GainOf(trades') >= 0 BY <2>5, <2>8 DEF Safe
  <2> QED BY <2>1, <2>5, <2>7, <2>8, <2>9, <2>10
<1>4. ASSUME PlaceSell PROVE MoneyInv'
  <2> SUFFICES ASSUME reasons' = {}
               PROVE  /\ GainOf(trades') >= 0 /\ Ascending(Queue')
                      /\ sell' # NoSell => Safe(GainOf(trades'), Queue', sell'.left, sell'.price)
    BY DEF MoneyInv
  <2> DEFINE p == goal.price
             g == GainOf(trades)
  <2>1. /\ pc = "place" /\ pos <= Held /\ TakesBids(pos, p)
        /\ sell' = IF pos - (Len(trades') - Len(trades)) = 0 THEN NoSell
                   ELSE [price |-> p, left |-> pos - (Len(trades') - Len(trades))]
        /\ reasons = {} /\ lots = SubSeq(Queue, 1, pos)
    BY <1>4 DEF PlaceSell
  <2>2. /\ pos \in Nat /\ p \in Nat /\ Total(lots) <= p * pos
    BY <2>1 DEF PricingTypes, TickTypes, Goals
  <2>3. PICK n \in Nat :
          /\ n <= pos /\ n <= Len(bids) /\ trades' = trades \o Sold(bids, n)
          /\ Len(trades') = Len(trades) + n
          /\ \A i \in 1 .. n : bids[i] >= p
    BY <1>t, <2>1, <2>2, BidsTakenStep
  <2>4. g \in Int /\ g >= 0 /\ Ascending(Queue) BY <1>t, <2>1, GainType DEF MoneyInv
  <2>5. Safe(g, Queue, pos, p)
    <3>1. Total(lots) \in Int
      <4>1. lots \in Seq(Int) BY DEF PricingTypes, TickTypes, Lots
      <4> QED BY <4>1, TotalType
    <3> DEFINE T == Total(lots)
               x == p * pos
    <3>2. T \in Int /\ x \in Int /\ T <= x BY <2>2, <3>1
    <3> HIDE DEF T, x, p, g
    <3>3. g + x - T >= 0 BY <2>4, <3>2
    <3>4. T = Total(SubSeq(Queue, 1, pos)) BY <2>1 DEF T
    <3> QED BY <2>4, <3>3, <3>4 DEF Safe, x
  <2>6. bids \in Seq(Nat \ {0}) /\ n \in 0 .. Len(bids) BY <1>t, <2>3 DEF WorldTypes
  <2> HIDE DEF p, g
  <2>7. /\ Ascending(Replay(trades \o Sold(bids, n)))
        /\ Safe(GainOf(trades \o Sold(bids, n)), Replay(trades \o Sold(bids, n)), pos - n, p)
    BY <1>t, <2>1, <2>2, <2>3, <2>4, <2>5, <2>6, SoldSafe DEF g
  <2>8. Ascending(Queue') /\ Safe(GainOf(trades'), Queue', pos - n, p)
    BY <2>3, <2>7 DEF Queue
  <2>9. Len(trades) \in Nat /\ Len(trades') - Len(trades) = n BY <1>t, <2>3
  <2>10. sell' # NoSell => sell'.price = p /\ sell'.left = pos - n BY <2>1, <2>9
  <2>11. GainOf(trades') >= 0 BY <2>8 DEF Safe
  <2> QED BY <2>8, <2>10, <2>11
<1>5. ASSUME SellAtMarket PROVE MoneyInv'
  <2>1. reasons' # {} BY <1>5 DEF SellAtMarket
  <2> QED BY <2>1 DEF MoneyInv
<1>6. CASE Publish \/ CatchUp \/ BookMoves
  <2>1. trades' = trades /\ reasons' = reasons /\ sell' = sell
    BY <1>6 DEF Publish, CatchUp, BookMoves
  <2> QED BY <1>1, <2>1
<1>7. CASE InTick \/ UNCHANGED vars
  <2>1. trades' = trades /\ reasons' = reasons /\ sell' = sell
    BY <1>7 DEF InTick, vars, worldVars
  <2> QED BY <1>1, <2>1
<1>8. CASE CancelSell
  <2>1. trades' = trades /\ reasons' = reasons /\ sell' = NoSell BY <1>8 DEF CancelSell
  <2> QED BY <1>1, <2>1
<1>9. TickBegins \/ ReadPosition \/ ReadTrades \/ ReadBook \/ ReadFails \/ TickIsCut \/ Stays
      \/ Moves \/ CancelFails => InTick
  BY DEF TickBegins, ReadPosition, ReadTrades, ReadBook, ReadFails, TickIsCut, Stays, Moves,
     CancelFails, Decides
<1> QED BY <1>2, <1>3, <1>4, <1>5, <1>6, <1>7, <1>8, <1>9 DEF Next, World, Tick

\* What was sold has brought in no less than its lots had cost unless something went to
\* the market, a lot was bought more cheaply than one already held, or a sell was placed
\* for lots that were not the next to be sold (take_profit.py 226-234, monitor.py
\* 789-805), for any trades and any moves of the book.
THEOREM LossesHaveReasons == Spec => []LossHasReason
<1>1. Init => MoneyInv
  <2> SUFFICES ASSUME Init PROVE GainOf(trades) >= 0 /\ Ascending(Queue) /\ sell = NoSell
    BY DEF MoneyInv
  <2>1. trades = <<>> /\ sell = NoSell BY DEF Init
  <2>2. Queue = <<>> BY <2>1, ReplayEmpty DEF Queue
  <2>3. \A side : Moved(<<>>, side) = <<>> BY DEF Moved
  <2>4. GainOf(<<>>) = 0 BY <2>3, ReplayEmpty, TotalEmpty DEF GainOf
  <2> QED BY <2>1, <2>2, <2>4 DEF Ascending
<1>2. PricingTypes /\ MoneyInv /\ [Next]_vars => PricingTypes' /\ MoneyInv'
  BY PricingStepTypes, MoneyStep
<1>3. PricingTypes /\ MoneyInv => LossHasReason
  <2> SUFFICES ASSUME PricingTypes, MoneyInv, reasons = {} PROVE ~ (Gain < 0)
    BY DEF LossHasReason
  <2>1. Gain >= 0 BY GainIs DEF MoneyInv
  <2>2. Gain \in Int BY GainIs, GainType DEF PricingTypes, WorldTypes
  <2> QED BY <2>1, <2>2
<1> QED BY <1>1, <1>2, <1>3, PricingStartsTyped, PTL DEF Spec

-----------------------------------------------------------------------------
(* What rests, and what an undisturbed tick leaves. *)

\* Is p what a sell of all that is held rests at, once it is in the book itself?
Rests(p) ==
  mode # "market_always" /\ p > 0 /\ PlanExit(Queue, Best(bids), WithOurs(ask, p), mode, stop) = Rest(p)

\* The book as a tick would read it, and trades that are all public.
BookNow == [bid |-> Best(bids), ask |-> IF sell = NoSell THEN ask ELSE WithOurs(ask, sell.price)]
Current == listed = Len(trades) /\ shown = Len(trades)

\* What an undisturbed tick has read is what there is.
CleanInv ==
  clean /\ pc # "idle" =>
    /\ Current
    /\ pc = "reads" =>
         /\ snap = sell
         /\ "position" \in read => pos = Held
         /\ "trades" \in read => lots = Queue
         /\ "book" \in read => seen = BookNow
    /\ pc \in {"cancel", "place"} /\ goal.action = "rest" =>
         pos = Held /\ Held > 0 /\ lots = Queue /\ Rests(goal.price)

\* What is settled is for all that is held, at the price the plan asks for; a tick knows
\* that, or knows nothing.
SettledInv ==
  settled =>
    /\ Current
    /\ sell # NoSell => sell.left = Held /\ Rests(sell.price)
    /\ pc = "reads" =>
         /\ snap = sell
         /\ "position" \in read => pos = Held
         /\ "trades" \in read => lots \in {Queue, <<>>}
         /\ "book" \in read => seen \in {BookNow, NoBook}
    /\ pc = "cancel" => goal.action # "rest"

QuietInv == CleanInv /\ SettledInv

LEMMA AllIsShown ==
  ASSUME WorldTypes, Current
  PROVE  SubSeq(trades, 1, shown) = trades /\ SubSeq(trades, 1, listed) = trades
BY DEF WorldTypes, Current

\* What an undisturbed tick decides, when it has read everything.
LEMMA CleanDecision ==
  ASSUME PricingTypes, CleanInv, clean, Decides, Decision.action = "rest"
  PROVE  /\ snap = sell /\ pos = Held /\ Held > 0 /\ lots = Queue
         /\ Rests(Decision.price) /\ Total(Queue) <= Decision.price * Held
<1>1. /\ snap = sell /\ pos = Held /\ lots = Queue /\ seen = BookNow
  BY DEF Decides, CleanInv
<1>2. /\ WorldTypes /\ TickTypes /\ Queue \in Lots /\ Held = Len(Queue)
      /\ Best(bids) \in Nat /\ ask \in Nat /\ sell.price \in Nat
  BY QueueType, BestBid, ExitAssumption DEF PricingTypes, WorldTypes, Held
<1>3. /\ Decision \in Goals /\ ~ Forced /\ CostKnown(lots, pos)
      /\ Decision = PlanExit(lots, seen.bid, seen.ask, mode, stop)
      /\ Decision = Rest(Decision.price)
      /\ Decision.price > 0 /\ Total(lots) <= Decision.price * pos
  BY <1>2, DecisionType
<1>4. Held > 0 /\ Queue # <<>>
  <2>1. Held > 0 /\ Len(Queue) # 0 BY <1>1, <1>2, <1>3 DEF CostKnown
  <2>2. Len(<<>>) = 0 OBVIOUS
  <2> QED BY <2>1, <2>2, Zenon
<1> DEFINE p == Decision.price
<1>5. p \in Nat BY <1>3 DEF Goals
<1>6. seen.bid = Best(bids) /\ seen.ask \in {ask, WithOurs(ask, sell.price)} BY <1>1 DEF BookNow
<1>7. PlanExit(Queue, Best(bids), seen.ask, mode, stop) = Rest(p) BY <1>1, <1>3, <1>6
<1> HIDE DEF p
<1>8. p > 0 /\ PlanExit(Queue, Best(bids), WithOurs(ask, p), mode, stop) = Rest(p)
  BY <1>2, <1>4, <1>5, <1>6, <1>7, OwnAskMovesNothing
<1>9. mode # "market_always" BY <1>3 DEF Forced
<1> QED BY <1>1, <1>3, <1>4, <1>8, <1>9 DEF Rests, p

\* A sell that is settled is in place for a tick that reads on.
LEMMA SettledInPlace ==
  ASSUME PricingTypes, SettledInv, settled, Decides, Decision.action = "rest", snap # NoSell
  PROVE  InPlace
<1>1. /\ snap = sell /\ pos = Held /\ lots \in {Queue, <<>>} /\ seen \in {BookNow, NoBook}
      /\ sell.left = Held /\ Rests(sell.price)
  BY DEF Decides, SettledInv
<1>2. /\ CostKnown(lots, pos) /\ Decision = PlanExit(lots, seen.bid, seen.ask, mode, stop)
  BY DecisionType DEF PricingTypes
<1>3. lots = Queue
  <2>1. Len(lots) = pos /\ pos > 0 BY <1>2 DEF CostKnown
  <2>2. lots # <<>>
    <3>1. Len(<<>>) = 0 OBVIOUS
    <3> QED BY <2>1, <3>1
  <2> QED BY <1>1, <2>2
<1>4. seen # NoBook
  <2> SUFFICES ASSUME seen = NoBook PROVE FALSE OBVIOUS
  <2>1. seen.bid = 0 /\ seen.ask = 0 BY DEF NoBook
  <2>2. Decision = Noop BY <1>2, <2>1 DEF PlanExit
  <2> QED BY <2>2 DEF Noop
<1>5. seen = BookNow BY <1>1, <1>4
<1>6. seen.bid = Best(bids) /\ seen.ask = WithOurs(ask, sell.price) BY <1>1, <1>5 DEF BookNow
<1>7. Decision = Rest(sell.price) BY <1>1, <1>2, <1>3, <1>6 DEF Rests
<1>8. snap = [price |-> sell.price, left |-> sell.left] BY <1>1 DEF PricingTypes, WorldTypes
<1> QED BY <1>1, <1>7, <1>8 DEF InPlace, Rest

LEMMA ReadQuietStep ==
  ASSUME PricingTypes, QuietInv, InTick,
         TickBegins \/ ReadPosition \/ ReadTrades \/ ReadBook \/ ReadFails \/ TickIsCut \/ Stays \/ Moves
  PROVE  QuietInv'
<1>1. /\ UNCHANGED <<mode, stop, trades, listed, shown, bids, ask, sell>>
      /\ Queue' = Queue /\ Held' = Held
  BY DEF InTick, worldVars, Queue, Held
<1>2. BookNow' = BookNow /\ Current' = Current /\ \A p : Rests(p)' = Rests(p)
  BY <1>1 DEF BookNow, Current, Rests
<1>3. WorldTypes /\ TickTypes /\ CleanInv /\ SettledInv BY DEF PricingTypes, QuietInv
<1>4. ASSUME TickEnds PROVE CleanInv' BY <1>4 DEF TickEnds, CleanInv
<1>5. ASSUME TickEnds, settled' => settled PROVE SettledInv'
  BY <1>1, <1>2, <1>3, <1>5 DEF TickEnds, SettledInv
<1>6. CASE TickBegins
  <2>1. read' = {} /\ pc' = "reads" /\ snap' = sell BY <1>3, <1>6 DEF TickBegins, TickTypes
  <2>2. CleanInv' BY <1>1, <1>2, <1>6, <2>1 DEF TickBegins, CleanInv, Current
  <2>3. SettledInv' BY <1>1, <1>2, <1>3, <1>6, <2>1 DEF TickBegins, SettledInv
  <2> QED BY <2>2, <2>3 DEF QuietInv
<1>7. CASE ReadPosition
  <2>1. pc = "reads" /\ UNCHANGED <<clean, settled>> BY <1>7 DEF ReadPosition
  <2>2. CASE TickEnds BY <1>4, <1>5, <2>1, <2>2 DEF QuietInv
  <2>3. CASE ~ TickEnds
    <3>1. /\ pos' = Len(Replay(SubSeq(trades, 1, shown)))
          /\ read' = read \cup {"position"} /\ UNCHANGED <<pc, snap, lots, seen, goal>>
      BY <1>7, <2>3 DEF ReadPosition
    <3>2. Current => pos' = Held BY <1>3, <3>1, AllIsShown DEF Held, Queue
    <3>3. CleanInv' BY <1>1, <1>2, <1>3, <2>1, <3>1, <3>2 DEF CleanInv
    <3>4. SettledInv' BY <1>1, <1>2, <1>3, <2>1, <3>1, <3>2 DEF SettledInv
    <3> QED BY <3>3, <3>4 DEF QuietInv
  <2> QED BY <2>2, <2>3
<1>8. CASE ReadTrades
  <2>1. /\ pc = "reads" /\ read' = read \cup {"trades"}
        /\ UNCHANGED <<pc, snap, pos, seen, goal, clean, settled>>
        /\ lots' = Replay(SubSeq(trades, 1, listed))
    BY <1>8 DEF ReadTrades
  <2>2. Current => lots' = Queue BY <1>3, <2>1, AllIsShown DEF Queue
  <2>3. CleanInv' BY <1>1, <1>2, <1>3, <2>1, <2>2 DEF CleanInv
  <2>4. SettledInv' BY <1>1, <1>2, <1>3, <2>1, <2>2 DEF SettledInv
  <2> QED BY <2>3, <2>4 DEF QuietInv
<1>9. CASE ReadBook
  <2>1. /\ pc = "reads" /\ read' = read \cup {"book"}
        /\ UNCHANGED <<pc, snap, pos, lots, goal, clean, settled>>
        /\ seen' = BookNow
    BY <1>9 DEF ReadBook, BookNow, WithOurs
  <2>2. CleanInv' BY <1>1, <1>2, <1>3, <2>1 DEF CleanInv
  <2>3. SettledInv' BY <1>1, <1>2, <1>3, <2>1 DEF SettledInv
  <2> QED BY <2>2, <2>3 DEF QuietInv
<1>10. CASE ReadFails
  <2>1. pc = "reads" /\ clean' = FALSE /\ UNCHANGED <<pc, snap, pos, goal, settled>>
    BY <1>10 DEF ReadFails
  <2>2. CleanInv' BY <2>1 DEF CleanInv
  <2>3. SettledInv' BY <1>1, <1>2, <1>3, <1>10, <2>1 DEF ReadFails, SettledInv
  <2> QED BY <2>2, <2>3 DEF QuietInv
<1>11. CASE TickIsCut BY <1>4, <1>5, <1>11 DEF TickIsCut, QuietInv
<1>12. CASE Stays
  <2>1. Decides /\ TickEnds /\ settled' = (settled \/ (clean /\ InPlace /\ sell.left = Held))
    BY <1>12 DEF Stays
  <2>2. CASE settled' => settled BY <1>4, <1>5, <2>1, <2>2 DEF QuietInv
  <2>3. CASE clean /\ InPlace /\ sell.left = Held
    <3>1. Decision.action = "rest" /\ snap = [price |-> Decision.price, left |-> pos]
      BY <2>3 DEF InPlace
    <3>2. snap = sell /\ Rests(Decision.price) BY <1>3, <2>1, <2>3, <3>1, CleanDecision
    <3>3. Rests(sell.price) BY <3>1, <3>2
    <3>4. pc # "idle" BY <2>1 DEF Decides
    <3>5. Current BY <1>3, <2>3, <3>4 DEF CleanInv
    <3>6. SettledInv' BY <1>1, <1>2, <2>1, <2>3, <3>3, <3>5 DEF TickEnds, SettledInv
    <3> QED BY <1>4, <2>1, <3>6 DEF QuietInv
  <2> QED BY <2>1, <2>2, <2>3
<1>13. CASE Moves
  <2>1. /\ Decides /\ Decision.action # "noop" /\ ~ InPlace /\ goal' = Decision
        /\ pc' = IF snap # NoSell THEN "cancel"
                 ELSE IF Decision.action = "rest" THEN "place" ELSE "sell"
        /\ UNCHANGED <<pos, lots, clean, settled>>
    BY <1>13 DEF Moves
  <2>2. pc = "reads" BY <2>1 DEF Decides
  <2>3. CleanInv'
    <3> SUFFICES ASSUME clean
                 PROVE  /\ Current
                        /\ Decision.action = "rest" =>
                             pos = Held /\ Held > 0 /\ lots = Queue /\ Rests(Decision.price)
      BY <1>1, <1>2, <2>1, <2>2 DEF CleanInv
    <3>1. Current BY <1>3, <2>2 DEF CleanInv
    <3> QED BY <1>3, <2>1, <3>1, CleanDecision
  <2>4. SettledInv'
    <3>1. settled /\ pc' = "cancel" => Decision.action # "rest"
      BY <1>3, <2>1, SettledInPlace
    <3> QED BY <1>1, <1>2, <1>3, <2>1, <2>2, <3>1 DEF SettledInv
  <2> QED BY <2>3, <2>4 DEF QuietInv
<1> QED BY <1>6, <1>7, <1>8, <1>9, <1>10, <1>11, <1>12, <1>13

\* A sell that an undisturbed tick places: all that is still held, and if nothing of it
\* was sold at once, at the price that the next tick would ask for.
LEMMA PlaceQuietStep ==
  ASSUME PricingTypes, QuietInv, PlaceSell, clean
  PROVE  /\ Held' = 0 \/ (sell'.left = Held' /\ Total(Queue) <= sell'.price * Held)
         /\ settled' => SettledInv'
<1>1. /\ pc = "place" /\ pos <= Held /\ TakesBids(pos, goal.price) /\ Acting /\ TickEnds
      /\ sell' = IF pos - (Len(trades') - Len(trades)) = 0 THEN NoSell
                 ELSE [price |-> goal.price, left |-> pos - (Len(trades') - Len(trades))]
      /\ settled' = (clean /\ trades' = trades /\ pos = Held)
  BY DEF PlaceSell
<1>2. /\ goal.action = "rest" /\ goal.price \in Nat /\ CostKnown(lots, pos)
      /\ Total(lots) <= goal.price * pos /\ pos \in Nat
  BY <1>1 DEF PricingTypes, TickTypes, Goals
<1>3. /\ Current /\ pos = Held /\ Held > 0 /\ lots = Queue /\ Rests(goal.price)
  BY <1>1, <1>2 DEF QuietInv, CleanInv
<1>4. PICK n \in Nat :
        /\ n <= pos /\ Len(trades') = Len(trades) + n /\ Held' = Held - n
        /\ n = 0 => trades' = trades /\ bids' = bids
  BY <1>1, <1>2, BidsTakenStep DEF PricingTypes
<1>5. Len(trades) \in Nat /\ Held \in Nat BY QueueType DEF PricingTypes, WorldTypes
<1>6. sell' = IF pos - n = 0 THEN NoSell ELSE [price |-> goal.price, left |-> pos - n]
  BY <1>1, <1>4, <1>5
<1>7. Held' = 0 \/ (sell'.left = Held' /\ Total(Queue) <= sell'.price * Held)
  BY <1>2, <1>3, <1>4, <1>5, <1>6
<1>8. ASSUME settled' PROVE SettledInv'
  <2>1. trades' = trades BY <1>1, <1>8
  <2>2. n = 0 BY <1>4, <1>5, <2>1
  <2>3. /\ UNCHANGED <<mode, stop, trades, listed, shown, bids, ask>>
        /\ Queue' = Queue /\ Held' = Held
    BY <1>1, <1>4, <2>1, <2>2 DEF Acting, Queue, Held
  <2>4. sell'.price = goal.price /\ sell'.left = Held BY <1>3, <1>5, <1>6, <2>2
  <2>5. Current' BY <1>3, <2>3 DEF Current
  <2>6. Rests(goal.price) <=> Rests(sell.price)' BY <2>3, <2>4 DEF Rests
  <2>7. pc' = "idle" BY <1>1 DEF TickEnds
  <2> QED BY <1>3, <2>3, <2>4, <2>5, <2>6, <2>7 DEF SettledInv
<1> QED BY <1>7, <1>8

LEMMA QuietStep ==
  ASSUME PricingTypes, QuietInv, [Next]_vars
  PROVE  QuietInv'
<1>1. CASE World
  <2>1. clean' = FALSE /\ settled' = FALSE
    BY <1>1 DEF World, BuyFills, SellFills, Publish, CatchUp, BookMoves, Disturbs
  <2> QED BY <2>1 DEF QuietInv, CleanInv, SettledInv
<1>2. CASE TickBegins \/ ReadPosition \/ ReadTrades \/ ReadBook \/ ReadFails \/ TickIsCut
           \/ Stays \/ Moves
  <2>1. InTick
    BY <1>2 DEF TickBegins, ReadPosition, ReadTrades, ReadBook, ReadFails, TickIsCut, Stays,
       Moves, Decides
  <2> QED BY <1>2, <2>1, ReadQuietStep
<1>3. CASE CancelSell
  <2>1. /\ UNCHANGED <<mode, stop, trades, listed, shown, bids, ask, pos, lots, goal, clean, settled>>
        /\ pc = "cancel" /\ pc' = IF goal.action = "rest" THEN "place" ELSE "sell"
        /\ sell' = NoSell /\ Queue' = Queue /\ Held' = Held
    BY <1>3 DEF CancelSell, Acting, Queue, Held
  <2>2. Current' = Current /\ Rests(goal.price)' = Rests(goal.price)
    BY <2>1 DEF Current, Rests
  <2>3. CleanInv' BY <2>1, <2>2 DEF QuietInv, CleanInv
  <2>4. SettledInv' BY <2>1, <2>2 DEF QuietInv, SettledInv
  <2> QED BY <2>3, <2>4 DEF QuietInv
<1>4. CASE CancelFails
  <2>1. /\ UNCHANGED <<mode, stop, trades, listed, shown, bids, ask, sell, settled>>
        /\ clean' = FALSE /\ pc' = "sell" /\ Queue' = Queue /\ Held' = Held
    BY <1>4 DEF CancelFails, InTick, worldVars, Queue, Held
  <2>2. Current' = Current /\ \A p : Rests(p)' = Rests(p) BY <2>1 DEF Current, Rests
  <2>3. CleanInv' BY <2>1 DEF CleanInv
  <2>4. SettledInv' BY <2>1, <2>2 DEF QuietInv, SettledInv
  <2> QED BY <2>3, <2>4 DEF QuietInv
<1>5. CASE PlaceSell
  <2>1. pc' = "idle" /\ (settled' => clean) BY <1>5 DEF PlaceSell, TickEnds
  <2>2. CleanInv' BY <2>1 DEF CleanInv
  <2>3. settled' => SettledInv' BY <1>5, <2>1, PlaceQuietStep
  <2>4. ~ settled' => SettledInv' BY DEF SettledInv
  <2> QED BY <2>2, <2>3, <2>4 DEF QuietInv
<1>6. CASE SellAtMarket
  <2>1. pc' = "idle" /\ settled' = FALSE BY <1>6 DEF SellAtMarket, TickEnds
  <2> QED BY <2>1 DEF QuietInv, CleanInv, SettledInv
<1>7. CASE UNCHANGED vars
  <2>1. Queue' = Queue /\ Held' = Held BY <1>7 DEF vars, worldVars, Queue, Held
  <2>2. BookNow' = BookNow /\ Current' = Current /\ \A p : Rests(p)' = Rests(p)
    BY <1>7, <2>1 DEF vars, worldVars, BookNow, Current, Rests
  <2> QED BY <1>7, <2>1, <2>2 DEF vars, worldVars, tickVars, QuietInv, CleanInv, SettledInv
<1> QED BY <1>1, <1>2, <1>3, <1>4, <1>5, <1>6, <1>7 DEF Next, Tick

LEMMA QuietStarts == Init => QuietInv
BY DEF Init, NoTick, QuietInv, CleanInv, SettledInv

\* No tick cancels a sell, to place another, that an undisturbed tick placed or kept
\* while nothing changed since: that our own ask is part of the book that is read moves
\* no exit (take_profit.py 226-299, monitor.py 789-818), whatever reads fail.
THEOREM OwnAskChurnsNothing == Spec => NoExitChurn
<1>1. PricingTypes /\ QuietInv /\ [Next]_vars => PricingTypes' /\ QuietInv'
  BY PricingStepTypes, QuietStep
<1>2. Init => PricingTypes /\ QuietInv BY PricingStartsTyped, QuietStarts
<1>3. QuietInv => (CancelSell => ~ settled \/ goal.action # "rest")
  BY DEF QuietInv, SettledInv, CancelSell
<1> QED BY <1>1, <1>2, <1>3, PTL DEF Spec, NoExitChurn

\* The three ways an undisturbed tick ends: with nothing held, with nobody to sell to, or
\* with all of it on sale.
LEMMA CleanEnds ==
  ASSUME PricingTypes, QuietInv, [Next]_vars, pc \in {"reads", "place"}, pc' = "idle", clean'
  PROVE  \/ Held' = 0
         \/ pc = "reads" /\ Decision.action = "noop" /\ seen.bid = 0 /\ (Forced \/ seen.ask = 0)
         \/ sell'.left = Held' /\ Total(Queue) <= sell'.price * Held
<1>1. ReadPosition \/ Stays \/ PlaceSell
  BY DEF Next, World, Tick, BuyFills, SellFills, Publish, CatchUp, BookMoves, Disturbs, tickVars,
     TickBegins, ReadTrades, ReadBook, ReadFails, TickIsCut, Moves, Decides, CancelSell,
     CancelFails, SellAtMarket, vars
<1>2. clean BY <1>1 DEF ReadPosition, Stays, PlaceSell
<1>3. CleanInv /\ WorldTypes BY DEF QuietInv, PricingTypes
<1>4. CASE ReadPosition
  <2>1. pc = "reads" /\ Queue' = Queue /\ Held' = Held
    BY <1>4 DEF ReadPosition, InTick, worldVars, Queue, Held
  <2>2. Current BY <1>2, <1>3, <2>1 DEF CleanInv
  <2>3. Len(Replay(SubSeq(trades, 1, shown))) = 0 BY <1>4, <2>1 DEF ReadPosition
  <2>4. Held = 0 BY <1>3, <2>2, <2>3, AllIsShown DEF Held, Queue
  <2> QED BY <2>1, <2>4
<1>5. CASE Stays
  <2>1. /\ Decides /\ (Decision.action = "noop" \/ InPlace)
        /\ pc = "reads" /\ read = {"position", "trades", "book"}
        /\ Queue' = Queue /\ Held' = Held /\ sell' = sell
    BY <1>5 DEF Stays, Decides, InTick, worldVars, Queue, Held
  <2>2. CASE InPlace
    <3>1. Decision.action = "rest" /\ snap = [price |-> Decision.price, left |-> pos]
      BY <2>2 DEF InPlace
    <3>2. snap = sell /\ pos = Held /\ Total(Queue) <= Decision.price * Held
      BY <1>2, <1>3, <2>1, <3>1, CleanDecision
    <3> QED BY <2>1, <3>1, <3>2
  <2>3. CASE Decision.action = "noop"
    <3>1. pos = Held /\ lots = Queue BY <1>2, <1>3, <2>1 DEF CleanInv
    <3>2. CASE Forced /\ seen.bid > 0 BY <2>3, <3>2 DEF Decision
    <3>3. CASE ~ Forced /\ CostKnown(lots, pos)
      <4>1. Decision = PlanExit(lots, seen.bid, seen.ask, mode, stop) BY <3>3 DEF Decision
      <4>2. seen.bid = 0 /\ seen.ask = 0
        BY <2>3, <4>1 DEF PlanExit, Rest, ToMarket
      <4> QED BY <2>1, <2>3, <4>2
    <3>4. CASE Forced /\ ~ (seen.bid > 0)
      <4>1. seen.bid \in Nat BY DEF PricingTypes, TickTypes
      <4> QED BY <2>1, <2>3, <3>4, <4>1
    <3>5. CASE ~ Forced /\ ~ CostKnown(lots, pos)
      <4>1. Held \in Nat /\ Held = Len(Queue) BY <1>3, QueueType DEF WorldTypes, Held
      <4>2. Held = 0 BY <3>1, <3>5, <4>1 DEF CostKnown
      <4> QED BY <2>1, <4>2
    <3> QED BY <3>2, <3>3, <3>4, <3>5
  <2> QED BY <2>1, <2>2, <2>3
<1>6. CASE PlaceSell BY <1>2, <1>6, PlaceQuietStep
<1> QED BY <1>1, <1>4, <1>5, <1>6

\* A tick that read the truth and that nothing disturbed leaves all that is held on sale
\* at no less than its average cost, unless it sold at the market, had no bid to sell to,
\* or saw an empty book (take_profit.py 45-64, 278; monitor.py 789-818).
THEOREM CleanTicksProtect == Spec => CleanTickProtects
<1>1. PricingTypes /\ QuietInv /\ [Next]_vars => PricingTypes' /\ QuietInv'
  BY PricingStepTypes, QuietStep
<1>2. Init => PricingTypes /\ QuietInv BY PricingStartsTyped, QuietStarts
<1>3. PricingTypes /\ QuietInv /\ [Next]_vars =>
        (pc \in {"reads", "place"} /\ pc' = "idle" /\ clean' =>
           \/ Held' = 0
           \/ pc = "reads" /\ Decision.action = "noop" /\ seen.bid = 0 /\ (Forced \/ seen.ask = 0)
           \/ sell'.left = Held' /\ Total(Queue) <= sell'.price * Held)
  BY CleanEnds
<1> QED BY <1>1, <1>2, <1>3, PTL DEF Spec, CleanTickProtects

===============================================================================
