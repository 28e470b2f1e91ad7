------------------------- MODULE ExitMonitor_proofs -------------------------
(***************************************************************************)
(* Theorems about ExitMonitor, for any positions, sizes and cash target.   *)
(***************************************************************************)
EXTENDS ExitMonitor, TLAPS

-----------------------------------------------------------------------------
(* The calls to the exchange keep the types of the book. *)

BookOK ==
  /\ held \in [Tokens -> Nat]
  /\ sells \in [Tokens -> [n : Nat, size : Nat]]
  /\ \A t \in Tokens : held[t] <= Cap[t] /\ sells[t] \in Sells(t) /\ sells[t].size <= held[t]

LEMMA FewerType ==
  ASSUME NEW t \in Tokens, NEW s \in Sells(t), NEW r \in Fewer(s, t)
  PROVE  r \in Sells(t) /\ r.n <= s.n /\ r.size <= s.size
         /\ r \in [n : Nat, size : Nat]
BY TokensAssumption DEF Fewer, Sells, NoSells

LEMMA CancelTypes ==
  ASSUME TypeOK, NEW t \in Tokens, UNCHANGED <<held, shown>>,
         Cancelled(t) \/ CancelRefused(t) \/ CancelRaises(t)
  PROVE  /\ BookOK'
         /\ excused' \subseteq Tokens /\ refused' \subseteq Tokens
<1> USE TokensAssumption DEF TypeOK, BookOK
<1>1. CASE Cancelled(t) BY <1>1 DEF Cancelled, Sells, NoSells
<1>2. CASE CancelRefused(t)
  <2>1. PICK s \in (Fewer(sells[t], t) \ {NoSells}) \cup {sells[t]} :
          sells' = [sells EXCEPT ![t] = s]
    BY <1>2 DEF CancelRefused
  <2>2. s \in Sells(t) /\ s.size <= sells[t].size /\ s \in [n : Nat, size : Nat]
    BY <2>1, FewerType DEF Sells, NoSells
  <2>q. QED BY <1>2, <2>1, <2>2 DEF CancelRefused, Sells, NoSells
<1>3. CASE UNCHANGED <<sells, refused, excused>> BY <1>3
<1>4. CASE /\ sells' = [sells EXCEPT ![t] = NoSells]
           /\ refused' = refused \ {t}
           /\ excused' = excused \cup {t}
  BY <1>4 DEF Sells, NoSells
<1>q. QED BY <1>1, <1>2, <1>3, <1>4 DEF CancelRaises

LEMMA SaleTypes ==
  ASSUME TypeOK, NEW t \in Tokens, NEW size \in Nat, NEW k \in 1..Cap[t],
         MarketSells(t, size, k)
  PROVE  BookOK' /\ shown' = shown
<1> USE TokensAssumption DEF TypeOK, BookOK, MarketSells
<1>1. size <= held[t] - sells[t].size /\ k \in 1..size
  BY DEF Available
<1>2. held[t] \in Nat /\ sells[t].size \in Nat /\ Cap[t] \in Nat /\ held[t] <= Cap[t]
  OBVIOUS
<1>3. held[t] - k \in Nat /\ sells[t].size <= held[t] - k /\ held[t] - k <= held[t]
  BY <1>1, <1>2
<1>4. held' = [held EXCEPT ![t] = held[t] - k]
  OBVIOUS
<1>5. held' \in [Tokens -> Nat]
  BY <1>3, <1>4
<1>6. ASSUME NEW u \in Tokens PROVE held'[u] <= Cap[u] /\ sells[u].size <= held'[u]
  <2>1. CASE u = t
    <3>1. held'[t] = held[t] - k
      BY <1>4
    <3>2. k \in Nat
      BY <1>1
    <3>3. held[t] - k <= Cap[t]
      BY <1>2, <1>3, <3>2
    <3>q. QED BY <2>1, <3>1, <3>3, <1>3
  <2>2. CASE u # t BY <1>4, <2>2
  <2>q. QED BY <2>1, <2>2
<1>q. QED BY <1>5, <1>6

\* A position that is done with is forgotten.
LEMMA ForgetTypes ==
  ASSUME TypeOK, cur \in Tokens \ todo, pos' = [pos EXCEPT ![cur] = 0], todo' = todo
  PROVE  /\ pos' \in [Tokens -> Nat] /\ \A t \in Tokens : pos'[t] <= Cap[t]
         /\ todo' \subseteq {t \in Tokens : pos'[t] > 0}
<1> USE TokensAssumption DEF TypeOK
<1>1. pos' \in [Tokens -> Nat]
  OBVIOUS
<1>2. \A t \in Tokens : t # cur => pos'[t] = pos[t]
  OBVIOUS
<1>3. pos'[cur] = 0 /\ 0 <= Cap[cur]
  <2>1. Cap[cur] \in Nat
    OBVIOUS
  <2>q. QED BY <2>1
<1>q. QED BY <1>1, <1>2, <1>3

LEMMA ReturnTypes ==
  ASSUME TypeOK, TickReturns, UNCHANGED worldVars, due' \in Nat, liqCool' \in BOOLEAN
  PROVE  TypeOK'
<1>1. NoSells \in [n : Nat, size : Nat] /\ \A t \in Tokens : NoSells \in Sells(t)
  BY DEF NoSells, Sells
<1>2. None \in [Tokens -> Nat] /\ Empty \in [Tokens -> [n : Nat, size : Nat]]
  BY <1>1 DEF None, Empty
<1>3. \A t \in Tokens : None[t] <= Cap[t] /\ Empty[t] \in Sells(t)
  BY <1>1, TokensAssumption DEF None, Empty
<1>4. est' \in Nat /\ est' <= Target /\ pc' \in Pcs /\ pc' \notin AtToken
  BY TargetAssumption DEF TickReturns, Pcs, AtToken
<1>q. QED BY <1>2, <1>3, <1>4 DEF TypeOK, TickReturns, worldVars, Sells

-----------------------------------------------------------------------------
(* Type correctness. *)

LEMMA OutsideTypes ==
  ASSUME TypeOK, Outside
  PROVE  TypeOK'
<1> USE TokensAssumption, TargetAssumption DEF TypeOK, tickVars, worldVars
<1>1. CASE \E t \in Tokens : BuyFills(t) BY <1>1 DEF BuyFills
<1>2. ASSUME NEW t \in Tokens, SellFills(t) PROVE TypeOK'
  <2>1. PICK rest \in Fewer(sells[t], t) :
          /\ sells' = [sells EXCEPT ![t] = rest]
          /\ held' = [held EXCEPT ![t] = @ - (sells[t].size - rest.size)]
    BY <1>2 DEF SellFills
  <2>2. rest \in Sells(t) /\ rest.size <= sells[t].size /\ rest \in [n : Nat, size : Nat]
    BY <2>1, FewerType
  <2>3. held' \in [Tokens -> Nat] /\ \A u \in Tokens : held'[u] <= Cap[u]
    BY <2>1, <2>2
  <2>4. sells' \in [Tokens -> [n : Nat, size : Nat]]
    BY <2>1, <2>2
  <2>5. \A u \in Tokens : sells'[u] \in Sells(u) /\ sells'[u].size <= held'[u]
    BY <2>1, <2>2
  <2>6. excused' \subseteq Tokens /\ refused' \subseteq Tokens /\ UNCHANGED <<shown, due, liqCool, tickVars>>
    BY <1>2 DEF SellFills
  <2>q. QED BY <2>3, <2>4, <2>5, <2>6 DEF Sells
<1>3. CASE \E t \in Tokens : CatchUp(t) BY <1>3 DEF CatchUp
<1>4. CASE Settles BY <1>4 DEF Settles
<1>5. CASE CooldownEnds BY <1>5 DEF CooldownEnds
<1>6. CASE Restarts BY <1>6, ReturnTypes DEF Restarts
<1>q. QED BY <1>1, <1>2, <1>3, <1>4, <1>5, <1>6 DEF Outside

LEMMA LowBalanceTypes ==
  ASSUME TypeOK, LowBalance
  PROVE  TypeOK'
<1> USE TokensAssumption, TargetAssumption DEF TypeOK, worldVars, Pcs, AtToken
<1>1. CASE LowBalanceSkipped
  BY <1>1 DEF LowBalanceSkipped, ToExit, None, Empty, NoSells, Sells
<1>2. CASE ReadForLiquidation BY <1>2 DEF ReadForLiquidation
<1>3. CASE LiquidationReadFails
  BY <1>3 DEF LiquidationReadFails, ToExit, None, Empty, NoSells, Sells
<1>4. CASE \E balance \in 0..Target : ReadBalance(balance) BY <1>4 DEF ReadBalance
<1>5. CASE \E t \in Tokens : LiquidateNext(t) BY <1>5 DEF LiquidateNext
<1>6. CASE LiquidationEnds
  BY <1>6 DEF LiquidationEnds, ToExit, None, Empty, NoSells, Sells
<1>7. CASE LiquidationCancels
  <2>1. cur \in Tokens /\ UNCHANGED <<held, shown>>
    BY <1>7 DEF LiquidationCancels
  <2>2. Cancelled(cur) \/ CancelRefused(cur) \/ CancelRaises(cur)
    BY <1>7 DEF LiquidationCancels
  <2>3. BookOK' /\ excused' \subseteq Tokens /\ refused' \subseteq Tokens
    BY <2>1, <2>2, CancelTypes
  <2>q. QED BY <1>7, <2>1, <2>3 DEF LiquidationCancels, BookOK
<1>8. CASE LiquidationSells
  <2>1. PICK k \in 1..Cap[cur] : MarketSells(cur, pos[cur], k) /\ due' = due + k
    BY <1>8 DEF LiquidationSells
  <2>2. BookOK' /\ shown' = shown
    BY <1>8, <2>1, SaleTypes DEF LiquidationSells
  <2>3. est' \in Nat /\ (est' <= Target \/ \E t \in Tokens : est' < Target + Cap[t])
    <3>1. cur \in Tokens /\ est < Target /\ pos[cur] <= Cap[cur] /\ est' = est + pos[cur]
      BY <1>8 DEF LiquidationSells
    <3>2. est' < Target + Cap[cur]
      BY <3>1
    <3>q. QED BY <3>1, <3>2
  <2>4. /\ pos' \in [Tokens -> Nat] /\ \A t \in Tokens : pos'[t] <= Cap[t]
        /\ todo' \subseteq {t \in Tokens : pos'[t] > 0}
    BY <1>8, ForgetTypes DEF LiquidationSells, BackToLiquidation
  <2>q. QED BY <1>8, <2>1, <2>2, <2>3, <2>4 DEF LiquidationSells, BackToLiquidation, BookOK
<1>9. CASE LiquidationSellFails
  <2>1. BookOK' /\ shown' = shown
    BY <1>9, SaleTypes DEF LiquidationSellFails, BookOK
  <2>2. /\ pos' \in [Tokens -> Nat] /\ \A t \in Tokens : pos'[t] <= Cap[t]
        /\ todo' \subseteq {t \in Tokens : pos'[t] > 0}
    BY <1>9, ForgetTypes DEF LiquidationSellFails, BackToLiquidation
  <2>q. QED BY <1>9, <2>1, <2>2 DEF LiquidationSellFails, BackToLiquidation, BookOK
<1>q. QED BY <1>1, <1>2, <1>3, <1>4, <1>5, <1>6, <1>7, <1>8, <1>9 DEF LowBalance

LEMMA ExitTypes ==
  ASSUME TypeOK, Exit
  PROVE  TypeOK'
<1> USE TokensAssumption, TargetAssumption DEF TypeOK, worldVars, Pcs, AtToken
<1>1. CASE ReadPositions BY <1>1 DEF ReadPositions
<1>2. CASE ReadOrders BY <1>2 DEF ReadOrders
<1>3. CASE ReadOrdersFails BY <1>3, ReturnTypes DEF ReadOrdersFails
<1>4. CASE \E t \in Tokens : StaysInExit(t)
  BY <1>4 DEF StaysInExit, Takes, NoSells, Sells
<1>5. CASE \E t \in Tokens, place \in {"excancel", "explace", "exmcancel", "exsell"} : GoesTo(t, place)
  BY <1>5 DEF GoesTo, Takes, NoSells, Sells
<1>6. ASSUME pc \in {"excancel", "exmcancel"},
             Cancelled(cur) \/ CancelRefused(cur) \/ CancelRaises(cur),
             pc' \in {"explace", "exsell"},
             UNCHANGED <<held, shown, due, liqCool, shared, snap, pos, todo, cur, est, justDumped,
                         cancelled>>
      PROVE  TypeOK'
  <2>1. BookOK' /\ excused' \subseteq Tokens /\ refused' \subseteq Tokens
    BY <1>6, CancelTypes
  <2>q. QED BY <1>6, <2>1 DEF BookOK
<1>7. CASE ExitCancels BY <1>6, <1>7 DEF ExitCancels
<1>8. CASE MarketCancels BY <1>6, <1>8 DEF MarketCancels
<1>9. CASE ExitCancelFails
  <2>1. BookOK' /\ excused' \subseteq Tokens /\ refused' \subseteq Tokens
    BY <1>9, CancelTypes DEF ExitCancelFails
  <2>2. /\ pos' \in [Tokens -> Nat] /\ \A t \in Tokens : pos'[t] <= Cap[t]
        /\ todo' \subseteq {t \in Tokens : pos'[t] > 0}
    BY <1>9, ForgetTypes DEF ExitCancelFails, BackToExit
  <2>q. QED BY <1>9, <2>1, <2>2 DEF ExitCancelFails, BackToExit, BookOK
<1>10. CASE PlaceSell
  <2>1. BookOK'
    BY <1>10 DEF PlaceSell, Available, BookOK, Sells, NoSells
  <2>2. /\ pos' \in [Tokens -> Nat] /\ \A t \in Tokens : pos'[t] <= Cap[t]
        /\ todo' \subseteq {t \in Tokens : pos'[t] > 0}
    BY <1>10, ForgetTypes DEF PlaceSell, BackToExit
  <2>q. QED BY <1>10, <2>1, <2>2 DEF PlaceSell, BackToExit, BookOK
<1>11. CASE PlaceSellFails BY <1>11 DEF PlaceSellFails, BackToExit
<1>12. CASE ExitSells
  <2>1. BookOK' /\ shown' = shown
    BY <1>12, SaleTypes DEF ExitSells, BookOK
  <2>2. /\ pos' \in [Tokens -> Nat] /\ \A t \in Tokens : pos'[t] <= Cap[t]
        /\ todo' \subseteq {t \in Tokens : pos'[t] > 0}
    BY <1>12, ForgetTypes DEF ExitSells, BackToExit
  <2>q. QED BY <1>12, <2>1, <2>2 DEF ExitSells, BackToExit, BookOK
<1>13. CASE TickEnds BY <1>13, ReturnTypes DEF TickEnds
<1>q. QED BY <1>1, <1>2, <1>3, <1>4, <1>5, <1>7, <1>8, <1>9, <1>10, <1>11, <1>12, <1>13
      DEF Exit, SkipPosition, KeepSell, ReplaceSells, GoToMarket

\* Every variable keeps its type; the exchange never lets more rest than is held,
\* and the estimate passes the target with the last position sold.
THEOREM TypeCorrect == Spec => []TypeOK
<1>1. Init => TypeOK
  <2> SUFFICES ASSUME Init PROVE TypeOK
    OBVIOUS
  <2>1. NoSells \in [n : Nat, size : Nat] /\ \A t \in Tokens : NoSells \in Sells(t)
    BY DEF NoSells, Sells
  <2>2. None \in [Tokens -> Nat] /\ Empty \in [Tokens -> [n : Nat, size : Nat]]
    BY <2>1 DEF None, Empty
  <2>3. \A t \in Tokens : None[t] <= Cap[t] /\ Empty[t] \in Sells(t) /\ Empty[t].size <= None[t]
    BY <2>1, TokensAssumption DEF None, Empty, NoSells
  <2>4. held = None /\ shown = None /\ pos = None /\ sells = Empty /\ snap = Empty
    BY DEF Init
  <2>5. \A t \in Tokens : Empty[t] \in Sells(t) /\ Empty[t] \in Sells(t) /\ Empty[t].size <= None[t]
                         /\ None[t] <= Cap[t]
    BY <2>3, TokensAssumption DEF None
  <2>6. pc = "idle" /\ pc \in Pcs /\ pc \notin AtToken /\ est = 0 /\ est <= Target
    BY TargetAssumption DEF Init, Pcs, AtToken
  <2>7. \A t \in Tokens :
          /\ held[t] <= Cap[t] /\ shown[t] <= Cap[t] /\ pos[t] <= Cap[t]
          /\ sells[t] \in Sells(t) /\ snap[t] \in Sells(t)
          /\ sells[t].size <= held[t]
    BY <2>4, <2>5
  <2>8. /\ due \in Nat /\ est \in Nat /\ liqCool \in BOOLEAN /\ shared \in BOOLEAN
        /\ todo = {} /\ cur = NoToken /\ justDumped = {} /\ cancelled = {}
        /\ excused = {} /\ refused = {}
    BY DEF Init
  <2>9. pc \notin {"lbcancel", "lbsell"}
    BY DEF Init
  <2>q. QED BY <2>2, <2>4, <2>6, <2>7, <2>8, <2>9 DEF TypeOK
<1>2. TypeOK /\ [Next]_vars => TypeOK'
  <2> SUFFICES ASSUME TypeOK, [Next]_vars PROVE TypeOK'
    OBVIOUS
  <2>1. CASE TickBegins BY <2>1 DEF TickBegins, TypeOK, worldVars, Pcs, AtToken
  <2>2. CASE TickAborts BY <2>2, ReturnTypes DEF TickAborts, TypeOK
  <2>3. CASE UNCHANGED vars BY <2>3 DEF vars, worldVars, tickVars, TypeOK
  <2>q. QED BY <2>1, <2>2, <2>3, OutsideTypes, LowBalanceTypes, ExitTypes DEF Next, Tick
<1>q. QED BY <1>1, <1>2, PTL DEF Spec

-----------------------------------------------------------------------------
(* The low-balance step stops at its target. *)

LbPcs == {"lbpos", "lb", "lbcancel", "lbsell"}

\* Outside the low-balance step, sales that have not settled keep the cooldown
\* up; within it they are this tick's own, and the estimate counts them.
CashInv ==
  /\ pc \notin LbPcs /\ due > 0 => liqCool
  /\ pc = "lbpos" => due = 0
  /\ pc \in LbPcs => due <= est /\ (due > 0 => justDumped # {})

LEMMA CashInductive ==
  ASSUME TypeOK, CashInv, [Next]_vars
  PROVE  CashInv'
<1> USE DEF TypeOK, CashInv, LbPcs, tickVars, worldVars
<1>1. CASE Outside
  BY <1>1 DEF Outside, BuyFills, SellFills, CatchUp, Settles, CooldownEnds, Restarts, TickReturns
<1>2. CASE TickBegins BY <1>2 DEF TickBegins
<1>3. CASE TickAborts BY <1>3 DEF TickAborts, TickReturns
<1>4. CASE LowBalance
  <2>1. CASE LowBalanceSkipped BY <2>1 DEF LowBalanceSkipped, ToExit
  <2>2. CASE ReadForLiquidation BY <2>2 DEF ReadForLiquidation
  <2>3. CASE LiquidationReadFails BY <2>3 DEF LiquidationReadFails, ToExit
  <2>4. CASE \E balance \in 0..Target : ReadBalance(balance) BY <2>4 DEF ReadBalance
  <2>5. CASE \E t \in Tokens : LiquidateNext(t) BY <2>5 DEF LiquidateNext
  <2>6. CASE LiquidationEnds BY <2>6 DEF LiquidationEnds, ToExit
  <2>7. CASE LiquidationCancels BY <2>7 DEF LiquidationCancels
  <2>8. CASE LiquidationSells
    <3>1. PICK k \in 1..Cap[cur] : MarketSells(cur, pos[cur], k) /\ due' = due + k
      BY <2>8 DEF LiquidationSells
    <3>2. cur \in Tokens /\ pos[cur] \in Nat /\ k \in 1..pos[cur] /\ due <= est
      BY <2>8, <3>1 DEF LiquidationSells, MarketSells, AtToken
    <3>3. due' <= est'
      BY <2>8, <3>1, <3>2 DEF LiquidationSells
    <3>q. QED BY <2>8, <3>3 DEF LiquidationSells, BackToLiquidation
  <2>9. CASE LiquidationSellFails BY <2>9 DEF LiquidationSellFails, BackToLiquidation
  <2>q. QED BY <1>4, <2>1, <2>2, <2>3, <2>4, <2>5, <2>6, <2>7, <2>8, <2>9 DEF LowBalance
<1>5. CASE Exit
  BY <1>5 DEF Exit, ReadPositions, ReadOrders, ReadOrdersFails, TickReturns, SkipPosition,
              KeepSell, ReplaceSells, GoToMarket, StaysInExit, GoesTo, Takes, ExitCancels,
              ExitCancelFails, BackToExit, PlaceSell, PlaceSellFails, MarketCancels, ExitSells,
              TickEnds
<1>6. CASE UNCHANGED vars BY <1>6 DEF vars
<1>q. QED BY <1>1, <1>2, <1>3, <1>4, <1>5, <1>6 DEF Next, Tick

\* The low-balance step never sells once what it is known to have sold, in this
\* tick or before, makes up the target, although the balance may not show it.
THEOREM StopsAtTarget == Spec => NoOverLiquidation
<1>1. Init => CashInv
  BY DEF Init, CashInv, LbPcs
<1>2. TypeOK /\ CashInv /\ [Next]_vars => CashInv'
  BY CashInductive
<1>3. TypeOK /\ CashInv /\ LiquidationSells => due < Target
  BY TargetAssumption DEF TypeOK, CashInv, LbPcs, LiquidationSells
<1>4. TypeOK /\ CashInv /\ [Next]_vars => [LiquidationSells => due < Target]_vars
  BY <1>3
<1>q. QED BY <1>1, <1>2, <1>4, TypeCorrect, PTL DEF Spec, NoOverLiquidation

-----------------------------------------------------------------------------
(* What the list of open orders still says. *)

ExPcs   == {"ex", "excancel", "explace", "exmcancel", "exsell"}
ListPcs == {"lb", "lbcancel", "lbsell"} \cup ExPcs

Undecided(t) == pc \in ExPcs => t \in todo
Listed(t)    == Undecided(t) /\ (shared \/ pc \in ListPcs)

\* Until a position is decided on, its sells are among those on the list, and as
\* they are there unless one was filled or this tick cancelled them; sells the
\* tick cancelled are gone unless the cancellation was refused.
ListInv ==
  /\ pc = "idle" => ~shared /\ cancelled = {}
  /\ \A t \in Tokens : Listed(t) =>
       sells[t].n <= snap[t].n /\ (t \in excused \cup cancelled \/ sells[t] = snap[t])
  /\ \A t \in cancelled : Undecided(t) => sells[t].n = 0 \/ t \in refused
  /\ pc = "explace" /\ sells[cur].n > 0 => cur \in refused
  /\ OneSell

\* What a cancellation does to the sells of one position, and to no other's.
LEMMA CancelEffect ==
  ASSUME TypeOK, NEW t \in Tokens,
         Cancelled(t) \/ CancelRefused(t) \/ CancelRaises(t)
  PROVE  /\ \A u \in Tokens : u # t => sells'[u] = sells[u] /\ (u \in refused' <=> u \in refused)
         /\ excused \subseteq excused'
         /\ sells'[t].n <= sells[t].n
         /\ sells'[t].n > 1 /\ t \in refused => t \in refused'
         /\ Cancelled(t) \/ CancelRefused(t) => sells'[t].n = 0 \/ t \in refused'
         /\ CancelRaises(t) => sells'[t] = sells[t] \/ t \in excused'
         /\ CancelRaises(t) => sells'[t].n = 0 \/ (t \in refused' <=> t \in refused)
<1> USE DEF TypeOK
<1>1. CASE Cancelled(t) BY <1>1 DEF Cancelled, CancelRefused, CancelRaises, NoSells
<1>2. CASE CancelRefused(t) /\ ~Cancelled(t)
  <2>1. PICK s \in (Fewer(sells[t], t) \ {NoSells}) \cup {sells[t]} :
          sells' = [sells EXCEPT ![t] = s]
    BY <1>2 DEF CancelRefused
  <2>2. s.n <= sells[t].n
    BY <2>1, FewerType
  <2>q. QED BY <1>2, <2>1, <2>2 DEF CancelRefused, CancelRaises, NoSells
<1>3. CASE CancelRaises(t) /\ ~Cancelled(t) /\ ~CancelRefused(t)
  BY <1>3 DEF CancelRaises, NoSells
<1>q. QED BY <1>1, <1>2, <1>3

LEMMA ListOutside ==
  ASSUME TypeOK, ListInv, Outside
  PROVE  ListInv'
<1> USE DEF TypeOK, ListInv, OneSell, Listed, Undecided, ListPcs, ExPcs, tickVars, worldVars
<1>1. CASE \E t \in Tokens : BuyFills(t) BY <1>1 DEF BuyFills
<1>2. ASSUME NEW t \in Tokens, SellFills(t) PROVE ListInv'
  <2>1. PICK rest \in Fewer(sells[t], t) :
          /\ sells' = [sells EXCEPT ![t] = rest]
          /\ excused' = IF pc = "idle" THEN excused ELSE excused \cup {t}
          /\ refused' = IF rest.n = 0 THEN refused \ {t} ELSE refused
          /\ UNCHANGED tickVars
    BY <1>2 DEF SellFills
  <2>2. rest.n <= sells[t].n /\ rest.n \in Nat /\ sells[t].n \in Nat /\ snap[t].n \in Nat
    BY <2>1, FewerType
  <2>3. sells'[t] = rest /\ \A u \in Tokens : u # t => sells'[u] = sells[u]
    BY <2>1
  <2>4. \A u \in Tokens : Listed(u)' =>
          sells'[u].n <= snap'[u].n /\ (u \in excused' \cup cancelled' \/ sells'[u] = snap'[u])
    BY <2>1, <2>2, <2>3
  <2>5. \A u \in cancelled' : Undecided(u)' => sells'[u].n = 0 \/ u \in refused'
    BY <2>1, <2>2, <2>3
  <2>6. pc' = "explace" /\ sells'[cur'].n > 0 => cur' \in refused'
    BY <2>1, <2>2, <2>3 DEF AtToken
  <2>7. OneSell'
    BY <2>1, <2>2, <2>3
  <2>q. QED BY <2>1, <2>4, <2>5, <2>6, <2>7
<1>3. CASE \E t \in Tokens : CatchUp(t) BY <1>3 DEF CatchUp
<1>4. CASE Settles BY <1>4 DEF Settles
<1>5. CASE CooldownEnds BY <1>5 DEF CooldownEnds
<1>6. CASE Restarts BY <1>6 DEF Restarts, TickReturns
<1>q. QED BY <1>1, <1>2, <1>3, <1>4, <1>5, <1>6 DEF Outside

LEMMA ListLowBalance ==
  ASSUME TypeOK, ListInv, LowBalance
  PROVE  ListInv'
<1> USE DEF TypeOK, ListInv, OneSell, Listed, Undecided, ListPcs, ExPcs, worldVars
<1>1. CASE LowBalanceSkipped BY <1>1 DEF LowBalanceSkipped, ToExit
<1>2. CASE ReadForLiquidation BY <1>2 DEF ReadForLiquidation
<1>3. CASE LiquidationReadFails BY <1>3 DEF LiquidationReadFails, ToExit
<1>4. CASE \E balance \in 0..Target : ReadBalance(balance) BY <1>4 DEF ReadBalance
<1>5. CASE \E t \in Tokens : LiquidateNext(t) BY <1>5 DEF LiquidateNext
<1>6. CASE LiquidationEnds BY <1>6 DEF LiquidationEnds, ToExit
<1>7. CASE LiquidationCancels
  <2>1. cur \in Tokens /\ (Cancelled(cur) \/ CancelRefused(cur) \/ CancelRaises(cur))
    BY <1>7 DEF LiquidationCancels, AtToken
  <2>2. /\ \A u \in Tokens : u # cur => sells'[u] = sells[u] /\ (u \in refused' <=> u \in refused)
        /\ excused \subseteq excused'
        /\ sells'[cur].n <= sells[cur].n
        /\ sells'[cur].n > 1 /\ cur \in refused => cur \in refused'
        /\ Cancelled(cur) \/ CancelRefused(cur) => sells'[cur].n = 0 \/ cur \in refused'
        /\ CancelRaises(cur) => sells'[cur] = sells[cur] \/ cur \in excused'
        /\ CancelRaises(cur) => sells'[cur].n = 0 \/ (cur \in refused' <=> cur \in refused)
    BY <2>1, CancelEffect
  <2>3. /\ pc = "lbcancel" /\ pc' = "lbsell" /\ UNCHANGED <<snap, todo, cur, shared>>
        /\ \/ (Cancelled(cur) \/ CancelRefused(cur)) /\ cancelled' = cancelled \cup {cur}
           \/ CancelRaises(cur) /\ UNCHANGED cancelled
    BY <1>7 DEF LiquidationCancels
  <2>4. sells'[cur].n \in Nat /\ sells[cur].n \in Nat /\ snap[cur].n \in Nat
    BY <2>1, CancelTypes, <1>7 DEF LiquidationCancels, BookOK
  <2>5. \A u \in Tokens : Listed(u)' =>
          sells'[u].n <= snap'[u].n /\ (u \in excused' \cup cancelled' \/ sells'[u] = snap'[u])
    BY <2>1, <2>2, <2>3, <2>4
  <2>6. \A u \in cancelled' : Undecided(u)' => sells'[u].n = 0 \/ u \in refused'
    BY <2>1, <2>2, <2>3, <2>4
  <2>7. sells'[cur].n > 1 => cur \in refused'
    BY <2>1, <2>2, <2>4
  <2>8. OneSell'
    BY <2>1, <2>2, <2>7
  <2>q. QED BY <2>3, <2>5, <2>6, <2>8
<1>8. CASE LiquidationSells
  BY <1>8 DEF LiquidationSells, MarketSells, BackToLiquidation
<1>9. CASE LiquidationSellFails
  BY <1>9 DEF LiquidationSellFails, MarketSells, BackToLiquidation
<1>q. QED BY <1>1, <1>2, <1>3, <1>4, <1>5, <1>6, <1>7, <1>8, <1>9 DEF LowBalance

LEMMA ListExit ==
  ASSUME TypeOK, ListInv, Exit
  PROVE  ListInv'
<1> USE DEF TypeOK, ListInv, OneSell, Listed, Undecided, ListPcs, ExPcs, worldVars
<1>1. CASE ReadPositions BY <1>1 DEF ReadPositions
<1>2. CASE ReadOrders BY <1>2 DEF ReadOrders
<1>3. CASE ReadOrdersFails BY <1>3 DEF ReadOrdersFails, TickReturns
<1>4. CASE \E t \in Tokens : StaysInExit(t)
  BY <1>4 DEF StaysInExit, Takes
<1>5. CASE \E t \in Tokens : GoToMarket(t)
  BY <1>5 DEF GoToMarket, GoesTo, Takes
<1>6. ASSUME NEW t \in Tokens, ReplaceSells(t) PROVE ListInv'
  <2>1. CASE Own(t).n > 0 BY <1>6, <2>1 DEF ReplaceSells, GoesTo, Takes
  <2>2. CASE ~(Own(t).n > 0)
    <3>1. sells[t].n > 0 => t \in refused
      BY <1>6, <2>2 DEF ReplaceSells, GoesTo, Takes, Own, NoSells
    <3>q. QED BY <1>6, <2>2, <3>1 DEF ReplaceSells, GoesTo, Takes
  <2>q. QED BY <2>1, <2>2
<1>7. ASSUME pc \in {"excancel", "exmcancel"}, pc' # "idle",
             Cancelled(cur) \/ CancelRefused(cur) \/ CancelRaises(cur),
             pc' \in ExPcs, pc' = "explace" => Cancelled(cur) \/ CancelRefused(cur),
             UNCHANGED <<shared, snap, todo, cancelled>>, pc' = "explace" => cur' = cur
      PROVE  ListInv'
  <2>1. cur \in Tokens \ todo
    BY <1>7 DEF AtToken
  <2>2. /\ \A u \in Tokens : u # cur => sells'[u] = sells[u] /\ (u \in refused' <=> u \in refused)
        /\ excused \subseteq excused'
        /\ sells'[cur].n <= sells[cur].n
        /\ sells'[cur].n > 1 /\ cur \in refused => cur \in refused'
        /\ Cancelled(cur) \/ CancelRefused(cur) => sells'[cur].n = 0 \/ cur \in refused'
        /\ CancelRaises(cur) => sells'[cur] = sells[cur] \/ cur \in excused'
        /\ CancelRaises(cur) => sells'[cur].n = 0 \/ (cur \in refused' <=> cur \in refused)
    BY <2>1, <1>7, CancelEffect
  <2>3. \A u \in Tokens : Listed(u)' =>
          sells'[u].n <= snap'[u].n /\ (u \in excused' \cup cancelled' \/ sells'[u] = snap'[u])
    BY <1>7, <2>1, <2>2
  <2>4. \A u \in cancelled' : Undecided(u)' => sells'[u].n = 0 \/ u \in refused'
    BY <1>7, <2>1, <2>2
  <2>5. pc' = "explace" /\ sells'[cur'].n > 0 => cur' \in refused'
    BY <1>7, <2>1, <2>2
  <2>6. sells[cur].n \in Nat /\ (sells'[cur].n > 1 => cur \in refused')
    BY <2>1, <2>2, <1>7 DEF CancelRaises, Cancelled, CancelRefused, NoSells
  <2>7. OneSell'
    BY <2>1, <2>2, <2>6
  <2>q. QED BY <1>7, <2>3, <2>4, <2>5, <2>7
<1>8. CASE ExitCancels BY <1>7, <1>8 DEF ExitCancels
<1>9. CASE MarketCancels BY <1>7, <1>9 DEF MarketCancels
<1>10. CASE ExitCancelFails BY <1>7, <1>10 DEF ExitCancelFails, BackToExit
<1>11. CASE PlaceSell
  <2>1. cur \in Tokens \ todo /\ (sells[cur].n > 0 => cur \in refused)
    BY <1>11 DEF PlaceSell, AtToken
  <2>2. \A u \in Tokens : u # cur => sells'[u] = sells[u]
    BY <1>11 DEF PlaceSell
  <2>3. sells[cur].n \in Nat /\ sells'[cur].n = sells[cur].n + 1
    BY <1>11, <2>1 DEF PlaceSell
  <2>4. OneSell'
    BY <1>11, <2>1, <2>2, <2>3 DEF PlaceSell
  <2>q. QED BY <1>11, <2>1, <2>2, <2>4 DEF PlaceSell, BackToExit
<1>12. CASE PlaceSellFails BY <1>12 DEF PlaceSellFails, BackToExit
<1>13. CASE ExitSells BY <1>13 DEF ExitSells, MarketSells, BackToExit
<1>14. CASE TickEnds BY <1>14 DEF TickEnds, TickReturns
<1>q. QED BY <1>1, <1>2, <1>3, <1>4, <1>5, <1>6, <1>8, <1>9, <1>10, <1>11, <1>12, <1>13, <1>14
      DEF Exit, SkipPosition, KeepSell

LEMMA ListInductive ==
  ASSUME TypeOK, ListInv, [Next]_vars
  PROVE  ListInv'
<1> USE DEF TypeOK, ListInv, OneSell, Listed, Undecided, ListPcs, ExPcs, worldVars, tickVars
<1>1. CASE TickBegins BY <1>1 DEF TickBegins
<1>2. CASE TickAborts BY <1>2 DEF TickAborts, TickReturns
<1>3. CASE UNCHANGED vars BY <1>3 DEF vars
<1>q. QED BY <1>1, <1>2, <1>3, ListOutside, ListLowBalance, ListExit DEF Next, Tick

LEMMA ListHolds == Spec => []ListInv
<1>1. TypeOK /\ Init => ListInv
  BY DEF Init, TypeOK, ListInv, OneSell, Listed, Undecided, ListPcs, ExPcs, Empty, NoSells
<1>2. TypeOK /\ ListInv /\ [Next]_vars => ListInv'
  BY ListInductive
<1>q. QED BY <1>1, <1>2, TypeCorrect, PTL DEF Spec

\* A position has one sell at the most, unless the exchange answered one of its
\* cancellations with not_canceled.
THEOREM OneSellHolds == Spec => []OneSell
BY ListHolds, PTL DEF ListInv

\* A position reported as kept for sale is on sale in full, but for what was
\* sold, or cancelled with the reply lost, since the list was read.
THEOREM KeptIsOnSale == Spec => ReportedIsOnSale
<1>1. ASSUME TypeOK, ListInv, NEW t \in Tokens, KeepSell(t)
      PROVE  t \in excused \/ sells[t].size >= pos[t]
  <2>1. pc = "ex" /\ t \in todo /\ Own(t) = [n |-> 1, size |-> pos[t]]
    BY <1>1 DEF KeepSell, StaysInExit, Takes
  <2>2. t \notin cancelled /\ snap[t].size = pos[t]
    BY <2>1 DEF Own, NoSells
  <2>3. t \in excused \/ sells[t] = snap[t]
    BY <1>1, <2>1, <2>2 DEF ListInv, Listed, Undecided, ListPcs, ExPcs
  <2>q. QED BY <1>1, <2>2, <2>3 DEF TypeOK
<1>2. TypeOK /\ ListInv /\ [Next]_vars =>
        [\A t \in Tokens : KeepSell(t) => t \in excused \/ sells[t].size >= pos[t]]_vars
  BY <1>1
<1>q. QED BY <1>2, TypeCorrect, ListHolds, PTL DEF Spec, ReportedIsOnSale

=============================================================================
