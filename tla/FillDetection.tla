---------------------------- MODULE FillDetection ----------------------------
(***************************************************************************)
(* How one wallet notices that its resting buys were filled: the watermark *)
(* and the set of seen fills of an OrderMonitor (engine/monitor.py), Step  *)
(* 1 of its tick, the recovery that primes both, and the restarts that     *)
(* lose both.                                                              *)
(*                                                                         *)
(* The monitor thread runs from the moment the worker is started; recovery *)
(* runs on the control thread that started it, at the same time.  The      *)
(* exchange publishes fills some time after it matched them, in the order  *)
(* of their match times; its "after" filter returns what it should and     *)
(* possibly more (monitor.py 161-164).                                     *)
(***************************************************************************)
EXTENDS Integers, FiniteSets

CONSTANTS
  Fills,      \* the (trade, order) pairs that may come about
  Orders,     \* our resting buys
  OrderOf,    \* the order each fill belongs to
  NoFill,     \* not a fill
  MayPrime,   \* are workers started through start_all / start_monitors
  MayNotPrime,\* are workers started through /api/engine/<address>/start
  MaxTime     \* bound: the exchange's clock, in seconds

ASSUME FillsAssumption ==
  /\ NoFill \notin Fills
  /\ OrderOf \in [Fills -> Orders]
  /\ MayPrime \in BOOLEAN /\ MayNotPrime \in BOOLEAN
  /\ MaxTime \in Nat \ {0}

Times == 1..MaxTime

VARIABLES
  now,        \* the time, in seconds since before the first match
  matched,    \* fill -> its match_time, 0 while it has not come about
  published,  \* fills get_trades may return
  open,       \* orders on the exchange's book
  lastRecord, \* the latest created_at in trade_history and actions, 0 if none
  up,         \* is a worker (and with it an OrderMonitor) alive
  afterTs,    \* OrderMonitor._after_ts
  seen,       \* OrderMonitor._seen_fill_keys
  pending,    \* OrderMonitor._prime_pending
  rpc,        \* where the control thread's startup_recovery stands
  pc,         \* where the monitor thread's check_buy_orders stands
  fills, cur, openIds, cancelled,   \* its local variables
  acted,      \* history: how often this run set a cooldown for each fill
  before,     \* history: fills that were public when this run started
  recovered,  \* history: has startup_recovery been through this worker
  clean,      \* history: recovered, as this tick began
  bookThen    \* history: the book as this tick fetched its trades

exchangeVars == <<now, matched, published, open>>
monitorVars  == <<afterTs, seen, pending>>
tickVars     == <<pc, fills, cur, openIds, cancelled, clean, bookThen>>
historyVars  == <<acted, before, recovered>>
vars == <<exchangeVars, lastRecord, up, monitorVars, rpc, tickVars, historyVars>>

TypeOK ==
  /\ now \in Times
  /\ matched \in [Fills -> 0..MaxTime]
  /\ published \subseteq {f \in Fills : matched[f] # 0}
  /\ open \subseteq Orders
  /\ lastRecord \in 0..MaxTime
  /\ up \in BOOLEAN
  /\ afterTs \in 0..MaxTime
  /\ seen \subseteq published
  /\ pending \in BOOLEAN
  /\ rpc \in {"none", "watermark", "prime"}
  /\ pc \in {"idle", "reprime", "fetch", "orders", "next", "cancel", "mark"}
  /\ fills \subseteq published
  /\ cur \in published \cup {NoFill}
  /\ pc \in {"cancel", "mark"} => cur \in fills
  /\ openIds \subseteq Orders
  /\ cancelled \subseteq Orders
  /\ acted \in [Fills -> Nat]
  /\ before \subseteq published
  /\ recovered \in BOOLEAN
  /\ clean \in BOOLEAN
  /\ bookThen \subseteq Orders

Init ==
  /\ now = 1
  /\ matched = [f \in Fills |-> 0]
  /\ published = {}
  /\ open = Orders
  /\ lastRecord = 0
  /\ up = FALSE
  /\ afterTs = 0 /\ seen = {} /\ pending = FALSE
  /\ rpc = "none"
  /\ pc = "idle" /\ fills = {} /\ cur = NoFill
  /\ openIds = {} /\ cancelled = {}
  /\ acted = [f \in Fills |-> 0] /\ before = {} /\ recovered = FALSE /\ clean = FALSE /\ bookThen = {}

\* The locals of check_buy_orders are gone when it returns.
Returns ==
  /\ pc' = "idle" /\ fills' = {} /\ cur' = NoFill
  /\ openIds' = {} /\ cancelled' = {} /\ clean' = FALSE /\ bookThen' = {}

-----------------------------------------------------------------------------
(* The exchange and the rest of the program. *)

TimePasses ==
  /\ now < MaxTime
  /\ now' = now + 1
  /\ UNCHANGED <<matched, published, open, lastRecord, up, monitorVars, rpc,
                 tickVars, historyVars>>

\* A resting buy is filled, in part or up.
Match(f) ==
  /\ matched[f] = 0
  /\ OrderOf[f] \in open
  /\ matched' = [matched EXCEPT ![f] = now]
  /\ open' \in {open, open \ {OrderOf[f]}}
  /\ UNCHANGED <<now, published, lastRecord, up, monitorVars, rpc, tickVars, historyVars>>

Unpublished == {f \in Fills : matched[f] # 0} \ published

Publish(f) ==
  /\ f \in Unpublished
  /\ \A g \in Unpublished : matched[f] <= matched[g]
  /\ published' = published \cup {f}
  /\ UNCHANGED <<now, matched, open, lastRecord, up, monitorVars, rpc,
                 tickVars, historyVars>>

\* The compliance step or a placement pass takes an order off the book.
OrderLeaves(o) ==
  /\ o \in open
  /\ open' = open \ {o}
  /\ UNCHANGED <<now, matched, published, lastRecord, up, monitorVars, rpc,
                 tickVars, historyVars>>

\* Any other action of this wallet is recorded: a buy placed, a sell, or a test
\* order, which needs no worker.
RecordsAction ==
  /\ lastRecord' = now
  /\ UNCHANGED <<exchangeVars, up, monitorVars, rpc, tickVars, historyVars>>

-----------------------------------------------------------------------------
(* Starts, stops and recovery. *)

\* A new worker: its thread ticks at once.  start_all and start_monitors go on
\* to startup_recovery, the start of a single wallet does not.
Start(primes) ==
  /\ ~up
  /\ IF primes THEN MayPrime ELSE MayNotPrime
  /\ up' = TRUE
  /\ rpc' = IF primes THEN "watermark" ELSE "none"
  /\ before' = published
  /\ UNCHANGED <<exchangeVars, lastRecord, monitorVars, tickVars, acted, recovered>>

\* start_all or start_monitors again: the worker is left alone, recovery is not.
RecoverAgain ==
  /\ up /\ rpc = "none"
  /\ MayPrime
  /\ rpc' = "watermark"
  /\ UNCHANGED <<exchangeVars, lastRecord, up, monitorVars, tickVars, historyVars>>

\* The process is killed, or the worker is stopped: all it knew is gone.
GoesDown ==
  /\ up
  /\ up' = FALSE
  /\ afterTs' = 0 /\ seen' = {} /\ pending' = FALSE
  /\ rpc' = "none"
  /\ Returns
  /\ acted' = [f \in Fills |-> 0] /\ before' = {} /\ recovered' = FALSE
  /\ UNCHANGED <<exchangeVars, lastRecord>>

\* init_watermark: the latest time on record; a database error is logged and
\* ends the recovery of this worker ...
InitWatermark ==
  /\ rpc = "watermark"
  /\ \/ rpc' = "prime" /\ afterTs' = lastRecord
     \/ rpc' = "none" /\ UNCHANGED afterTs
  /\ UNCHANGED <<exchangeVars, lastRecord, up, seen, pending, tickVars, historyVars>>

Latest(S, t) == CHOOSE u \in {matched[f] : f \in S} \cup {t} :
                  \A v \in {matched[f] : f \in S} \cup {t} : v <= u

\* _prime_seen_keys when get_trades answers: every published fill is seen.
Primed ==
  /\ seen' = seen \cup published
  /\ afterTs' = Latest(published, afterTs)
  /\ pending' = FALSE

\* ... then _prime_seen_keys; when it fails it is left to the ticks.
PrimeSeen ==
  /\ rpc = "prime"
  /\ rpc' = "none"
  /\ \/ Primed
     \/ pending' = TRUE /\ UNCHANGED <<afterTs, seen>>
  /\ recovered' = TRUE
  /\ UNCHANGED <<exchangeVars, lastRecord, up, tickVars, acted, before>>

-----------------------------------------------------------------------------
(* check_buy_orders, on the monitor thread. *)

\* Mutated form: a failed priming is forgotten.
BeginTick_IgnoresPending ==
  /\ up /\ pc = "idle"
  /\ clean' = recovered
  /\ pc' = "fetch"
  /\ UNCHANGED <<exchangeVars, lastRecord, up, monitorVars, rpc, fills, cur, openIds,
                 cancelled, bookThen, historyVars>>

BeginTick ==
  /\ up /\ pc = "idle"
  /\ clean' = recovered
  /\ pc' = IF pending THEN "reprime" ELSE "fetch"
  /\ UNCHANGED <<exchangeVars, lastRecord, up, monitorVars, rpc, fills, cur, openIds,
                 cancelled, bookThen, historyVars>>

RetryPriming ==
  /\ pc = "reprime"
  /\ Primed
  /\ pc' = "fetch"
  /\ UNCHANGED <<exchangeVars, lastRecord, up, rpc, fills, cur, openIds, cancelled,
                 clean, bookThen, historyVars>>

\* Mutated form: the request asks for fills newer than the watermark's second.
FetchTrades_NewerOnly ==
  /\ pc = "fetch"
  /\ \E got \in SUBSET published :
       /\ {f \in published : matched[f] > afterTs} = got
       /\ IF got \subseteq seen THEN Returns
          ELSE /\ pc' = "orders"
               /\ fills' = got \ seen
               /\ bookThen' = open
               /\ UNCHANGED <<cur, openIds, cancelled, clean>>
  /\ UNCHANGED <<exchangeVars, lastRecord, up, monitorVars, rpc, historyVars>>

\* get_trades(after): all it should return, and possibly older fills.
FetchTrades ==
  /\ pc = "fetch"
  /\ \E got \in SUBSET published :
       /\ {f \in published : matched[f] >= afterTs} \subseteq got
       /\ IF got \subseteq seen THEN Returns
          ELSE /\ pc' = "orders"
               /\ fills' = got \ seen
               /\ bookThen' = open
               /\ UNCHANGED <<cur, openIds, cancelled, clean>>
  /\ UNCHANGED <<exchangeVars, lastRecord, up, monitorVars, rpc, historyVars>>

\* The retry of the priming or get_trades fails: nothing more this tick.
TickGivesUp ==
  /\ pc \in {"reprime", "fetch"}
  /\ Returns
  /\ UNCHANGED <<exchangeVars, lastRecord, up, monitorVars, rpc, historyVars>>

\* Mutated form: the open orders of an earlier moment are reused.
FetchOpenOrders_Shared ==
  /\ pc = "orders"
  /\ openIds' \in {open, Orders, {}}
  /\ cancelled' = {}
  /\ pc' = "next"
  /\ UNCHANGED <<exchangeVars, lastRecord, up, monitorVars, rpc, fills, cur, clean,
                 bookThen, historyVars>>

\* The open orders are fetched after the fills; none are assumed on failure.
FetchOpenOrders ==
  /\ pc = "orders"
  /\ openIds' \in {open, {}}
  /\ cancelled' = {}
  /\ pc' = "next"
  /\ UNCHANGED <<exchangeVars, lastRecord, up, monitorVars, rpc, fills, cur, clean,
                 bookThen, historyVars>>

TickEnds ==
  /\ pc = "next"
  /\ fills = {}
  /\ Returns
  /\ UNCHANGED <<exchangeVars, lastRecord, up, monitorVars, rpc, historyVars>>

\* _handle_fill, oldest fill first: its market cools down; a database error
\* ends the handler.
HandleFill(f) ==
  /\ pc = "next"
  /\ f \in fills
  /\ \A g \in fills : matched[f] <= matched[g]
  /\ cur' = f
  /\ \/ acted' = [acted EXCEPT ![f] = @ + 1] /\ pc' = "cancel"
     \/ acted' = acted /\ pc' = "mark"
  /\ UNCHANGED <<exchangeVars, lastRecord, up, monitorVars, rpc, fills, openIds,
                 cancelled, clean, bookThen, before, recovered>>

\* Cancel what is left of the order, if it was still open.  A refusal is only
\* logged (_check_cancel_resp) and recorded as done; an error is not recorded.
CancelRemainder ==
  LET o == OrderOf[cur]
  IN  /\ pc = "cancel"
      /\ o \in openIds \ cancelled
      /\ cancelled' = cancelled \cup {o}
      /\ lastRecord' = now
      /\ open' \in {open, open \ {o}}
      /\ pc' = "mark"
      /\ UNCHANGED <<now, matched, published, up, monitorVars, rpc, fills, cur,
                     openIds, clean, bookThen, acted, before, recovered>>

KeepRemainder ==
  /\ pc = "cancel"
  /\ pc' = "mark"
  /\ UNCHANGED <<exchangeVars, lastRecord, up, monitorVars, rpc, fills, cur, openIds,
                 cancelled, clean, bookThen, historyVars>>

\* Mutated form: the watermark alone is advanced.
MarkSeen_WatermarkOnly ==
  /\ pc = "mark"
  /\ afterTs' = Latest({cur}, afterTs)
  /\ fills' = fills \ {cur}
  /\ cur' = NoFill
  /\ pc' = "next"
  /\ UNCHANGED <<exchangeVars, lastRecord, up, seen, pending, rpc, openIds, cancelled,
                 clean, bookThen, historyVars>>

\* finally: the fill is seen and the watermark advances, whatever happened.
MarkSeen ==
  /\ pc = "mark"
  /\ seen' = seen \cup {cur}
  /\ afterTs' = Latest({cur}, afterTs)
  /\ fills' = fills \ {cur}
  /\ cur' = NoFill
  /\ pc' = "next"
  /\ UNCHANGED <<exchangeVars, lastRecord, up, pending, rpc, openIds, cancelled, clean,
                 bookThen, historyVars>>

-----------------------------------------------------------------------------
Exchange ==
  \/ TimePasses \/ RecordsAction
  \/ \E f \in Fills : Match(f) \/ Publish(f)
  \/ \E o \in Orders : OrderLeaves(o)

Control ==
  \/ \E primes \in BOOLEAN : Start(primes)
  \/ RecoverAgain \/ GoesDown \/ InitWatermark \/ PrimeSeen

Tick ==
  \/ BeginTick \/ RetryPriming \/ FetchTrades \/ TickGivesUp \/ FetchOpenOrders
  \/ \E f \in Fills : HandleFill(f)
  \/ TickEnds \/ CancelRemainder \/ KeepRemainder \/ MarkSeen

Next == Exchange \/ Control \/ Tick

\* The monitor thread and the control thread run; calls that fail now and then
\* succeed again and again.
Fairness ==
  /\ WF_vars(Tick) /\ WF_vars(InitWatermark \/ PrimeSeen)
  /\ SF_vars(RetryPriming) /\ SF_vars(FetchTrades)

Spec     == Init /\ [][Next]_vars
FairSpec == Spec /\ Fairness

-----------------------------------------------------------------------------
(* Properties. *)

\* Each run of the monitor acts on a fill at most once and only on published
\* ones, although the exchange returns old fills again and again, handlers
\* fail half-way and recovery primes while a tick is at work (monitor.py
\* 161-167, 261-273).
Ledger == INSTANCE FillLedger WITH public <- published, known <- seen
ActsAtMostOnce == Ledger!LedgerSpec

\* A tick that began after startup_recovery ended, even if its priming failed,
\* handles no fill that was public when the worker started: nothing is replayed
\* (monitor.py 230-233).
NoReplayAfterRecovery == pc \in {"cancel", "mark"} => ~(clean /\ cur \in before)

\* A cancel_remainder is recorded only for an order that was still on the book
\* when the fills were fetched: the guard against floods of cancellations of
\* orders long gone (monitor.py 245-251).
NoPhantomCancel == [][cancelled' \ cancelled \subseteq bookThen]_vars

\* A published fill that is not older than the watermark comes to be seen,
\* as long as the worker lives: neither failing calls, nor a second recovery,
\* nor fills of the same second let one slip past the watermark.
EveryFillNoticed ==
  \A f \in Fills :
    up /\ f \in published /\ matched[f] >= afterTs ~> f \in seen \/ ~up

=============================================================================
