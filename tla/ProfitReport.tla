----------------------------- MODULE ProfitReport -----------------------------
(***************************************************************************)
(* The ledger of daily profit and the weekly report made from it.  Each    *)
(* wallet's ledger is computed anew once a Beijing day, in a thread that   *)
(* fetches the wallet's history and then writes one row per day, oldest    *)
(* first.  Whether one runs and when one last ended is known to the worker *)
(* of the wallet: a start of the engine makes a new worker, and a stop     *)
(* does not wait for the old one's thread, which goes on writing.  The     *)
(* scanner's loop assembles the report from whatever rows are there, once  *)
(* a week after PUSH_HOUR, and a thread sends it; what these two share     *)
(* belongs to the process.  Only the rows and the week last reported       *)
(* survive a restart of it, and nobody but the operator starts the engine. *)
(*                                                                         *)
(* A row is abstracted to how much of the day it was computed from: its    *)
(* trades so far, or all, with the reward that is paid a day later.        *)
(***************************************************************************)
EXTENDS Naturals, FiniteSets

CONSTANTS
  Wallets,      \* wallets whose monitor ticks
  MaxDay,       \* bound: days, from PNL_START_DATE; the run begins on the second
  MaxStarts,    \* bound: how often the engine is started
  DaysPerWeek,  \* days of a week, and of a report
  MaxFaults     \* bound: calls that fail, and crashes

ASSUME BoundsAssumption ==
  MaxDay \in Nat \ {0, 1} /\ MaxStarts \in Nat /\ DaysPerWeek \in Nat \ {0} /\ MaxFaults \in Nat

VARIABLES
  day,          \* the Beijing day
  evening,      \* is it past PUSH_HOUR
  paid,         \* days whose reward was paid
  engine,       \* does it run; "down" if the process does not
  worker,       \* the last start: its workers and its loop, counted by starts
  rows,         \* daily_pnl: how complete each wallet's row of each day is
  rebuild,      \* _rebuild_pnl_now of each worker of each wallet
  lastDate,     \* _last_pnl_date of each wallet's worker of the last start, 0 if None
  spoilt,       \* history: rows that a worker long stopped overwrote with less
  past,         \* loops that a stop found past their last check of it
  loop,         \* _maybe_push_weekly of each loop: the week it assembled, or NoWeek
  pushing,      \* _pushing
  backoff,      \* is now before _push_retry_after
  sender,       \* the _send_report a loop started
  lastWeek,     \* last_push_week in the database
  delivered,    \* history: reports of each week that reached the relay
  excused,      \* history: weeks whose report may be repeated
  faults        \* faults that may still happen

clock  == <<day, evening, paid>>
life   == <<engine, worker>>
ledger == <<rows, rebuild, lastDate, spoilt>>
push   == <<past, loop, pushing, backoff, sender>>
reportVars   == <<clock, life, ledger, push, lastWeek, delivered, excused, faults>>

Days   == 1 .. MaxDay
Starts == 1 .. MaxStarts
WeekOf(d) == 1 + (d - 1) \div DaysPerWeek
Weeks  == {WeekOf(d) : d \in Days}
NoWeek == 0
\* The report's days: the last whole ones, up to yesterday (weekly_window).
Window(d) == {e \in Days : e < d /\ e + DaysPerWeek >= d}

Nothing == 0
Trades  == 1
Whole   == 2
\* What the history holds of a day: a reward goes to the day before it is paid.
Known(d) == IF d > day THEN Nothing ELSE IF d \in paid THEN Whole ELSE Trades

NoRebuild == [at |-> "idle", today |-> 0, data |-> [d \in Days |-> Nothing], next |-> 1]
NoSender  == [at |-> "none", week |-> NoWeek]

ReportInit ==
  /\ day = 2 /\ evening = FALSE /\ paid = {} /\ engine = "stopped" /\ worker = 0
  /\ rows = [w \in Wallets |-> [d \in Days |-> Nothing]]
  /\ rebuild = [w \in Wallets |-> [n \in Starts |-> NoRebuild]]
  /\ lastDate = [w \in Wallets |-> 0] /\ spoilt = {}
  /\ past = {} /\ loop = [l \in Starts |-> NoWeek] /\ pushing = FALSE /\ backoff = FALSE
  /\ sender = [l \in Starts |-> NoSender] /\ lastWeek = NoWeek
  /\ delivered = [k \in Weeks |-> 0] /\ excused = {} /\ faults = MaxFaults

Fault == faults > 0 /\ faults' = faults - 1

-----------------------------------------------------------------------------
(* Time, the exchange and the process.                                      *)

PushHour ==
  /\ ~evening /\ evening' = TRUE
  /\ UNCHANGED <<day, paid, life, ledger, push, lastWeek, delivered, excused, faults>>

\* Yesterday's reward is paid some time today.
RewardPaid ==
  /\ day > 1 /\ day - 1 \notin paid /\ paid' = paid \cup {day - 1}
  /\ UNCHANGED <<day, evening, life, ledger, push, lastWeek, delivered, excused, faults>>

\* Does the thread that sends, started by the loop, have a report to send or to store?
Working(l) == sender[l].at \in {"send", "store"}

\* Assembling and sending take seconds (15 s at most): no day, and no hour of a
\* backoff, ends in between.
AtRest == \A l \in Starts : loop[l] = NoWeek /\ ~Working(l)

NextDay ==
  /\ evening /\ day < MaxDay /\ (day > 1 => day - 1 \in paid) /\ AtRest
  /\ day' = day + 1 /\ evening' = FALSE /\ past' = {}
  /\ UNCHANGED <<paid, life, ledger, loop, pushing, backoff, sender>>
  /\ UNCHANGED <<lastWeek, delivered, excused, faults>>

\* start_all and stop_all, by the operator.  A start makes a worker for each wallet and a
\* loop; a stop forgets them, but their threads go on, and a loop past its last check
\* looks once more whether a report is due.
EngineStarts ==
  /\ engine = "stopped" /\ worker < MaxStarts
  /\ engine' = "running" /\ worker' = worker + 1
  /\ lastDate' = [w \in Wallets |-> 0]
  /\ UNCHANGED <<clock, rows, rebuild, spoilt, push, lastWeek, delivered, excused, faults>>

EngineStops ==
  /\ engine = "running" /\ engine' = "stopped"
  /\ past' \in {past, past \cup {worker}}
  /\ UNCHANGED <<clock, worker, ledger, loop, pushing, backoff, sender>>
  /\ UNCHANGED <<lastWeek, delivered, excused, faults>>

\* The threads die where they are.
Crash ==
  /\ engine # "down" /\ Fault /\ engine' = "down"
  /\ excused' = excused \cup {sender[l].week : l \in {k \in Starts : sender[k].at = "store"}}
  /\ rebuild' = [w \in Wallets |-> [n \in Starts |-> NoRebuild]]
  /\ lastDate' = [w \in Wallets |-> 0]
  /\ past' = {} /\ loop' = [l \in Starts |-> NoWeek] /\ pushing' = FALSE /\ backoff' = FALSE
  /\ sender' = [l \in Starts |-> NoSender]
  /\ UNCHANGED <<clock, worker, rows, spoilt, lastWeek, delivered>>

\* The process comes back without the engine.
Boot ==
  /\ engine = "down" /\ engine' = "stopped"
  /\ UNCHANGED <<clock, worker, ledger, push, lastWeek, delivered, excused, faults>>

-----------------------------------------------------------------------------
(* The ledger (manager.py 253-285, pnl_ledger.py).                          *)

UnchangedBut == UNCHANGED <<clock, life, push, lastWeek, delivered, excused>>

\* A tick of the worker that is not at work on a rebuild, nor has done the day's.
Due(w, n) ==
  engine = "running" /\ n = worker /\ lastDate[w] # day /\ rebuild[w][n].at = "idle"

\* It starts the thread, on the day of the tick.
StartRebuild(w, n) ==
  /\ Due(w, n)
  /\ rebuild' = [rebuild EXCEPT ![w][n] = [NoRebuild EXCEPT !.at = "fetch", !.today = day]]
  /\ UnchangedBut /\ UNCHANGED <<rows, lastDate, spoilt, faults>>

\* No thread can be started, and _pnl_rebuilding is left set.
StartRebuildFails(w, n) ==
  /\ Due(w, n) /\ Fault
  /\ rebuild' = [rebuild EXCEPT ![w][n] = [NoRebuild EXCEPT !.at = "stuck"]]
  /\ UnchangedBut /\ UNCHANGED <<rows, lastDate, spoilt>>

\* The whole history is fetched, and split by days up to the day of the tick.
FetchHistory(w, n) ==
  LET r == rebuild[w][n]
      data == [d \in Days |-> IF d <= r.today THEN Known(d) ELSE Nothing]
  IN  /\ r.at = "fetch"
      /\ rebuild' = [rebuild EXCEPT ![w][n].at = "write", ![w][n].data = data]
      /\ UnchangedBut /\ UNCHANGED <<rows, lastDate, spoilt, faults>>

\* Each of these days has its row overwritten, the oldest first (what is written is
\* no longer kept in data).
WriteRow(w, n) ==
  LET r == rebuild[w][n]
      d == r.next
  IN  /\ r.at = "write" /\ d <= r.today
      /\ rows' = [rows EXCEPT ![w][d] = r.data[d]]
      /\ rebuild' = [rebuild EXCEPT ![w][n].next = d + 1, ![w][n].data[d] = Nothing]
      /\ spoilt' = IF n = worker THEN spoilt \ {<<w, d>>}
                   ELSE IF r.data[d] < rows[w][d] THEN spoilt \cup {<<w, d>>} ELSE spoilt
      /\ UnchangedBut /\ UNCHANGED <<lastDate, faults>>

RebuildEnds(w, n) ==
  /\ rebuild[w][n].at = "write" /\ rebuild[w][n].next > rebuild[w][n].today
  /\ rebuild' = [rebuild EXCEPT ![w][n] = NoRebuild]
  /\ UnchangedBut /\ UNCHANGED <<rows, spoilt, faults>>

\* A worker sets its own date; that of a worker that was replaced is read no more.
DateSet(w, n, d) == lastDate' = IF n = worker THEN [lastDate EXCEPT ![w] = d] ELSE lastDate

Rebuilt_DayItEnds(w, n) == RebuildEnds(w, n) /\ DateSet(w, n, day)

\* The date that counts as done is the day of the tick, not the day it ends.
Rebuilt(w, n) == RebuildEnds(w, n) /\ DateSet(w, n, rebuild[w][n].today)

RebuildFails_DateSet(w, n) ==
  /\ rebuild[w][n].at \in {"fetch", "write"} /\ Fault
  /\ rebuild' = [rebuild EXCEPT ![w][n] = NoRebuild]
  /\ DateSet(w, n, rebuild[w][n].today)
  /\ UnchangedBut /\ UNCHANGED <<rows, spoilt>>

\* A fetch or a write raises: the date is not set, the next tick tries again.
RebuildFails(w, n) ==
  /\ rebuild[w][n].at \in {"fetch", "write"} /\ Fault
  /\ rebuild' = [rebuild EXCEPT ![w][n] = NoRebuild]
  /\ UnchangedBut /\ UNCHANGED <<rows, lastDate, spoilt>>

-----------------------------------------------------------------------------
(* The report (manager.py 1215-1297).                                       *)

LedgerEmpty == \A w \in Wallets, d \in Days : d < day => rows[w][d] = Nothing

\* A loop finds the report due, and assembles it from the rows there are.
Assemble(l) ==
  /\ l \in past \/ (engine = "running" /\ l = worker)
  /\ loop[l] = NoWeek /\ ~pushing /\ ~backoff /\ evening
  /\ lastWeek # WeekOf(day) /\ ~LedgerEmpty
  /\ past' = past \ {l}
  /\ loop' = [loop EXCEPT ![l] = WeekOf(day)]
  /\ UNCHANGED <<clock, life, ledger, pushing, backoff, sender>>
  /\ UNCHANGED <<lastWeek, delivered, excused, faults>>

\* Then it sets _pushing and starts the thread.  Two loops that both assembled
\* before either set it both send.
StartSending(l) ==
  /\ loop[l] # NoWeek /\ ~Working(l)
  /\ pushing' = TRUE
  /\ sender' = [sender EXCEPT ![l] = [at |-> "send", week |-> loop[l]]]
  /\ loop' = [loop EXCEPT ![l] = NoWeek]
  /\ excused' = excused \cup {k \in Weeks : \E m \in Starts \ {l} : loop[m] = k /\ k = loop[l]}
  /\ UNCHANGED <<clock, life, ledger, past, backoff, lastWeek, delivered, faults>>

\* No thread can be started, and _pushing is left set.
StartSendingFails(l) ==
  /\ loop[l] # NoWeek /\ ~Working(l) /\ Fault
  /\ pushing' = TRUE
  /\ sender' = [sender EXCEPT ![l] = [NoSender EXCEPT !.at = "stuck"]]
  /\ loop' = [loop EXCEPT ![l] = NoWeek]
  /\ UNCHANGED <<clock, life, ledger, past, backoff, lastWeek, delivered, excused>>

Deliver(l) == delivered' = [delivered EXCEPT ![sender[l].week] = @ + 1]

Sent(l) ==
  /\ sender[l].at = "send" /\ Deliver(l)
  /\ sender' = [sender EXCEPT ![l].at = "store"]
  /\ UNCHANGED <<clock, life, ledger, past, loop, pushing, backoff, lastWeek, excused, faults>>

\* finally: the next report may start.
SenderEnds(l) ==
  /\ sender' = [sender EXCEPT ![l] = NoSender] /\ pushing' = FALSE
  /\ UNCHANGED <<clock, life, ledger, past, loop>>

StoreWeek_InMemory(l) ==
  /\ sender[l].at = "store" /\ SenderEnds(l)
  /\ UNCHANGED <<backoff, lastWeek, delivered, excused, faults>>

StoreWeek(l) ==
  /\ sender[l].at = "store" /\ SenderEnds(l)
  /\ lastWeek' = sender[l].week
  /\ UNCHANGED <<backoff, delivered, excused, faults>>

SendFails_NoFinally(l) ==
  /\ Working(l) /\ Fault /\ backoff' = TRUE
  /\ sender' = [sender EXCEPT ![l] = NoSender]
  /\ UNCHANGED <<clock, life, ledger, past, loop, pushing, lastWeek, delivered, excused>>

\* The report does not get through, or only the answer is lost, or the week cannot
\* be stored: no other attempt for an hour.
SendFails(l) ==
  /\ Working(l) /\ Fault /\ SenderEnds(l)
  /\ backoff' = TRUE
  /\ \/ /\ sender[l].at = "send" /\ UNCHANGED <<delivered, excused>>
     \/ /\ sender[l].at = "send" /\ Deliver(l)
        /\ excused' = excused \cup {sender[l].week}
     \/ /\ sender[l].at = "store" /\ UNCHANGED delivered
        /\ excused' = excused \cup {sender[l].week}
  /\ UNCHANGED lastWeek

BackoffEnds ==
  /\ backoff /\ AtRest /\ backoff' = FALSE
  /\ UNCHANGED <<clock, life, ledger, past, loop, pushing, sender>>
  /\ UNCHANGED <<lastWeek, delivered, excused, faults>>

-----------------------------------------------------------------------------
Time == PushHour \/ RewardPaid \/ NextDay

Operator == EngineStarts \/ EngineStops

Rebuild(w, n) ==
  \/ StartRebuild(w, n) \/ StartRebuildFails(w, n)
  \/ FetchHistory(w, n) \/ WriteRow(w, n) \/ Rebuilt(w, n) \/ RebuildFails(w, n)

Send(l) ==
  StartSending(l) \/ StartSendingFails(l) \/ Sent(l) \/ StoreWeek(l) \/ SendFails(l)

ReportNext ==
  \/ Time \/ Operator \/ Crash \/ Boot \/ BackoffEnds
  \/ \E w \in Wallets, n \in Starts : Rebuild(w, n)
  \/ \E l \in Starts : Assemble(l) \/ Send(l)

ReportSpec == ReportInit /\ [][ReportNext]_reportVars

\* While the engine runs its ticks and its loop go on, as do the threads they started: their
\* requests time out.  So does the thread that sends of a loop that was stopped, and the hour
\* of the backoff passes.  Nothing hurries the clock, and nothing makes the operator start
\* the engine or the process.
FairSpec ==
  /\ ReportSpec
  /\ WF_reportVars(BackoffEnds)
  /\ \A w \in Wallets : WF_reportVars(\E n \in Starts : n = worker /\ Rebuild(w, n))
  /\ WF_reportVars(engine = "running" /\ \E l \in Starts : l = worker /\ Assemble(l))
  /\ \A l \in Starts : WF_reportVars(Send(l))

-----------------------------------------------------------------------------
(* Properties.                                                              *)

\* A week is reported once, restarts and failures included, but when the report got
\* through and that was not learnt or not stored, or two loops had both found it due
\* before either set _pushing (manager.py 1222-1231, 1272, 1289-1297).
ReportedOnce == \A k \in Weeks \ excused : delivered[k] <= 1

\* As complete as a row of a day that is over can be today.
Complete(d, row) == row = Whole \/ (d = day - 1 /\ row = Trades)

\* Has the engine's worker done its rebuild of today?
RebuiltToday(w) == lastDate[w] = day

\* What a report made after the day's rebuild of every wallet shows of its days is
\* complete: they all have their rows, and those before yesterday have their rewards.
\* It holds though a rebuild may begin before midnight and end after it, and write
\* the rows while the report reads them; all that can spoil a row is the thread of a
\* worker stopped while it was at it, which goes on beside the new worker's with what
\* it had fetched (manager.py 157-163, 263-265, 1160).  (A report made before the
\* rebuild, or after a stop, is of what rows there are.)
ReportAfterRebuildIsWhole ==
  [][\A l \in Starts :
       Assemble(l) /\ (\A w \in Wallets : RebuiltToday(w)) =>
         \A w \in Wallets, d \in Window(day) :
           Complete(d, rows[w][d]) \/ <<w, d>> \in spoilt]_reportVars

\* Is the worker's _pnl_rebuilding set by a rebuild that never began?
Stuck(w) == \E n \in Starts : n = worker /\ rebuild[w][n].at = "stuck"

\* While the engine runs the ledger catches up: whatever failed, died or was skipped on
\* the way, the rows of all days at least two days past get their rewards, without a new
\* day being needed, but what the thread of a stopped worker spoilt, which stays until
\* the next rebuild, and but for a worker that could not start its thread.
RowsBecomeWhole ==
  []<>(engine = "running" =>
         \A w \in Wallets : Stuck(w) \/
           \A d \in Days : d + 2 <= day => rows[w][d] = Whole \/ <<w, d>> \in spoilt)

\* Is _pushing set by a thread that never began, and nothing being sent?
Wedged == pushing /\ AtRest /\ \E l \in Starts : sender[l].at = "stuck"

\* In an evening that lasts, while the engine runs, the report of the week is sent and
\* the week stored: a failure delays it by the backoff and blocks nothing, but that of
\* starting the thread that sends (manager.py 1272-1281), or the first one that rebuilds.
ReportIsSent ==
  []<>(engine = "running" /\ evening =>
         lastWeek = WeekOf(day) \/ Wedged \/ \A w \in Wallets : Stuck(w))
=============================================================================
