---------------------------- MODULE CandidatePool ----------------------------
(***************************************************************************)
(* How a market gets into the pool of candidates, and from there into a    *)
(* wallet's placement round.  The discovery (scanner.discover_candidates)  *)
(* runs once for the templates of all wallets: it may leave out only what  *)
(* every template would, and it asks for dates, tags and precise rewards   *)
(* only where some template may need them.  The round then applies each    *)
(* wallet's own template to the pool's entry (prefilter_for_template),     *)
(* hours later and perhaps after the template was edited.                  *)
(*                                                                         *)
(* One market, seen by Wallets.  Dates are relative to the discovery: the  *)
(* market's age in hours, its settlement in calendar days.                 *)
(***************************************************************************)
EXTENDS Integers

CONSTANTS
  Wallets,      \* the enabled wallets
  Cats,         \* the curated categories
  Cases,        \* [market: ..., template: [Wallets -> templates]] to start from
  Edits,        \* templates a wallet's may be edited into
  NoDate,       \* a date that is missing or cannot be parsed
  NoLimit       \* max_settlement_days = None

\* What the query that is not of a category finds markets by.
AllCategories == "all categories"

ASSUME DatesAssumption == NoDate \notin Int /\ NoLimit \notin Int
ASSUME CatsAssumption ==
  AllCategories \notin Cats /\ \A c \in Cases : c.market.cats \subseteq Cats
ASSUME AmountsAssumption ==
  \A c \in Cases :
    /\ c.market.batch \in Int /\ c.market.precise \in Int
    /\ c.market.created \in Int \cup {NoDate}
    /\ \A w \in Wallets : c.template[w].floor \in Nat /\ c.template[w].hours \in Nat

VARIABLES
  market,       \* what is true of the market, and what the rewards endpoint says
  template,     \* the template of each wallet
  phase,        \* how far the discovery is
  templates,    \* the templates the discovery runs for (_active_templates)
  found,        \* the categories whose query the market was found by
  entry,        \* the market's record on its way into the pool, or NoEntry
  reply,        \* history: what the network answered
  clock         \* calendar days since the discovery

candidateVars == <<market, template, phase, templates, found, entry, reply, clock>>

NoEntry == [tags |-> {}, created |-> NoDate, end |-> NoDate, reward |-> 0, in |-> FALSE]
NoReply == [missed |-> {}, details |-> {}, exact |-> FALSE]

CandidateInit ==
  /\ \E c \in Cases : market = c.market /\ template = c.template
  /\ phase = "query" /\ templates = {} /\ found = {} /\ entry = NoEntry
  /\ reply = NoReply /\ clock = 0

-----------------------------------------------------------------------------
(* categories.py, tiers.py and the gates of scanner.py.                     *)

InCategories(tags, slugs, untagged) == tags \cap slugs # {} \/ (untagged /\ tags = {})

\* The veto goes before the list of what is made.
MarketWanted(tags, included, other, veto) ==
  veto \cap tags = {} /\ InCategories(tags, included, other)

IncludedUnion(ts) == UNION {t.included : t \in ts}
VetoUnion(ts)     == UNION {t.veto : t \in ts}
AnyOther(ts)      == \E t \in ts : t.other
UnionSizes(ts)    == UNION {t.sizes : t \in ts}

SlugsNeeded_NoVeto(ts) == IF AnyOther(ts) THEN Cats ELSE IncludedUnion(ts)

\* What is vetoed is queried too, or it could not be recognised.
SlugsNeeded(ts) ==
  IF AnyOther(ts) THEN Cats ELSE (IncludedUnion(ts) \cup VetoUnion(ts)) \cap Cats

Least(S) == CHOOSE x \in S : \A y \in S : x <= y

\* A protection of new markets reaches no further than what the template makes.
ProtectsNew(t, tags) ==
  t.hours > 0 /\ InCategories(tags, t.newCats \cap t.included, t.newOther /\ t.other)

LoosestHours_Strictest(ts, tags) ==
  LET hours == {IF ProtectsNew(t, tags) THEN t.hours ELSE 0 : t \in ts}
  IN  CHOOSE h \in hours : \A g \in hours : g <= h

\* The discovery may leave out as too new what every template protects.
LoosestHours(ts, tags) ==
  IF \E t \in ts : ~ProtectsNew(t, tags) THEN 0 ELSE Least({t.hours : t \in ts})

TooNew(hours, created) == hours > 0 /\ created # NoDate /\ created + 24 * clock < hours

InWindow(t, end) ==
  end # NoDate =>
    /\ t.minDays <= end - clock
    /\ t.maxDays = NoLimit \/ end - clock <= t.maxDays

ShouldPrice_EveryWindow(ts, m, end) ==
  (UnionSizes(ts) = {} \/ m.size \in UnionSizes(ts)) /\ \A t \in ts : InWindow(t, end)

\* Is the market worth a call for its precise reward?
ShouldPrice(ts, m, end) ==
  (UnionSizes(ts) = {} \/ m.size \in UnionSizes(ts)) /\ \E t \in ts : InWindow(t, end)

-----------------------------------------------------------------------------
(* The discovery, on the templates that were active when it began.          *)

\* Templates that agree on all the discovery uses are taken once: the price band
\* and whatever else a template holds is not of the key (_active_templates).
KeyOf(t) ==
  <<t.included, t.other, t.veto, t.floor, t.minDays, t.maxDays, t.sizes,
    t.hours, t.newCats, t.newOther>>

ActiveTemplates ==
  LET all == {template[w] : w \in Wallets}
  IN  {CHOOSE t \in all : KeyOf(t) = k : k \in {KeyOf(t) : t \in all}}

\* The queries that may miss the market (get_rewards_markets): each stops after so
\* many pages, or at the page that failed three times.
MayMiss(queries) == SUBSET queries

\* Each category that is needed is queried, and everything if some template takes
\* uncategorised markets.  A query that fails is taken for empty.
Query ==
  /\ phase = "query"
  /\ templates' = ActiveTemplates
  /\ LET queries == SlugsNeeded(templates') \cup (IF AnyOther(templates') THEN {AllCategories} ELSE {})
     IN  \E missed \in MayMiss(queries) :
           /\ reply' = [reply EXCEPT !.missed = missed]
           /\ found' = (queries \cap (market.cats \cup {AllCategories})) \ missed
  /\ phase' = "gate"
  /\ UNCHANGED <<market, template, entry, clock>>

\* The market is dropped when no template includes it, or its batch reward is below
\* the lowest threshold.
Gate ==
  /\ phase = "gate"
  /\ LET tags == found \ {AllCategories} IN
     IF /\ found # {}
        /\ MarketWanted(tags, IncludedUnion(templates), AnyOther(templates), {})
        /\ market.batch >= Least({t.floor : t \in templates})
     THEN /\ entry' = [tags |-> tags, created |-> market.eventCreated, end |-> market.eventEnd,
                       reward |-> market.batch, in |-> FALSE]
          /\ phase' = "details"
     ELSE UNCHANGED entry /\ phase' = "done"
  /\ UNCHANGED <<market, template, templates, found, reply, clock>>

\* _use_market_level_details: Gamma's dates replace those of the event, its tags are
\* added; what it does not answer stays.
WithDetails(e, got) ==
  [e EXCEPT !.tags    = IF "tags" \in got THEN @ \cup market.cats ELSE @,
            !.created = IF "created" \in got THEN market.created ELSE @,
            !.end     = IF "end" \in got THEN market.end ELSE @]

\* What Gamma would say that the entry does not.
News ==
  {n \in {"tags", "created", "end"} :
     \/ n = "tags" /\ ~(market.cats \subseteq entry.tags)
     \/ n = "created" /\ market.created # entry.created
     \/ n = "end" /\ market.end # entry.end}

\* What Gamma may tell of it: a batch that fails twice tells nothing, and an answer may
\* lack a field.
MayTell(news) == SUBSET news

\* Gamma is asked about a market of a size that some template takes.  Then those that
\* every template protects as new are dropped.
Details ==
  /\ phase = "details"
  /\ \E got \in IF market.size \in UnionSizes(templates) THEN MayTell(News) ELSE {{}} :
       LET e == WithDetails(entry, got) IN
       /\ reply' = [reply EXCEPT !.details = got]
       /\ IF TooNew(LoosestHours(templates, e.tags), e.created)
          THEN entry' = NoEntry /\ phase' = "done"
          ELSE entry' = e /\ phase' = "price"
  /\ UNCHANGED <<market, template, templates, found, clock>>

\* The precise reward takes the place of the batch one where it is asked for and
\* answered; with or without, the market joins the pool.
Price ==
  /\ phase = "price" /\ phase' = "done"
  /\ \E exact \in IF ShouldPrice(templates, market, entry.end) THEN BOOLEAN ELSE {FALSE} :
       /\ entry' = [entry EXCEPT !.reward = IF exact THEN market.precise ELSE market.batch,
                                 !.in = TRUE]
       \* A call that was not made did not fail: what is left is a batch reward.
       /\ reply' = [reply EXCEPT !.exact = exact \/ ~ShouldPrice(templates, market, entry.end)]
  /\ UNCHANGED <<market, template, templates, found, clock>>

\* The templates the discovery ran for are still the wallets'.
Unedited == templates = ActiveTemplates

\* Later the same pool is used on the next calendar day.
Midnight ==
  /\ entry.in /\ clock = 0 /\ clock' = 1
  /\ UNCHANGED <<market, template, phase, templates, found, entry, reply>>

\* A wallet's template is edited, or another one assigned; no discovery follows.
\* Bound: one such edit.
Edit ==
  /\ entry.in /\ Unedited
  /\ \E w \in Wallets, t \in Edits : template' = [template EXCEPT ![w] = t]
  /\ UNCHANGED <<market, phase, templates, found, entry, reply, clock>>

CandidateNext == Query \/ Gate \/ Details \/ Price \/ Midnight \/ Edit

CandidateSpec == CandidateInit /\ [][CandidateNext]_candidateVars

-----------------------------------------------------------------------------
(* The round: prefilter_for_template, without the cooldown.                 *)

\* Does the market pass for the wallet, from the pool's entry, now?
Prefilter(w) ==
  LET t == template[w] IN
  /\ entry.in
  /\ MarketWanted(entry.tags, t.included, t.other, t.veto)
  /\ market.batch >= t.floor /\ entry.reward >= t.floor
  /\ InWindow(t, entry.end)
  /\ ~(ProtectsNew(t, entry.tags) /\ TooNew(t.hours, entry.created))
  /\ market.size \in t.sizes /\ market.price \in t.band

-----------------------------------------------------------------------------
(* Properties.                                                              *)

\* What the template of a wallet asks for, of the market as it is.
Suits(w) ==
  LET t == template[w] IN
  /\ MarketWanted(market.cats, t.included, t.other, t.veto)
  /\ InWindow(t, market.end)
  /\ ~(ProtectsNew(t, market.cats) /\ TooNew(t.hours, market.created))

Pays(w) == market.batch >= template[w].floor /\ market.precise >= template[w].floor
Fits(w) == market.size \in template[w].sizes /\ market.price \in template[w].band

\* Was each thing that the endpoint may not know, or know only of the event, learnt?
TagsKnown == entry.tags = market.cats \/ (Unedited /\ reply.missed = {})
DatesKnown ==
  /\ "created" \in reply.details \/ market.eventCreated = market.created
  /\ "end" \in reply.details \/ market.eventEnd = market.end

\* The one discovery for all templates loses nothing that a wallet wants: a market
\* that suits one template, pays and fits is in that wallet's round, whatever the
\* other templates leave out, if no query missed it and its dates were learnt
\* (scanner.py 222-331, manager.py 1299-1331).
NothingWantedIsLost ==
  (phase = "done" /\ Unedited /\ clock = 0 /\ reply.missed = {} /\ DatesKnown) =>
    \A w \in Wallets : Suits(w) /\ Pays(w) /\ Fits(w) => Prefilter(w)

\* A market that passes for a wallet suits its template, also the next day and after
\* an edit, though the discovery looked only where the templates of that time asked
\* it to: none of a vetoed category, none that is protected as new, none outside the
\* window, unless neither source knew its tags and dates.
PassingMarketSuits ==
  (phase = "done" /\ TagsKnown /\ DatesKnown) =>
    \A w \in Wallets : Prefilter(w) => Suits(w)

\* A wallet's round goes by the precise reward: the calls that the discovery saves are
\* only those for markets that pass for nobody, that same day.
PassingMarketIsPriced ==
  (phase = "done" /\ Unedited /\ clock = 0 /\ reply.exact) =>
    \A w \in Wallets : Prefilter(w) => entry.reward = market.precise
=============================================================================
