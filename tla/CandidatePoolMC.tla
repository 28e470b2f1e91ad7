-------------------------- MODULE CandidatePoolMC --------------------------
(***************************************************************************)
(* Instances of CandidatePool: pairs of templates that differ in one group *)
(* of their settings at a time, with the markets that tell them apart.     *)
(***************************************************************************)
EXTENDS CandidatePool, TLC

Alike == Permutations(Wallets)

Plain ==
  [included |-> Cats, other |-> TRUE, veto |-> {}, floor |-> 1, minDays |-> 0,
   maxDays |-> NoLimit, sizes |-> {20}, hours |-> 0, newCats |-> {}, newOther |-> FALSE,
   band |-> {"mid"}]

PlainMarket ==
  [cats |-> Cats, size |-> 20, batch |-> 1, precise |-> 1, price |-> "mid",
   created |-> 30, eventCreated |-> 30, end |-> 3, eventEnd |-> 3]

Pairs(ts) == [Wallets -> ts]

\* What is made and what is vetoed.
CategoryTemplates ==
  {[Plain EXCEPT !.included = i, !.other = o, !.veto = v] :
     i \in SUBSET Cats, o \in BOOLEAN, v \in SUBSET Cats}
CategoryCases ==
  [market: {[PlainMarket EXCEPT !.cats = c] : c \in SUBSET Cats},
   template: Pairs(CategoryTemplates)]

\* What is protected as new, for a day or for two.
NewTemplates ==
  {[Plain EXCEPT !.included = i, !.other = o, !.hours = h, !.newCats = c, !.newOther = TRUE] :
     i \in {{"sports"}, Cats}, o \in BOOLEAN, h \in {0, 24, 48}, c \in {{"sports"}, Cats}}
NewCases ==
  [market: {[PlainMarket EXCEPT !.cats = c, !.created = a[1], !.eventCreated = a[2]] :
              c \in SUBSET Cats, a \in {<<10, 10>>, <<10, 60>>, <<30, 60>>, <<10, NoDate>>}},
   template: Pairs(NewTemplates)]

\* Sizes, windows, thresholds and price bands.
GateTemplates ==
  {[Plain EXCEPT !.sizes = s, !.minDays = w[1], !.maxDays = w[2], !.floor = f, !.band = b] :
     s \in {{}, {20}, {20, 50}}, w \in {<<0, NoLimit>>, <<2, NoLimit>>, <<0, 1>>},
     f \in {1, 2}, b \in {{"mid"}}} \cup {[Plain EXCEPT !.band = {"low"}]}
GateCases ==
  [market: {[PlainMarket EXCEPT !.size = s, !.batch = 2, !.precise = p,
                                !.end = e[1], !.eventEnd = e[2]] :
              s \in {20, 50}, p \in {1, 2},
              e \in {<<1, 1>>, <<1, 3>>, <<3, 1>>, <<2, 2>>}},
   template: Pairs(GateTemplates)]

MCCases == CategoryCases \cup NewCases \cup GateCases

\* One edit of each kind: a veto, a size, a protection.
MCEdits ==
  {[Plain EXCEPT !.other = FALSE, !.veto = {"sports"}],
   [Plain EXCEPT !.sizes = {20, 50}, !.minDays = 2],
   [Plain EXCEPT !.hours = 48, !.newCats = {"sports"}, !.newOther = TRUE]}
=============================================================================
