----------------------------- MODULE QuotingMC -----------------------------
(* Quoting on one market: five prices, a thin and a thick size. *)
EXTENDS Quoting

MCPrices == 1..5
BookOf(thin, thick) ==
  [p \in MCPrices |-> IF p \in thick THEN 4 ELSE IF p \in thin THEN 1 ELSE 0]

\* Full books, books with a gap in the middle or at the bottom, and a best bid that
\* is thin, low, or leads into the lower end of the price band.
MCOtherBooks == [s \in {"a", "b"} |->
  IF s = "a"
  THEN {BookOf({5, 1}, {4, 3}), BookOf({1}, {5, 2}), BookOf({2}, {})}
  ELSE {BookOf({1}, {5, 4, 2}), BookOf({}, {2, 1})}]
MCAsk == [s \in {"a", "b"} |-> 6]

MCTable    == {[upper |-> 3, weight |-> 2], [upper |-> 5, weight |-> 1]}
MCHighGate == <<3, 1, 0>>
MCMinCoeff == <<2, 2, 1>>
=============================================================================
