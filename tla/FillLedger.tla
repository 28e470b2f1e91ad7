----------------------------- MODULE FillLedger -----------------------------
(***************************************************************************)
(* What fill detection promises for one run of a wallet's monitor: it acts *)
(* (cooldown, cancellation of the order's remainder) only on fills the     *)
(* exchange has published, on each at most once, and a fill that is known  *)
(* stays known until the run ends.  How the fills are fetched, primed,     *)
(* deduplicated and retried is FillDetection's affair.                     *)
(***************************************************************************)

EXTENDS Naturals

CONSTANT Fills

VARIABLES
  public,   \* fills the exchange has published
  known,    \* fills this run will never look at again
  acted     \* how often this run acted on each fill

ledgerVars == <<public, known, acted>>

LedgerInit == public = {} /\ known = {} /\ acted = [f \in Fills |-> 0]

Publish(f) ==
  /\ f \in Fills \ public
  /\ public' = public \cup {f}
  /\ UNCHANGED <<known, acted>>

Act(f) ==
  /\ f \in public
  /\ acted[f] = 0
  /\ acted' = [acted EXCEPT ![f] = 1]
  /\ UNCHANGED <<public, known>>

Know(S) ==
  /\ S \subseteq public
  /\ known' = known \cup S
  /\ UNCHANGED <<public, acted>>

NewRun ==
  /\ known' = {} /\ acted' = [f \in Fills |-> 0]
  /\ UNCHANGED public

LedgerNext ==
  \/ \E f \in Fills : Publish(f) \/ Act(f)
  \/ \E S \in SUBSET public : Know(S)
  \/ NewRun

LedgerSpec == LedgerInit /\ [][LedgerNext]_ledgerVars

=============================================================================
