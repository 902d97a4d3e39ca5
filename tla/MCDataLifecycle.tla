-------------------------- MODULE MCDataLifecycle ---------------------------
(* Instance of DataRestore for TLC: one person in two campaigns. *)
EXTENDS DataRestore, TLC

CONSTANTS a, b, g, h, phone

MCCampaignOf == (a :> g) @@ (b :> h)
MCNumberOf   == [c \in {a, b} |-> phone]
Symmetry     == Permutations(Runs) \cup Permutations(Erasers)
=============================================================================
