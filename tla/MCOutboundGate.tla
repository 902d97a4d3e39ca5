--------------------------- MODULE MCOutboundGate ---------------------------
(* Instance of OutboundGate for TLC: the workers are interchangeable. *)
EXTENDS OutboundGate, TLC

Symmetry == Permutations(Workers)
=============================================================================
