------------------------- MODULE MCConcurrencyLease -------------------------
(* Two campaigns behind one provider; two attempts of campaign A and one of  *)
(* campaign B compete for two global slots.                                  *)
EXTENDS ConcurrencyLease, TLC

MCScopes == {"global", "campA", "campB", "dograh"}
MCHolders == {"a1", "a2", "b1"}
MCScopesOf ==
  [h \in MCHolders |->
     {"global", "dograh", IF h = "b1" THEN "campB" ELSE "campA"}]
MCSymmetry == Permutations(Workers)
MCLimit == [s \in MCScopes |-> IF s = "campA" THEN 1 ELSE 2]
=============================================================================
