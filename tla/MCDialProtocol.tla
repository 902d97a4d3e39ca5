---------------------------- MODULE MCDialProtocol ----------------------------
EXTENDS DialProtocol, TLC

MCSymmetry == Permutations(Workers)
=============================================================================
