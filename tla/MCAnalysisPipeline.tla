-------------------------- MODULE MCAnalysisPipeline --------------------------
EXTENDS AnalysisPipeline, TLC

MCSymmetry == Permutations(Workers)
=============================================================================
