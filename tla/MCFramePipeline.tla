-------------------------- MODULE MCFramePipeline --------------------------
EXTENDS FramePipeline, TLC

Symmetry == Permutations(Viewers)
=============================================================================
