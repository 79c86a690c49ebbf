----------------------------- MODULE MCHotStream -----------------------------
\* Instance of HotStream for TLC.
EXTENDS HotStream, TLC

Symmetry == Permutations(Workers)
=============================================================================
