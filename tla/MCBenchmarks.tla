---------------------------- MODULE MCBenchmarks ----------------------------
\* Instances of Benchmarks for TLC; the cfg files choose commands and sizes.
EXTENDS Benchmarks
=============================================================================
