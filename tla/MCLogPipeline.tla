---------------------------- MODULE MCLogPipeline ----------------------------
EXTENDS LogPipeline, TLC

Symmetry == Permutations(Logs) \cup Permutations(Partitions)
                               \cup Permutations(Consumers)
=============================================================================
