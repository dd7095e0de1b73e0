---------------------------- MODULE MCPreparation -----------------------------
EXTENDS Preparation, TLC

CONSTANTS w1, w2, w3, f1, f2

MCWorkers == {w1, w2, w3}
MCFiles == {f1}
MCWorkerCounts == 1..3
MCMaxRuns == MaxRunTests * (1 + RebuildRetry)

=============================================================================
