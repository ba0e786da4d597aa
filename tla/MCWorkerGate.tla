---------------------------- MODULE MCWorkerGate ----------------------------
EXTENDS WorkerGate

CONSTANTS w1, w2, p

MCProject == [r \in Runs |-> p]
=============================================================================
