----------------------------- MODULE MCCapture -----------------------------
EXTENDS ContinuousCapture, TLC

ClientSymmetry == Permutations(Clients)
=============================================================================
