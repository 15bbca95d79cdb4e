-------------------------- MODULE MCToolchainImage --------------------------
EXTENDS ToolchainImage, TLC

\* The shells are alike, and nothing here is a liveness property.
MCSymmetry == Permutations(Shells)
=============================================================================
