-------------------------- MODULE MCReleaseWorkflow --------------------------
(* VERSION starts as the first release candidate of 0.2.0, or as 0.2.0.     *)
EXTENDS ReleaseWorkflow, TLC

CONSTANTS r1, r2
MCFirst == [base |-> <<0, 2, 0>>, pre |-> "rc", num |-> 1]
MCReleased == [base |-> <<0, 2, 0>>, pre |-> "no", num |-> 0]
MCSymmetry == Permutations(Runs)
=============================================================================
