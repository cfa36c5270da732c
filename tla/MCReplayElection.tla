--------------------------- MODULE MCReplayElection ---------------------------
(* Instances of ReplayElection for TLC.                                    *)
EXTENDS ReplayElection, TLC

CoordinatorSymmetry ==
    Permutations(Candidates) \cup Permutations(Coordinators \ Candidates)
=============================================================================
