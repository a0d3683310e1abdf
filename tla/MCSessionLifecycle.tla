------------------------ MODULE MCSessionLifecycle ------------------------
(***************************************************************************)
(* Small instances of SessionLifecycle for TLC.  Callers, instances and     *)
(* pumps are only compared for equality, so each set is symmetric in the    *)
(* runs that check no liveness property.                                    *)
(***************************************************************************)
EXTENDS SessionLifecycle, TLC

Symmetry ==
    Permutations(Callers) \cup Permutations(Instances) \cup Permutations(Pumps)
=============================================================================
