------------------------- MODULE MCEventListeners -------------------------
(***************************************************************************)
(* Small instances of EventListeners for TLC: the bounds and the model       *)
(* values are all in the configurations.                                     *)
(***************************************************************************)
EXTENDS EventListeners
=============================================================================
