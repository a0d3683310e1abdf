------------------------- MODULE MCStatusAckWriter -------------------------
(***************************************************************************)
(* Small instances of StatusAckWriter for TLC.                              *)
(***************************************************************************)
EXTENDS StatusAckWriter, TLC

CONSTANTS v1, own, d1, dOwn, dBad

\* A viewer's linked device, one of our own, and a row nobody can parse.
MCPersonOf == d1 :> v1 @@ dOwn :> own @@ dBad :> None
NoDevices == <<>>

Symmetry == Permutations(Producers)
=============================================================================
