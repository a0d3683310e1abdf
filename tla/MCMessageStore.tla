--------------------------- MODULE MCMessageStore ---------------------------
(***************************************************************************)
(* A small instance of MessageStore for TLC: message m, and message x that   *)
(* revokes it.  Workers are only compared for equality.                     *)
(***************************************************************************)
EXTENDS MessageStore, TLC

CONSTANTS m, x, w1, w2

MCTarget == (m :> None) @@ (x :> m)
MCTimeOf == (m :> 1) @@ (x :> 2)
MCBatches == {<<m>>, <<x, m>>}
=============================================================================
