---------------------------- MODULE MCGroupCache ----------------------------
(***************************************************************************)
(* A small instance of GroupCache for TLC: a group a that q joins and in     *)
(* which p becomes an admin, and a group b that does not change its          *)
(* participants.  Workers are only compared for equality.                    *)
(***************************************************************************)
EXTENDS GroupCache, TLC

CONSTANTS a, b, p, q

MCRoster ==
    a :> << p :> "member" @@ q :> "out",
            p :> "member" @@ q :> "member",
            p :> "admin" @@ q :> "member" >>
      @@ b :> << p :> "admin" @@ q :> "out" >>
\* WhatsApp changes group a only; b is what a refresh finds besides.
MCMaxChanges == a :> 2 @@ b :> 0

Symmetry == Permutations(Workers)
=============================================================================
