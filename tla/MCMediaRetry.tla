----------------------------- MODULE MCMediaRetry -----------------------------
(***************************************************************************)
(* A small instance of MediaRetry for TLC: two calls, three answers.          *)
(***************************************************************************)
EXTENDS MediaRetry, TLC

CONSTANTS d1, d2
=============================================================================
