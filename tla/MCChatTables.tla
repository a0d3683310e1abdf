---------------------------- MODULE MCChatTables ----------------------------
(***************************************************************************)
(* A small instance of ChatTables for TLC: me and another member, one label  *)
(* and one user chat.  Chats are only compared for equality.                 *)
(***************************************************************************)
EXTENDS ChatTables, TLC

Symmetry == Permutations(Chats)
=============================================================================
