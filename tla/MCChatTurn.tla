----------------------------- MODULE MCChatTurn -----------------------------
(***************************************************************************)
(* Small instances of ChatTurn.                                            *)
(***************************************************************************)
EXTENDS ChatTurn

CONSTANTS t1, t2, w1, w2
=============================================================================
