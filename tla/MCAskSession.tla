---------------------------- MODULE MCAskSession ----------------------------
(* A question of a few super-steps, asked once and resumed a few times. *)
EXTENDS AskSession
=============================================================================
