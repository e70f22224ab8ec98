----------------------------- MODULE MCChatPage -----------------------------
(* Two questions, a resume or two, and a user who is quick with the button. *)
EXTENDS ChatPage
=============================================================================
