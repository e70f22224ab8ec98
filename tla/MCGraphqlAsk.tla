---------------------------- MODULE MCGraphqlAsk ----------------------------
(* Two subscriptions of a question that is stopped and resumed over HTTP. *)
EXTENDS GraphqlAsk
=============================================================================
