----------------------------- MODULE MCWorkflow -----------------------------
(* Two tables and small limits: every routing decision can go both ways. *)
EXTENDS WorkflowEvents

CONSTANTS orders, customers

MCTables == {orders, customers}
=============================================================================
