-------------------------- MODULE MCFindingsWorkflow --------------------------
(* FindingsWorkflow for TLC when the commands are given in any order.          *)
EXTENDS FindingsWorkflow
=============================================================================
