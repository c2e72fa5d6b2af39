------------------------------- MODULE MCToolLoop -------------------------------
(* One strategy, up to two calls in one answer.                             *)
EXTENDS ToolLoop

CONSTANT s
=============================================================================
