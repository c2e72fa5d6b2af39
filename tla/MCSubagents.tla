------------------------------ MODULE MCSubagents ------------------------------
(* Two workers of one turn.  The user may cancel the first; the second may  *)
(* hang.                                                                    *)
EXTENDS Subagents

CONSTANTS u, v

MCId == [w \in Workers |-> IF w = u THEN 1 ELSE 2]
=============================================================================
