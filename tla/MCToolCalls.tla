----------------------------- MODULE MCToolCalls -----------------------------
(* Two tasks in one workspace: p, of the first, and q, of the second, edit *)
(* the same file, only p with approval; m, of the second as well, runs a   *)
(* command over the whole workspace, with approval, and may hang.          *)
EXTENDS ToolCalls

CONSTANTS p, q, m, t1, t2, f1

MCTaskOf == [c \in Calls |-> IF c = p THEN t1 ELSE t2]
MCTarget == [c \in Calls |-> f1]
MCFingerprint == [c \in Calls |-> IF c = m THEN "command" ELSE "edit"]
=============================================================================
