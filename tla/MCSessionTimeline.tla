-------------------------- MODULE MCSessionTimeline --------------------------
(* Small instances of SessionTimeline.                                     *)
EXTENDS SessionTimeline, TLC

CONSTANTS p, v, r1, r2

(* Runtimes are interchangeable: each task gets a new one.                 *)
MCSymmetry == Permutations({r1, r2})

=============================================================================
