-------------------------------- MODULE MCServices -------------------------------
(* A small instance of every service for TLC.                               *)
EXTENDS Services

CONSTANTS
  s, a1, user, scheduler, x1, x2, t1, t2, t3, t4, m1, m2, m3, c1, c2, b1, b2, b3
=============================================================================
