--------------------------- MODULE MCHealthCheck ---------------------------
(***************************************************************************)
(* Two backends behind the VIPs of one or two workers; a VIP has at most   *)
(* one backend, so that a change of backend frees an id.                   *)
(***************************************************************************)
EXTENDS HealthCheck, TLC

CONSTANTS b1, b2, w1, w2

MCSpecs(w) == IF w = w1 THEN {{}, {b1}, {b2}} ELSE {{}, {b1}}

=============================================================================
