--------------------------- MODULE MCIdAllocator ---------------------------
(* Four keys compete for three ids. *)
EXTENDS IdAllocator

CONSTANTS k1, k2, k3, k4

MCKey == {k1, k2, k3, k4}
MCMax == 3
=============================================================================
